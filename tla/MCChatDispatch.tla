--------------------------- MODULE MCChatDispatch ---------------------------
(* Small instances of ChatDispatch: the configured cascade.                  *)
EXTENDS ChatDispatch

NoneOrTwo == {<<>>, <<"frontier", "zai">>}
=============================================================================
