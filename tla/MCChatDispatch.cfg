CONSTANTS
  Requests = {a, b}
  Routes = {"local", "frontier", "fusion"}
  Providers = {"frontier", "zai"}
  Cascades <- NoneOrTwo
  Failovers = {TRUE, FALSE}
  MaxAttempts = 1
  Slots = 1
  Limit = 1
  Leavers = {a}
SPECIFICATION FairSpec
CHECK_DEADLOCK FALSE
INVARIANTS SlotDiscipline AnswersHonest BooksAgree
 
