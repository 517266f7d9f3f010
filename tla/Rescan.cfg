\* Handlers of three calls that start with a source, two decisions of one reviewer.
CONSTANTS
  Methods <- AllMethods
  Calls <- AllCalls
  Bare <- BareNames
  KnownSources = {"getParameter"}
  KnownSinks = {"executeQuery"}
  SinkClass <- SinkClasses
  Repos <- AllRepos
  Rank <- Sorted
  Classes = {"xss"}
  Users = {"ada"}
  MaxDecisions = 2
  FirstCalls = {"getParameter", "Legacy.getParam"}
  SecondCalls = {"Cleaner.clean", "Dao.run", "Legacy.getParam"}
  ThirdCalls = {"Legacy.getParam", "executeQuery"}
SPECIFICATION Spec
INVARIANTS TypeOK SurfacedIsDifference SinksNeverTrusted
PROPERTIES StableIds LearningOnlyAdds ConfirmIsCaptured
CHECK_DEADLOCK FALSE
