------------------------------- MODULE MCRescan -------------------------------
(***************************************************************************)
(* Rescan for TLC.  Three helper methods (a cleaner, a wrapper of a known  *)
(* source and one of a known sink), a handler with a fixed body that reads *)
(* a wrapped and then a known source and calls another "clean" in between, *)
(* and a handler with a body of three calls that starts with a source.     *)
(***************************************************************************)
EXTENDS Rescan, TLC

CONSTANTS FirstCalls, SecondCalls, ThirdCalls   \* the free handler's body

Helpers    == {"Cleaner.clean", "Legacy.getParam", "Dao.run"}
AllMethods == Helpers \cup {"Page.show", "Page.free"}
AllCalls   == Helpers \cup {"Other.clean", "getParameter", "executeQuery", "renderUnescaped", "replace"}

BareNames ==
  [n \in AllMethods \cup AllCalls |->
     CASE n \in {"Cleaner.clean", "Other.clean"} -> "clean"
       [] n = "Legacy.getParam" -> "getParam"
       [] n = "Dao.run" -> "run"
       [] n = "Page.show" -> "show"
       [] n = "Page.free" -> "free"
       [] OTHER -> n]

SinkClasses == ("executeQuery" :> "sql_injection") @@ ("renderUnescaped" :> "xss")

Sorted == ("Cleaner.clean" :> 1) @@ ("Dao.run" :> 2) @@ ("Legacy.getParam" :> 3) @@
          ("Page.free" :> 4) @@ ("Page.show" :> 5)

Repository(body) ==
  ("Cleaner.clean" :> <<"replace">>) @@
  ("Legacy.getParam" :> <<"getParameter">>) @@
  ("Dao.run" :> <<"executeQuery">>) @@
  ("Page.show" :> <<"Legacy.getParam", "Other.clean", "getParameter", "renderUnescaped">>) @@
  ("Page.free" :> body)

AllRepos == {Repository(<<a, b, c>>) : a \in FirstCalls, b \in SecondCalls, c \in ThirdCalls}
=============================================================================
