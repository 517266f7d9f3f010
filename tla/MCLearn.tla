-------------------------------- MODULE MCLearn --------------------------------
(***************************************************************************)
(* Learn for TLC: a sanitizer dismissed often enough for the cap of its    *)
(* offline confidence, and a function that touches a sink.                 *)
(***************************************************************************)
EXTENDS Learn

Plain(fn, hypothesis) ==
  [fn |-> fn, hypothesis |-> hypothesis, dismissals |-> 0, wraps |-> hypothesis = "source",
   touches |-> hypothesis = "sink", shapes |-> {}, accessor |-> FALSE, concat |-> FALSE]

Two == {[Plain("clean", "sanitizer") EXCEPT !.dismissals = 60, !.shapes = {"allowlist"}],
        [Plain("query", "sink") EXCEPT !.concat = TRUE]}

\* Ollama's answers go the way of Anthropic's here, no provider the way of no key.
KeyOrNot == {<<"anthropic", TRUE>>, <<"openai", TRUE>>, <<"openai", FALSE>>}

\* Rolled back to the bound, it stands at the bar.
High == {95}
Lowest == {-10}
Laxer == {[conf |-> 70, triage |-> 0]}
===============================================================================
