---------------------------- MODULE MCAutomation ----------------------------
EXTENDS Automation

CONSTANTS a, b, c, z

(* A main graph a -> b -> z and a subflow c -> z, over every choice of     *)
(* kinds that a publish accepts; b may close a guarded cycle, or be last.  *)
(* If c starts a subflow as well, that one is b -> z.                      *)
MCNodes == {a, b, c, z}
Shape(ka, kb, kc, bnext, await, method) ==
  [kind   |-> (a :> ka @@ b :> kb @@ c :> kc @@ z :> "stop"),
   next   |-> (a :> b @@ b :> bnext @@ c :> z @@ z :> Nobody),
   alt    |-> [n \in MCNodes |-> IF n = z THEN Nobody ELSE z],
   start  |-> a, flow |-> [n \in MCNodes |-> IF n = c THEN b ELSE c],
   await  |-> await, method |-> method]
MCGraphs == {g \in {Shape(ka, kb, kc, bnext, await, method) :
    ka \in {"delay", "wait", "http", "subflow", "condition"},
    kb \in {"delay", "wait", "http", "subflow", "step"},
    kc \in {"delay", "wait", "step", "subflow"},
    bnext \in {z, a, Nobody}, await \in BOOLEAN, method \in {"GET", "POST"}} :
      /\ "http" \notin {g.kind[a], g.kind[b]} => g.method = "GET"
      /\ "subflow" \notin {g.kind[a], g.kind[b]} => g.kind[c] = "delay" /\ g.await
      /\ g.next[b] # z => "http" \notin {g.kind[a], g.kind[b]} /\ g.await
      /\ g.next[b] = a => {"delay", "wait"} \cap {g.kind[a], g.kind[b]} # {}
      /\ g.kind[a] = "http" => g.kind[b] = (IF g.method = "GET" THEN "wait" ELSE "step")
      /\ g.kind[b] = "http" => g.kind[a] = "subflow" /\ g.method = "POST"
      /\ g.kind[c] = "subflow" => g.kind[a] = "subflow" /\ g.next[b] = z /\ g.method = "GET"
      /\ g.kind[a] # g.kind[b]}

(* Requests are raced by calls and faults, waits by messages: a graph with *)
(* a request gets one message and every fault, unless a wait follows it.   *)
(* A subflow within a subflow gets one message, unless both can wait.      *)
Sends == "http" \in {graph.kind[a], graph.kind[b]}
Nests == graph.kind[c] = "subflow"
Alone == (Sends \/ Nests) /\ graph.kind[b] # "wait"
MCInit ==
  /\ Init
  /\ Cardinality({e \in Events : inbox[e] = "PENDING"}) = IF Alone THEN 1 ELSE 2
  /\ faults = IF Sends /\ Alone THEN 0 ELSE MaxFaults
MCSpec == MCInit /\ [][Next]_vars
Same == Permutations(Events) \cup Permutations(Workers)
=============================================================================
