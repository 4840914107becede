--------------------------- MODULE SchemaHistory ---------------------------
(***************************************************************************)
(* What the migrations promise, without a table of names, transactions or  *)
(* failures: one schema that goes from version to version, and backends    *)
(* that serve on a version they know.  Migrations implements this.         *)
(***************************************************************************)
EXTENDS Integers

CONSTANTS Runners, NumFiles, Version

VARIABLES
  runs,    \* runs[f]: how often the changes of file f were made
  serving  \* the backends that serve

schema == <<runs, serving>>

\* The schema has every change up to file n, once, and none after it.
AtVersion(n) == \A f \in 1..NumFiles : runs[f] = IF f <= n THEN 1 ELSE 0

Init == runs = [f \in 1..NumFiles |-> 0] /\ serving = {}

\* The next file; backends may be serving on the version before.
Upgrade(n) ==
  /\ AtVersion(n - 1)
  /\ runs' = [runs EXCEPT ![n] = 1]
  /\ UNCHANGED serving

Serve(r) ==
  /\ \A f \in 1..Version[r] : runs[f] = 1
  /\ serving' = serving \cup {r}
  /\ UNCHANGED runs

Stop(r) == serving' = serving \ {r} /\ UNCHANGED runs

Next ==
  \/ \E n \in 1..NumFiles : Upgrade(n)
  \/ \E r \in Runners : Serve(r) \/ Stop(r)

Spec == Init /\ [][Next]_schema

=============================================================================
