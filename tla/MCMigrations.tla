--------------------------- MODULE MCMigrations ---------------------------
(* Model checking of Migrations: runners of an old and of the new image.   *)
EXTENDS Migrations

CONSTANTS OldRunners, OldVersion

MCVersion == [r \in Runners |-> IF r \in OldRunners THEN OldVersion ELSE NumFiles]

=============================================================================
