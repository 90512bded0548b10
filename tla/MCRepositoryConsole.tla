------------------------ MODULE MCRepositoryConsole -------------------------
EXTENDS RepositoryConsole

MCRepo(st, c, code) ==
    [status |-> st, isDefault |-> st = "ready", isSystem |-> st = "ready", code |-> code,
     sealed |-> {"ada", "grace"}, confirmed |-> c, due |-> FALSE]

\* The default and System Repository, next to one that does not exist or one that
\* waits for its escrow.
MCInitialRepos ==
    {[r \in Repos |-> IF r = "nas" THEN MCRepo("ready", "fresh", 1) ELSE lab] :
        lab \in {Absent, MCRepo("awaiting_escrow", "no", 2)}}
=============================================================================
