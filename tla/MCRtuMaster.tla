---------------------------- MODULE MCRtuMaster ----------------------------
(* Two slaves, a broadcast, two functions and two sizes of one of them.    *)
EXTENDS RtuMaster

Request(to, code, size) == [to |-> to, code |-> code, size |-> size]

MCRequests == { Request("one", "read", 1), Request("one", "read", 2),
                Request("one", "write", 1), Request("two", "read", 1),
                Request("all", "write", 1) }

\* The best and the worst of worlds, and good slaves with a bad application.
World(prompt, memory, polite) ==
    [prompt |-> prompt, memory |-> memory, polite |-> polite]
MCWorlds == {World(TRUE, TRUE, TRUE), World(TRUE, TRUE, FALSE),
             World(FALSE, FALSE, FALSE), World(FALSE, TRUE, TRUE)}

\* An application that asks in every pass until it is accepted.
OneRequest == {Request("one", "read", 1)}
BusyWorld == {World(TRUE, TRUE, FALSE)}
==========================================================================
