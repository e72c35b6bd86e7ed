---------------------------- MODULE MCServiceCache ----------------------------
(* Small instances of ServiceCache for TLC. *)
EXTENDS ServiceCache

\* A list in the application's default order, a window of it and a .server() query.
List == [skip |-> 0, limit |-> 0, ordered |-> TRUE, exact |-> TRUE, server |-> FALSE]
Window == [List EXCEPT !.limit = 1, !.exact = FALSE]
Authoritative == [List EXCEPT !.ordered = FALSE, !.server = TRUE]

Budget(cooldown, writes, turns, outages, failures) ==
    [cooldown |-> cooldown, writes |-> writes, turns |-> turns, outages |-> outages,
     failures |-> failures]

\* A client that begins before it is connected; two writes, around a turn of the
\* application; one write around an outage, or around requests that fail to the end.
MCCases ==
    { [asked |-> List, online |-> FALSE, left |-> Budget(FALSE, 1, 1, 0, 0)],
      [asked |-> List, online |-> TRUE, left |-> Budget(FALSE, 2, 0, 0, 0)],
      [asked |-> Window, online |-> TRUE, left |-> Budget(FALSE, 2, 1, 0, 0)],
      [asked |-> List, online |-> TRUE, left |-> Budget(FALSE, 1, 1, 0, 2)],
      [asked |-> Window, online |-> TRUE, left |-> Budget(FALSE, 1, 1, 1, 0)],
      [asked |-> List, online |-> TRUE, left |-> Budget(TRUE, 1, 0, 1, 0)],
      [asked |-> Authoritative, online |-> TRUE, left |-> Budget(TRUE, 1, 0, 1, 0)] }

MCStarts == { << 2, 1 >> }

=============================================================================
