---------------------------- MODULE MCEntityStore ----------------------------
(* The instances of EntityStore: one entity whose events are applied as they  *)
(* come, two entities with batched events and answers that overtake them.     *)
EXTENDS EntityStore
CONSTANTS i1, i2

Setting(ids, methods, maxCalls, maxRevs, batching, inOrder) ==
    [ids |-> ids, methods |-> methods, calls |-> maxCalls, revs |-> maxRevs,
     batching |-> batching, acksInOrder |-> inOrder]

AllMethods == {"create", "patch", "remove"}
MCManyCalls == Setting({i1}, AllMethods, 3, 2, FALSE, TRUE)
MCManyWrites == Setting({i1}, AllMethods, 2, 4, FALSE, TRUE)
MCBatched == Setting({i1, i2}, {"patch", "remove"}, 2, 2, TRUE, FALSE)
MCOvertaking == Setting({i1}, AllMethods, 2, 2, FALSE, FALSE)
MCSetups == {MCManyCalls, MCManyWrites, MCOvertaking, MCBatched}
=============================================================================
