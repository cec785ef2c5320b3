------------------------------ MODULE QueryPool ------------------------------
(***************************************************************************)
(* The limit on concurrent Cassandra queries (db/cassandra_client.go):     *)
(* every operation of CassandraClient puts a token into the buffered       *)
(* channel ConcurrentQueries and takes one out when it returns.            *)
(* SetXconfCompressedData does so and then calls ExecuteBatch, which puts  *)
(* a second token while the first is held.                                 *)
(***************************************************************************)
EXTENDS Integers, FiniteSets

CONSTANTS
    Calls,    \* calls of client operations, each by a goroutine of its own
    Batch,    \* those of SetXconfCompressedData
    Slots     \* database.concurrent_queries, the capacity of the channel

ASSUME PoolConstants ==
    IsFiniteSet(Calls) /\ Batch \subseteq Calls /\ Slots \in Nat \ {0}

VARIABLES
    pc,       \* call -> step
    tokens    \* number of tokens in ConcurrentQueries

poolVars == <<pc, tokens>>

PoolInit == pc = [c \in Calls |-> "idle"] /\ tokens = 0

Goto(c, step) == pc' = [pc EXCEPT ![c] = step]

Call(c) == pc[c] = "idle" /\ Goto(c, "queued") /\ UNCHANGED tokens

(* c.ConcurrentQueries <- true                                             *)
PutAlways == tokens' = tokens + 1    \* the channel is not bounded
Put == tokens < Slots /\ tokens' = tokens + 1

Enter(c) ==
    /\ pc[c] = "queued" /\ Put
    /\ Goto(c, IF c \in Batch THEN "holding" ELSE "running")

EnterBatch(c) == pc[c] = "holding" /\ Put /\ Goto(c, "running")

(* The query ends, with or without an error, and the deferred functions    *)
(* take the tokens of the call out.                                        *)
ReturnWithoutDefer(c) ==         \* the operation keeps its own token
    /\ pc[c] = "running"
    /\ tokens' = tokens - (IF c \in Batch THEN 1 ELSE 0)
    /\ Goto(c, "done")
Return(c) ==
    /\ pc[c] = "running"
    /\ tokens' = tokens - (IF c \in Batch THEN 2 ELSE 1)
    /\ Goto(c, "done")

Step(c) == Call(c) \/ Enter(c) \/ EnterBatch(c) \/ Return(c)
PoolNext == \E c \in Calls : Step(c)
PoolSpec == PoolInit /\ [][PoolNext]_poolVars

(* A goroutine that can go on does: queries end, by the driver's timeout   *)
(* at the latest, and a free slot goes to a waiting sender.                *)
FairPoolSpec == PoolSpec /\ \A c \in Calls : WF_poolVars(Step(c))

-----------------------------------------------------------------------------
Steps == {"idle", "queued", "holding", "running", "done"}

(* The channel never holds more tokens than its capacity or fewer than     *)
(* none, and only a call of SetXconfCompressedData waits with a token.     *)
PoolTypeOK ==
    /\ pc \in [Calls -> Steps] /\ tokens \in 0..Slots
    /\ \A c \in Calls : pc[c] = "holding" => c \in Batch

(* Unless all calls have returned, one of them can go on: the calls do not *)
(* wait for each other's tokens in a circle.                               *)
CanMove(c) ==
    \/ pc[c] \in {"idle", "running"}
    \/ pc[c] \in {"queued", "holding"} /\ tokens < Slots
NotStuck == (\A c \in Calls : pc[c] = "done") \/ (\E c \in Calls : CanMove(c))

(* Every call that asks for a slot gets it and returns.                    *)
EveryCallReturns == \A c \in Calls : pc[c] = "queued" ~> pc[c] = "done"

(* The channel ConcurrentQueries respects its capacity and the calls that  *)
(* send to it never block each other for good.                             *)
PoolSound == PoolTypeOK /\ NotStuck
=============================================================================
