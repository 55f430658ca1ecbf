--------------------------- MODULE RedisConnection ---------------------------
(***************************************************************************)
(* The one connection RedisService opens, as its users share it (Redis and *)
(* ioredis are external).  Commands are sent in the order they are issued  *)
(* and answered in that order.  BRPOP on an empty list holds the           *)
(* connection: the LPUSH that would end its wait stands behind it, and so  *)
(* do the SET, GET and DEL of payment requests.  Only the timeout of 2 s   *)
(* that pollQueue passes ends the wait.                                    *)
(***************************************************************************)
EXTENDS Naturals, Sequences

VARIABLES
  wire,  \* commands issued and not answered, oldest first
  list   \* payment_orchestrator:reconciliation_queue, oldest first

connVars == <<wire, list>>

Command(op, arg) == [op |-> op, arg |-> arg]

ConnInit == wire = << >> /\ list = << >>

Issue(op, arg) ==
  /\ wire' = Append(wire, Command(op, arg))
  /\ UNCHANGED list

Served(op) == wire # << >> /\ Head(wire).op = op

(* Redis executes the oldest command.                                      *)
ServeLpush(e) ==
  /\ Served("LPUSH")
  /\ e = Head(wire).arg
  /\ wire' = Tail(wire)
  /\ list' = Append(list, e)

ServeBrpop(e) ==
  /\ Served("BRPOP")
  /\ list # << >>
  /\ e = Head(list)
  /\ wire' = Tail(wire)
  /\ list' = Tail(list)

(* Mutant: timeout 0, BRPOP waits for an element however long it takes.    *)
BrpopWaits == FALSE /\ UNCHANGED connVars

(* Two seconds pass: null.                                                 *)
BrpopTimesOut ==
  /\ Served("BRPOP")
  /\ list = << >>
  /\ wire' = Tail(wire)
  /\ UNCHANGED list

(* A SET, GET or DEL of payment requests; their effect is RedisService's.  *)
ServeOther ==
  /\ Served("SET")
  /\ wire' = Tail(wire)
  /\ UNCHANGED list
=============================================================================
