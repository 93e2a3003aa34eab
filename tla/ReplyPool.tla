------------------------------ MODULE ReplyPool -----------------------------
(***************************************************************************)
(* The reply slots of fs.rs: client tasks send requests to the one file    *)
(* system task over the channel REQ and wait for the answer in one of      *)
(* REPLY_SLOTS signals.  Tasks may preempt each other between any two      *)
(* accesses to shared state (the statics are behind critical sections and  *)
(* may be used from several executors).                                    *)
(*                                                                         *)
(* FairSemaphore, Channel and Signal are embassy-sync's.  A Signal holds   *)
(* one value; signalling again overwrites it, waiting takes it.  The value *)
(* FREE_SLOTS.acquire returns is a SemaphoreReleaser, which gives the      *)
(* permit back when it is dropped; acquire drops it in the statement that  *)
(* obtains it.                                                             *)
(***************************************************************************)
EXTENDS Integers, Sequences, FiniteSets

CONSTANTS Clients,
          REPLY_SLOTS,
          ReqCapacity,    \* capacity of REQ
          MaxSeq,         \* bound on the requests made in a behaviour
          MaxCancels      \* bound on the requests dropped half way

ASSUME ReplyPoolAssumption ==
  /\ IsFiniteSet(Clients)
  /\ REPLY_SLOTS \in Nat \ {0} /\ ReqCapacity \in Nat \ {0} /\ MaxSeq \in Nat
  /\ MaxCancels \in Nat

VARIABLES FREE_SLOTS,     \* permits of the semaphore
          SLOT_BITMAP,    \* the slots whose bit is set
          SEQ,
          REPLY_SIGNALS,  \* per slot, the seq of the answer in it; 0: none
          REQ,            \* the channel, a sequence of tokens
          actor,          \* the token of the request being handled, or NoToken
          client,         \* per client: where it is, and its token
          leaked          \* ghost: the slots of requests dropped half way

vars == <<FREE_SLOTS, SLOT_BITMAP, SEQ, REPLY_SIGNALS, REQ, actor, client, leaked>>

Slots == 0 .. REPLY_SLOTS - 1
Token(slot, seq) == [slot |-> slot, seq |-> seq]
NoToken == Token(0, 0)
At(pc, token) == [pc |-> pc, token |-> token]
Goto(c, pc) == client' = [client EXCEPT ![c].pc = pc]

-----------------------------------------------------------------------------
(* ReplyPool::acquire: a permit, taken and at once given back, ...         *)
acquire(c) ==
  /\ client[c].pc = "idle" /\ SEQ <= MaxSeq
  /\ FREE_SLOTS >= 1
  /\ Goto(c, "claim")
  /\ UNCHANGED <<FREE_SLOTS, SLOT_BITMAP, SEQ, REPLY_SIGNALS, REQ, actor, leaked>>

(* Mutant of claim_slot_locked: the slots are numbered from one.           *)
claim_slot_locked_from_one(bitmap) ==
  CHOOSE i \in 1 .. REPLY_SLOTS : /\ i \notin bitmap
                                  /\ \A j \in 1 .. REPLY_SLOTS : j \notin bitmap => i <= j

(* ... then the lowest free slot, or slot 0 if there is none, ...          *)
claim_slot_locked(bitmap) ==
  IF Slots \subseteq bitmap THEN 0
  ELSE CHOOSE i \in Slots \ bitmap : \A j \in Slots \ bitmap : i <= j

claim(c) ==
  /\ client[c].pc = "claim"
  /\ SLOT_BITMAP' = SLOT_BITMAP \cup {claim_slot_locked(SLOT_BITMAP)}
  /\ client' = [client EXCEPT ![c] = At("number", Token(claim_slot_locked(SLOT_BITMAP), 0))]
  /\ UNCHANGED <<FREE_SLOTS, SEQ, REPLY_SIGNALS, REQ, actor, leaked>>

(* ... then a number for the request.                                      *)
number(c) ==
  /\ client[c].pc = "number"
  /\ SEQ' = SEQ + 1
  /\ client' = [client EXCEPT ![c] = At("send", Token(client[c].token.slot, SEQ))]
  /\ UNCHANGED <<FREE_SLOTS, SLOT_BITMAP, REPLY_SIGNALS, REQ, actor, leaked>>

(* Mutant of send: try_send, which does not wait for room.                 *)
send_if_room(c) ==
  /\ client[c].pc = "send"
  /\ REQ' = IF Len(REQ) < ReqCapacity THEN Append(REQ, client[c].token) ELSE REQ
  /\ Goto(c, "wait")
  /\ UNCHANGED <<FREE_SLOTS, SLOT_BITMAP, SEQ, REPLY_SIGNALS, actor, leaked>>

(* REQ.send waits for room in the channel.                                 *)
send(c) ==
  /\ client[c].pc = "send" /\ Len(REQ) < ReqCapacity
  /\ REQ' = Append(REQ, client[c].token)
  /\ Goto(c, "wait")
  /\ UNCHANGED <<FREE_SLOTS, SLOT_BITMAP, SEQ, REPLY_SIGNALS, actor, leaked>>

(* Mutant of wait: the answer is compared with the newest request.         *)
wait_newest(c) ==
  LET slot == client[c].token.slot
  IN  /\ client[c].pc = "wait" /\ REPLY_SIGNALS[slot] # 0
      /\ REPLY_SIGNALS' = [REPLY_SIGNALS EXCEPT ![slot] = 0]
      /\ IF REPLY_SIGNALS[slot] = SEQ - 1
         THEN Goto(c, "release") ELSE UNCHANGED client
      /\ UNCHANGED <<FREE_SLOTS, SLOT_BITMAP, SEQ, REQ, actor, leaked>>

(* ReplyPool::wait takes whatever is signalled in its slot; an answer with *)
(* another number is dropped.                                              *)
wait(c) ==
  LET slot == client[c].token.slot
  IN  /\ client[c].pc = "wait" /\ REPLY_SIGNALS[slot] # 0
      /\ REPLY_SIGNALS' = [REPLY_SIGNALS EXCEPT ![slot] = 0]
      /\ IF REPLY_SIGNALS[slot] = client[c].token.seq
         THEN Goto(c, "release") ELSE UNCHANGED client
      /\ UNCHANGED <<FREE_SLOTS, SLOT_BITMAP, SEQ, REQ, actor, leaked>>

(* Mutant of release_slot_locked: the mask is not inverted.                *)
release_slot_locked_others(c) ==
  /\ client[c].pc = "release"
  /\ SLOT_BITMAP' = SLOT_BITMAP \cap {client[c].token.slot}
  /\ client' = [client EXCEPT ![c] = At("permit", NoToken)]
  /\ UNCHANGED <<FREE_SLOTS, SEQ, REPLY_SIGNALS, REQ, actor, leaked>>

(* The slot is given back, then the permit.                                *)
release_slot_locked(c) ==
  /\ client[c].pc = "release"
  /\ SLOT_BITMAP' = SLOT_BITMAP \ {client[c].token.slot}
  /\ client' = [client EXCEPT ![c] = At("permit", NoToken)]
  /\ UNCHANGED <<FREE_SLOTS, SEQ, REPLY_SIGNALS, REQ, actor, leaked>>

release(c) ==
  /\ client[c].pc = "permit"
  /\ FREE_SLOTS' = FREE_SLOTS + 1
  /\ Goto(c, "idle")
  /\ UNCHANGED <<SLOT_BITMAP, SEQ, REPLY_SIGNALS, REQ, actor, leaked>>

(* The client's future is dropped while it waits for room or for the       *)
(* answer: nothing gives its slot or its permit back.                      *)
cancel(c) ==
  /\ client[c].pc \in {"send", "wait"} /\ Cardinality(leaked) < MaxCancels
  /\ leaked' = leaked \cup {client[c].token.slot}
  /\ client' = [client EXCEPT ![c] = At("idle", NoToken)]
  /\ UNCHANGED <<FREE_SLOTS, SLOT_BITMAP, SEQ, REPLY_SIGNALS, REQ, actor>>

(* fs_actor_task: one request after the other.                             *)
receive ==
  /\ actor = NoToken /\ REQ # <<>>
  /\ actor' = Head(REQ) /\ REQ' = Tail(REQ)
  /\ UNCHANGED <<FREE_SLOTS, SLOT_BITMAP, SEQ, REPLY_SIGNALS, client, leaked>>

complete ==
  /\ actor # NoToken
  /\ REPLY_SIGNALS' = [REPLY_SIGNALS EXCEPT ![actor.slot] = actor.seq]
  /\ actor' = NoToken
  /\ UNCHANGED <<FREE_SLOTS, SLOT_BITMAP, SEQ, REQ, client, leaked>>

-----------------------------------------------------------------------------
Init ==
  /\ FREE_SLOTS = REPLY_SLOTS /\ SLOT_BITMAP = {} /\ SEQ = 1
  /\ REPLY_SIGNALS = [i \in Slots |-> 0]
  /\ REQ = <<>> /\ actor = NoToken
  /\ client = [c \in Clients |-> At("idle", NoToken)]
  /\ leaked = {}

(* What a client goes on to do once it has asked for a permit.             *)
Proceed(c) == claim(c) \/ number(c) \/ send(c) \/ wait(c) \/ release_slot_locked(c) \/ release(c)

Next == \/ \E c \in Clients : acquire(c) \/ Proceed(c) \/ cancel(c)
        \/ receive \/ complete

Spec == Init /\ [][Next]_vars

(* Every task that is ready is polled: the executor's run queue is fair.   *)
FairSpec == /\ Spec
            /\ \A c \in Clients : WF_vars(Proceed(c))
            /\ WF_vars(receive) /\ WF_vars(complete)

-----------------------------------------------------------------------------
TokenType == [slot : Slots, seq : Nat]

(* The values of the statics and of the tokens.                            *)
TypeOK ==
  /\ FREE_SLOTS \in Nat /\ SEQ \in Nat \ {0}
  /\ SLOT_BITMAP \subseteq Slots /\ leaked \subseteq SLOT_BITMAP
  /\ REPLY_SIGNALS \in [Slots -> Nat]
  /\ REQ \in Seq(TokenType) /\ actor \in TokenType
  /\ client \in [Clients -> [pc : {"idle", "claim", "number", "send", "wait", "release", "permit"},
                             token : TokenType]]

(* The clients that have claimed a slot and not given it back.             *)
Holders == {c \in Clients : client[c].pc \in {"number", "send", "wait", "release"}}

(* No two requests in flight share a slot, nor one with a request that was *)
(* dropped and may still be answered: claim_slot_locked always finds a     *)
(* free one as long as there are no more clients and dropped requests than *)
(* slots.                                                                  *)
SlotsExclusive ==
  /\ \A c, d \in Holders : client[c].token.slot = client[d].token.slot => c = d
  /\ \A c \in Holders : client[c].token.slot \in SLOT_BITMAP \ leaked

(* A client that waits will be answered: its request is in the channel or  *)
(* being handled, or the answer is in its slot; no other task's answer has *)
(* overwritten it and no other task has taken it.                          *)
Pending(t) == \/ \E i \in 1 .. Len(REQ) : REQ[i] = t
              \/ actor = t
              \/ REPLY_SIGNALS[t.slot] = t.seq
NoReplyLost == \A c \in Clients : client[c].pc = "wait" => Pending(client[c].token)

(* "Semaphore limits number of in-flight requests to REPLY_SLOTS."         *)
InFlightBounded == Cardinality(Holders) <= REPLY_SLOTS

(* Every request a client has started ends with its answer.                *)
EveryRequestAnswered == \A c \in Clients : client[c].pc # "idle" ~> client[c].pc = "idle"
=============================================================================
