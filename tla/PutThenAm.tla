------------------------------- MODULE PutThenAm -------------------------------
(***************************************************************************)
(* rma_put_then_am_master (backend/gasnet/runtime.cpp): a put whose target *)
(* master persona must run a command once the bytes have landed.           *)
(*                                                                         *)
(* A command that fits in 13 AM arguments travels packed with the payload. *)
(* A longer one is cut into Medium messages that race the Long message     *)
(* carrying the payload; the target puts the pieces together in a          *)
(* am_long_reassembly_state found through a table keyed by source rank and *)
(* nonce.  Messages are delivered in any order, and each handler may run   *)
(* on a different thread: the lock covers the table, not the copy of the   *)
(* bytes or the final count, so handlers of one command interleave.        *)
(*                                                                         *)
(* The put of one (source, command) is an element of Ops.  A message is a  *)
(* record; its handler's program counter and locals are functions of it.   *)
(* Handing a command to the master persona is one step here (the inbox is  *)
(* MpscQueue's subject, running it ProgressEngine's).                      *)
(***************************************************************************)
EXTENDS Naturals, FiniteSets

CONSTANTS Ops,       \* the puts a behaviour may issue
          MaxPuts,   \* how many of them it does issue
          SrcRank,   \* the rank that issues each of them
          CmdSize,   \* bytes of each one's serialized command
          Packed,    \* those sent by the packed protocol
          Long,      \* those whose payload exceeds gex_AM_MaxRequestLong
          Replying,  \* those with a non-null rem_cb
          SrcCb,     \* those whose caller wants a source-completion handle
          PartMax,   \* gex_AM_MaxRequestMedium: bytes per command part
          NonceMod,  \* size of the nonce's type (2^32 in the code)
          RankMod,   \* size of the high word of a key (2^32 in the code)
          Addrs,     \* addresses of reassembly states
          Nil

Ranks == {SrcRank[o] : o \in Ops}

ASSUME PutThenAmAssumption ==
  /\ SrcRank \in [Ops -> 0 .. RankMod - 1]
  /\ CmdSize \in [Ops -> Nat \ {0}]
  /\ Packed \subseteq Ops /\ Long \subseteq Ops
  /\ Replying \subseteq Ops /\ SrcCb \subseteq Ops
  /\ PartMax \in Nat \ {0} /\ MaxPuts \in Nat
  /\ NonceMod \in Nat \ {0} /\ RankMod \in Nat \ {0}
  /\ Nil \notin Ops /\ Nil \notin Addrs /\ Nil \notin 0 .. NonceMod - 1

\* part_offset in the turns of the loop that sends the parts
Offsets(o) == {n \in 0 .. CmdSize[o] - 1 : \E k \in 0 .. n : n = k * PartMax}

PartSize(o, off) == IF CmdSize[o] - off < PartMax THEN CmdSize[o] - off ELSE PartMax

\* The messages of one put: one packed message, or a payload and its parts.
MsgsOf(o) ==
  IF o \in Packed
  THEN {[op |-> o, kind |-> "packed", off |-> 0]}
  ELSE {[op |-> o, kind |-> "payload", off |-> 0]}
         \cup {[op |-> o, kind |-> "cmd", off |-> n] : n \in Offsets(o)}

Msgs == UNION {MsgsOf(o) : o \in Ops}

ASSUME NilIsNoMessage == Nil \notin Msgs

Total(o) == 1 + CmdSize[o]      \* credits_total

VARIABLES
  caller,    \* per put: where the calling thread is in the protocol
  bumper,    \* per rank: rma_put_then_am_nonce_bumper
  nonce,     \* per put: the nonce it drew, or Nil
  prefix,    \* puts whose blocking prefix put has completed
  body,      \* puts whose Long payload has been delivered
  pc,        \* per message: unsent, in flight, or where its handler is
  ptr,       \* per message: its handler's st
  opt,       \* per message: did its handler erase the entry optimistically
  cb,        \* per message: the reply_cb its handler is about to answer
  holder,    \* the handler holding am_long_reassembly_lock, or Nil
  table,     \* am_long_reassembly_table, from keys to addresses
  mem,       \* the reassembly states
  inbox,     \* what has been enqueued on the master persona: address -> count
  ran,       \* per put: how often its command has run
  replies,   \* per put: id_am_reply_cb messages in flight
  fired      \* per put: how often its reply_cb has fired

senderVars  == <<caller, bumper, nonce, prefix>>
handlerVars == <<pc, ptr, opt, cb, holder>>
targetVars  == <<table, mem, inbox, ran>>
replyVars   == <<replies, fired>>
vars == <<senderVars, body, handlerVars, targetVars, replyVars>>

Bytes == UNION {0 .. CmdSize[o] - 1 : o \in Ops}

Blank == [b \in Bytes |-> Nil]

Free == [live |-> FALSE, credits |-> 0, reply |-> Nil, exec |-> FALSE, bytes |-> Blank]

Fresh == [Free EXCEPT !.live = TRUE]     \* build_eager(nullptr, ...)

\* Faulty variant: the key is the nonce alone.
KeyNoRank(o) == <<0, nonce[o]>>

\* uint64_t(srcrank)<<32 ^ nonce, as its high and low words.  nonce is a
\* signed gex_AM_Arg_t, so a nonce with its top bit set is sign extended and
\* flips every bit of the high word.
Key(o) ==
  LET n == nonce[o] IN
  <<IF 2 * n >= NonceMod THEN RankMod - 1 - SrcRank[o] ELSE SrcRank[o], n>>

Keys == (0 .. RankMod - 1) \X (0 .. NonceMod - 1)

Answer(o) == IF o \in Replying THEN o ELSE Nil   \* rem_cb

\* The ranks may have issued any number of puts before these.
Init ==
  /\ caller = [o \in Ops |-> "idle"]
  /\ bumper \in [Ranks -> 0 .. NonceMod - 1]
  /\ nonce = [o \in Ops |-> Nil]
  /\ prefix = {}
  /\ body = {}
  /\ pc = [m \in Msgs |-> "unsent"]
  /\ ptr = [m \in Msgs |-> Nil]
  /\ opt = [m \in Msgs |-> FALSE]
  /\ cb = [m \in Msgs |-> Nil]
  /\ holder = Nil
  /\ table = [k \in Keys |-> Nil]
  /\ mem = [a \in Addrs |-> Free]
  /\ inbox = [a \in Addrs |-> 0]
  /\ ran = [o \in Ops |-> 0]
  /\ replies = [o \in Ops |-> 0]
  /\ fired = [o \in Ops |-> 0]

-----------------------------------------------------------------------------
(* The initiator: rma_put_then_am_master_protocol.                         *)

MayBegin(o) == caller[o] = "idle" /\ Cardinality({p \in Ops : caller[p] # "idle"}) < MaxPuts

\* Faulty variant: the prefix is put without waiting for it.
PutPrefixNoWait(o) ==
  /\ MayBegin(o) /\ o \in Long
  /\ caller' = [caller EXCEPT ![o] = "request"]
  /\ UNCHANGED <<bumper, nonce, prefix, body, handlerVars, targetVars, replyVars>>

\* What one Long cannot carry goes first, by gex_RMA_PutBlocking.
PutPrefix(o) ==
  /\ MayBegin(o) /\ o \in Long
  /\ caller' = [caller EXCEPT ![o] = "request"]
  /\ prefix' = prefix \cup {o}
  /\ UNCHANGED <<bumper, nonce, body, handlerVars, targetVars, replyVars>>

SkipPrefix(o) ==
  /\ MayBegin(o) /\ o \notin Long
  /\ caller' = [caller EXCEPT ![o] = "request"]
  /\ UNCHANGED <<bumper, nonce, prefix, body, handlerVars, targetVars, replyVars>>

\* After the last message gex_Event_Test may find the source buffer already
\* free (src_now), or leave it to src_cb.
Outcomes(o) == IF o \in SrcCb THEN {"src_now", "src_cb"} ELSE {"src_now"}

SendPacked(o) ==
  /\ caller[o] = "request" /\ o \in Packed
  /\ \E c \in Outcomes(o) : caller' = [caller EXCEPT ![o] = c]
  /\ pc' = [pc EXCEPT ![[op |-> o, kind |-> "packed", off |-> 0]] = "flight"]
  /\ UNCHANGED <<bumper, nonce, prefix, body, ptr, opt, cb, holder, targetVars, replyVars>>

\* 2^32 puts cannot be outstanding at once: a nonce drawn again is one whose
\* last user has been assembled.  This bounds the model, no code checks it.
NonceRetired(o) ==
  \A p \in Ops : (SrcRank[p] = SrcRank[o] /\ nonce[p] = bumper[SrcRank[o]])
                   => \A m \in MsgsOf(p) : pc[m] = "done"

SendPayload(o) ==
  /\ caller[o] = "request" /\ o \notin Packed
  /\ NonceRetired(o)
  /\ nonce' = [nonce EXCEPT ![o] = bumper[SrcRank[o]]]
  /\ bumper' = [bumper EXCEPT ![SrcRank[o]] = (@ + 1) % NonceMod]
  /\ caller' = [caller EXCEPT ![o] = "parts"]
  /\ pc' = [pc EXCEPT ![[op |-> o, kind |-> "payload", off |-> 0]] = "flight"]
  /\ UNCHANGED <<prefix, body, ptr, opt, cb, holder, targetVars, replyVars>>

\* One turn of the loop over part_offset; the loop ends past the last part.
SendCmdPart(o) ==
  /\ caller[o] = "parts"
  /\ \E m \in MsgsOf(o) :
       /\ m.kind = "cmd" /\ pc[m] = "unsent"
       /\ \A n \in Offsets(o) : n < m.off => pc[[m EXCEPT !.off = n]] # "unsent"
       /\ pc' = [pc EXCEPT ![m] = "flight"]
       /\ IF m.off + PartSize(o, m.off) < CmdSize[o]
          THEN caller' = caller
          ELSE \E c \in Outcomes(o) : caller' = [caller EXCEPT ![o] = c]
  /\ UNCHANGED <<bumper, nonce, prefix, body, ptr, opt, cb, holder, targetVars, replyVars>>

-----------------------------------------------------------------------------
(* The target's handlers.                                                  *)

\* am_long_reassembly_table.insert({key, nullptr}), then build_eager if new.
\* a is the address of the state of m's command, Found(m, a) its contents.
Lookup(m, a) ==
  LET k == Key(m.op) IN
  IF table[k] # Nil THEN a = table[k] ELSE a \in Addrs /\ ~mem[a].live

Found(m, a) == IF table[Key(m.op)] # Nil THEN mem[a] ELSE Fresh

\* am_long_master_packed_cmd
PackedCmd(m) ==
  /\ m.kind = "packed" /\ pc[m] = "flight"
  /\ \E a \in Addrs :
       /\ ~mem[a].live
       /\ mem' = [mem EXCEPT ![a] =
            [Fresh EXCEPT !.exec = TRUE,
                          !.bytes = [b \in Bytes |-> IF b < CmdSize[m.op] THEN m.op ELSE Nil]]]
       /\ ptr' = [ptr EXCEPT ![m] = a]
  /\ body' = body \cup {m.op}
  /\ cb' = [cb EXCEPT ![m] = Answer(m.op)]
  /\ pc' = [pc EXCEPT ![m] = "enqueue"]
  /\ UNCHANGED <<senderVars, opt, holder, table, inbox, ran, replyVars>>

\* Faulty variant: the payload's handler does not leave its reply_cb in the state.
PayloadLockNoReply(m) ==
  /\ m.kind = "payload" /\ pc[m] = "flight"
  /\ holder = Nil
  /\ holder' = m
  /\ \E a \in Addrs :
       /\ Lookup(m, a)
       /\ table' = [table EXCEPT ![Key(m.op)] = a]
       /\ mem' = [mem EXCEPT ![a] = Found(m, a)]
       /\ ptr' = [ptr EXCEPT ![m] = a]
  /\ body' = body \cup {m.op}
  /\ cb' = [cb EXCEPT ![m] = Answer(m.op)]
  /\ pc' = [pc EXCEPT ![m] = "locked"]
  /\ UNCHANGED <<senderVars, opt, inbox, ran, replyVars>>

\* am_long_master_payload_part, up to the fetch_add: the payload is in place
\* when a Long's handler runs.
PayloadLock(m) ==
  /\ m.kind = "payload" /\ pc[m] = "flight"
  /\ holder = Nil
  /\ holder' = m
  /\ \E a \in Addrs :
       /\ Lookup(m, a)
       /\ table' = [table EXCEPT ![Key(m.op)] = a]
       /\ mem' = [mem EXCEPT ![a] = [Found(m, a) EXCEPT !.reply = Answer(m.op)]]
       /\ ptr' = [ptr EXCEPT ![m] = a]
  /\ body' = body \cup {m.op}
  /\ cb' = [cb EXCEPT ![m] = Answer(m.op)]
  /\ pc' = [pc EXCEPT ![m] = "locked"]
  /\ UNCHANGED <<senderVars, opt, inbox, ran, replyVars>>

\* the fetch_add, the erase if it completes the command, and the unlock
PayloadCredit(m) ==
  /\ pc[m] = "locked"
  /\ LET after == mem[ptr[m]].credits + 1 IN
       /\ mem' = [mem EXCEPT ![ptr[m]].credits = after]
       /\ IF after = Total(m.op)
          THEN /\ table' = [table EXCEPT ![Key(m.op)] = Nil]
               /\ pc' = [pc EXCEPT ![m] = "enqueue"]
          ELSE /\ table' = table
               /\ pc' = [pc EXCEPT ![m] = "done"]
  /\ holder' = Nil
  /\ UNCHANGED <<senderVars, body, ptr, opt, cb, inbox, ran, replyVars>>

\* am_long_master_cmd_part, its first critical section
CmdLock(m) ==
  /\ m.kind = "cmd" /\ pc[m] = "flight"
  /\ holder = Nil
  /\ \E a \in Addrs :
       /\ Lookup(m, a)
       /\ LET st == Found(m, a)
              last == st.credits + PartSize(m.op, m.off) = Total(m.op) IN
            /\ mem' = [mem EXCEPT ![a] = st]
            /\ table' = [table EXCEPT ![Key(m.op)] = IF last THEN Nil ELSE a]
            /\ opt' = [opt EXCEPT ![m] = last]
       /\ ptr' = [ptr EXCEPT ![m] = a]
  /\ pc' = [pc EXCEPT ![m] = "copy"]
  /\ UNCHANGED <<senderVars, body, cb, holder, inbox, ran, replyVars>>

\* memcpy of the part; the part at offset 0 holds the executor
CmdCopy(m) ==
  /\ pc[m] = "copy"
  /\ LET st == mem[ptr[m]] IN
     mem' = [mem EXCEPT ![ptr[m]] =
       [st EXCEPT !.bytes = [b \in Bytes |->
                               IF b >= m.off /\ b < m.off + PartSize(m.op, m.off)
                               THEN m.op ELSE st.bytes[b]],
                  !.exec = st.exec \/ m.off = 0]]
  /\ pc' = [pc EXCEPT ![m] = "credit"]
  /\ UNCHANGED <<senderVars, body, ptr, opt, cb, holder, table, inbox, ran, replyVars>>

AfterCredit(m, after) ==
  CASE after # Total(m.op) -> "done"
    [] after = Total(m.op) /\ opt[m] -> "complete"
    [] OTHER -> "erase"

CmdCredit(m) ==
  /\ pc[m] = "credit"
  /\ LET after == mem[ptr[m]].credits + PartSize(m.op, m.off) IN
       /\ mem' = [mem EXCEPT ![ptr[m]].credits = after]
       /\ pc' = [pc EXCEPT ![m] = AfterCredit(m, after)]
  /\ UNCHANGED <<senderVars, body, ptr, opt, cb, holder, table, inbox, ran, replyVars>>

CmdErase(m) ==
  /\ pc[m] = "erase" /\ holder = Nil
  /\ table' = [table EXCEPT ![Key(m.op)] = Nil]
  /\ pc' = [pc EXCEPT ![m] = "complete"]
  /\ UNCHANGED <<senderVars, body, ptr, opt, cb, holder, mem, inbox, ran, replyVars>>

\* the reply_cb is read out of the state before the state is given away
CmdComplete(m) ==
  /\ pc[m] = "complete"
  /\ cb' = [cb EXCEPT ![m] = mem[ptr[m]].reply]
  /\ pc' = [pc EXCEPT ![m] = "enqueue"]
  /\ UNCHANGED <<senderVars, body, ptr, opt, holder, targetVars, replyVars>>

\* tls.enqueue(backend::master, level, st)
Enqueue(m) ==
  /\ pc[m] = "enqueue"
  /\ inbox' = [inbox EXCEPT ![ptr[m]] = @ + 1]
  /\ pc' = [pc EXCEPT ![m] = "reply"]
  /\ UNCHANGED <<senderVars, body, ptr, opt, cb, holder, table, mem, ran, replyVars>>

\* gex_AM_ReplyShort2, unless the reply_cb is null
Reply(m) ==
  /\ pc[m] = "reply"
  /\ pc' = [pc EXCEPT ![m] = "done"]
  /\ replies' = IF cb[m] = Nil THEN replies ELSE [replies EXCEPT ![cb[m]] = @ + 1]
  /\ UNCHANGED <<senderVars, body, ptr, opt, cb, holder, targetVars, fired>>

-----------------------------------------------------------------------------
\* The master persona runs a command (the executor found in its first part)
\* and frees the block that holds command and state.
CommandAt(a) == mem[a].bytes[0]

ExecuteAndDelete(a) ==
  /\ inbox[a] > 0
  /\ inbox' = [inbox EXCEPT ![a] = @ - 1]
  /\ ran' = IF CommandAt(a) = Nil THEN ran ELSE [ran EXCEPT ![CommandAt(a)] = @ + 1]
  /\ mem' = [mem EXCEPT ![a] = Free]
  /\ UNCHANGED <<senderVars, body, handlerVars, table, replyVars>>

\* am_reply_cb at the initiator: reply_cb::fire
AmReplyCb(o) ==
  /\ replies[o] > 0
  /\ replies' = [replies EXCEPT ![o] = @ - 1]
  /\ fired' = [fired EXCEPT ![o] = @ + 1]
  /\ UNCHANGED <<senderVars, body, handlerVars, targetVars>>

Sender(o) == \/ PutPrefix(o) \/ SkipPrefix(o) \/ SendPacked(o)
             \/ SendPayload(o) \/ SendCmdPart(o)

Handler(m) == \/ PackedCmd(m) \/ PayloadLock(m) \/ PayloadCredit(m)
              \/ CmdLock(m) \/ CmdCopy(m) \/ CmdCredit(m) \/ CmdErase(m)
              \/ CmdComplete(m) \/ Enqueue(m) \/ Reply(m)

Quiet ==
  /\ \A o \in Ops : caller[o] \in {"idle", "src_now", "src_cb"} /\ replies[o] = 0
  /\ \A m \in Msgs : pc[m] \in {"unsent", "done"}
  /\ \A a \in Addrs : inbox[a] = 0

\* Every message has been handled, every command has run, no put is to come.
Stop == Quiet /\ (\A o \in Ops : ~MayBegin(o)) /\ UNCHANGED vars

Next == \/ \E o \in Ops : Sender(o) \/ AmReplyCb(o)
        \/ \E m \in Msgs : Handler(m)
        \/ \E a \in Addrs : ExecuteAndDelete(a)
        \/ Stop

Spec == Init /\ [][Next]_vars

\* Every rank keeps polling (so GASNet delivers each message and the handlers
\* run to their end), and the calling threads and the master persona run.
FairSpec ==
  /\ Spec
  /\ \A o \in Ops : WF_vars(Sender(o)) /\ WF_vars(AmReplyCb(o))
  /\ \A m \in Msgs : WF_vars(Handler(m))
  /\ \A a \in Addrs : WF_vars(ExecuteAndDelete(a))

-----------------------------------------------------------------------------
(* Properties.                                                             *)

States == [live : BOOLEAN, credits : Nat, reply : Ops \cup {Nil}, exec : BOOLEAN,
           bytes : [Bytes -> Ops \cup {Nil}]]

\* Every variable has its type.
TypeOK ==
  /\ caller \in [Ops -> {"idle", "request", "parts", "src_now", "src_cb"}]
  /\ bumper \in [Ranks -> 0 .. NonceMod - 1]
  /\ nonce \in [Ops -> (0 .. NonceMod - 1) \cup {Nil}]
  /\ prefix \subseteq Ops /\ body \subseteq Ops
  /\ pc \in [Msgs -> {"unsent", "flight", "locked", "copy", "credit", "erase",
                      "complete", "enqueue", "reply", "done"}]
  /\ ptr \in [Msgs -> Addrs \cup {Nil}]
  /\ opt \in [Msgs -> BOOLEAN]
  /\ cb \in [Msgs -> Ops \cup {Nil}]
  /\ holder \in Msgs \cup {Nil}
  /\ table \in [Keys -> Addrs \cup {Nil}]
  /\ mem \in [Addrs -> States]
  /\ inbox \in [Addrs -> Nat]
  /\ ran \in [Ops -> Nat] /\ replies \in [Ops -> Nat] /\ fired \in [Ops -> Nat]

Landed(o) == (o \in Long => o \in prefix) /\ o \in body

\* What the master persona finds in its queue is a whole command: every byte
\* copied and from one put, its executor set, its payload landed, queued once.
CommandsWhole ==
  \A a \in Addrs : inbox[a] > 0 =>
    /\ inbox[a] = 1 /\ mem[a].live /\ mem[a].exec
    /\ \E o \in Ops :
         /\ Landed(o)
         /\ \A b \in Bytes : mem[a].bytes[b] = IF b < CmdSize[o] THEN o ELSE Nil

Using(m) == pc[m] \in {"locked", "copy", "credit", "erase", "complete", "enqueue"}

\* A handler that still uses its st finds there the live state of its own
\* command, not yet handed to the master persona (which would free it under
\* the handler), whatever the other handlers of the command have done.
HandlersSafe ==
  \A m \in Msgs : Using(m) =>
    /\ mem[ptr[m]].live
    /\ inbox[ptr[m]] = 0
    /\ m.kind # "packed" => mem[ptr[m]].credits <= Total(m.op)
    /\ \A b \in Bytes : mem[ptr[m]].bytes[b] \in {m.op, Nil}
    /\ \A n \in Msgs : Using(n) /\ ptr[n] = ptr[m] => n.op = m.op

\* The table never leads a later command to an old state: an entry belongs to
\* a command some message of which is still to be counted, and points to its
\* live state; when no put is under way the table is empty and no state leaked.
TableExact ==
  /\ \A k \in Keys : table[k] # Nil =>
       /\ mem[table[k]].live
       /\ inbox[table[k]] = 0
       /\ \E m \in Msgs : nonce[m.op] # Nil /\ Key(m.op) = k /\ pc[m] # "done"
  /\ \A j, k \in Keys : table[j] = table[k] /\ table[j] # Nil => j = k
  /\ Quiet => table = [k \in Keys |-> Nil] /\ mem = [a \in Addrs |-> Free]

\* The reassembly of commands: whatever order their messages arrive in and
\* their handlers interleave, what is run is whole, no handler works on a state
\* that is freed or another's, and the table leads to no stale state.
ReassemblyExact == TypeOK /\ CommandsWhole /\ HandlersSafe /\ TableExact

\* Seen from outside, this is a put with remote completion: the rpc is handed
\* over after the bytes have landed and runs once, the reply fires once, for
\* the put that asked for it and not before its command was handed over.
Promise ==
  INSTANCE RemoteCompletion WITH
    landed <- {o \in Ops : Landed(o)},
    handed <- {o \in Ops : ran[o] > 0 \/ \E a \in Addrs : inbox[a] > 0 /\ CommandAt(a) = o},
    run <- ran,
    told <- fired

KeepsPromise == Promise!Spec

\* Every put that was begun gets its command run and its reply fired.
PutsComplete ==
  \A o \in Ops : caller[o] # "idle" ~>
                   /\ ran[o] = 1
                   /\ fired[o] = IF o \in Replying THEN 1 ELSE 0

-----------------------------------------------------------------------------
(* The inductive invariant behind ReassemblyExact and KeepsPromise.        *)

\* The bytes of the command a message carries, and what its handler counts:
\* each byte is one credit, the payload another.
PartBytes(m) ==
  CASE m.kind = "cmd"     -> m.off .. m.off + PartSize(m.op, m.off) - 1
    [] m.kind = "packed"  -> 0 .. CmdSize[m.op] - 1
    [] m.kind = "payload" -> {}
Units(m) == IF m.kind = "payload" THEN {CmdSize[m.op]} ELSE PartBytes(m)
Credits(C) == Cardinality(UNION {Units(m) : m \in C})

Looked(m)  == pc[m] \notin {"unsent", "flight"}
Copied(m)  == pc[m] \notin {"unsent", "flight", "locked", "copy"}
Counted(m) == pc[m] \notin {"unsent", "flight", "locked", "copy", "credit"}
Over(o) == \A m \in MsgsOf(o) : pc[m] = "done"
Handed(o) == \A m \in MsgsOf(o) : pc[m] \in {"reply", "done"}

\* The calling thread: nothing is sent before the prefix is put and a nonce
\* drawn, everything has been sent when it is through.
SenderOK ==
  \A o \in Ops :
    /\ caller[o] # "idle" /\ o \in Long => o \in prefix
    /\ caller[o] = "parts" => o \notin Packed
    /\ nonce[o] # Nil <=> o \notin Packed /\ caller[o] \notin {"idle", "request"}
    /\ \A m \in MsgsOf(o) :
         /\ caller[o] \in {"idle", "request"} => pc[m] = "unsent"
         /\ caller[o] = "parts" => m.kind = "cmd" \/ pc[m] # "unsent"
         /\ caller[o] \in {"src_now", "src_cb"} => pc[m] # "unsent"

\* Two puts of a rank with one nonce are never under way together.
NoncesOK ==
  \A o, p \in Ops : o # p /\ SrcRank[o] = SrcRank[p] /\ nonce[o] = nonce[p] /\ nonce[o] # Nil
                      => Over(o) \/ Over(p)

\* Where a handler is: what kinds of message get there, who holds the lock,
\* what it knows of the other handlers of its command.
HandlersOK ==
  /\ holder # Nil => pc[holder] = "locked"
  /\ \A m \in Msgs :
       /\ pc[m] = "locked" => holder = m /\ m.kind = "payload"
       /\ pc[m] \in {"copy", "credit", "erase", "complete"} => m.kind = "cmd"
       /\ ptr[m] = Nil <=> pc[m] \in {"unsent", "flight"}
       /\ m.kind # "cmd" => (m.op \in body <=> Looked(m))
       /\ pc[m] \in {"locked", "enqueue", "reply"} => cb[m] = Answer(m.op)
       /\ \A n \in MsgsOf(m.op) :
            /\ Looked(m) /\ Looked(n) => ptr[m] = ptr[n]
            /\ \/ pc[m] \in {"erase", "complete", "enqueue", "reply"}
               \/ pc[m] \in {"copy", "credit"} /\ opt[m]
               => n = m \/ pc[n] = "done"

\* A command's state is at a from the first message found to its execution.
Holds(o, a) == ran[o] = 0 /\ \E m \in MsgsOf(o) : Looked(m) /\ ptr[m] = a

\* What the state of a command holds, by how far its messages have come.
StateOf(o, st) ==
  /\ st.live
  /\ o \notin Packed => st.credits = Credits({m \in MsgsOf(o) : Counted(m)})
  /\ o \notin Packed =>
       st.reply = IF \E m \in MsgsOf(o) : m.kind = "payload" /\ Looked(m) THEN Answer(o) ELSE Nil
  /\ st.exec <=> \E m \in MsgsOf(o) : Copied(m) /\ 0 \in PartBytes(m)
  /\ \A b \in Bytes : st.bytes[b] =
       IF \E m \in MsgsOf(o) : Copied(m) /\ b \in PartBytes(m) THEN o ELSE Nil

\* Every address is the state of one command, or free.
StatesOK ==
  /\ \A a \in Addrs :
       /\ \A o, p \in Ops : Holds(o, a) /\ Holds(p, a) => o = p
       /\ \A o \in Ops : Holds(o, a) => /\ StateOf(o, mem[a])
                                        /\ inbox[a] = IF Handed(o) THEN 1 ELSE 0
       /\ (\A o \in Ops : ~Holds(o, a)) => mem[a] = Free /\ inbox[a] = 0
  /\ \A o \in Ops : ran[o] \in {0, 1} /\ (ran[o] = 1 => Handed(o))

\* A command has an entry from the first message found until the last one is,
\* at least: the message that will erase it has not done so.
Pending(m) == \/ pc[m] \in {"unsent", "flight", "locked", "erase"}
              \/ pc[m] \in {"copy", "credit"} /\ ~opt[m]
Entered(o) == /\ o \notin Packed
              /\ \E m \in MsgsOf(o) : Looked(m)
              /\ \E m \in MsgsOf(o) : Pending(m)

TableOK ==
  /\ \A k \in Keys : table[k] # Nil =>
       \E o \in Ops : nonce[o] # Nil /\ Key(o) = k /\ Entered(o)
  /\ \A o \in Ops : Entered(o) => \A m \in MsgsOf(o) : Looked(m) => table[Key(o)] = ptr[m]

\* A put that asks for a reply gets one when the last of its handlers is done.
RepliesOK ==
  \A o \in Ops : replies[o] + fired[o] = IF o \in Replying /\ Over(o) THEN 1 ELSE 0

PutInv == /\ TypeOK /\ SenderOK /\ NoncesOK /\ HandlersOK
          /\ StatesOK /\ TableOK /\ RepliesOK

-----------------------------------------------------------------------------
(* The instance that is model-checked: puts 1, 2 and 4 come from rank 0,   *)
(* put 3 from rank 1.  Put 1's command takes two parts, the second one     *)
(* shorter; those of 2 and 3 fit in one; put 4 is packed.                  *)
SrcRankOf == [o \in 1 .. 4 |-> IF o = 3 THEN 1 ELSE 0]
CmdSizeOf == [o \in 1 .. 4 |-> IF o = 1 THEN 3 ELSE 1]
===============================================================================
