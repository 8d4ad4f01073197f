------------------------ MODULE InstructionBusProofs ------------------------
(***************************************************************************)
(* Theorems about InstructionBus: with a memory that holds no more         *)
(* commands than cmdFifo has room for, every word the stage is given is    *)
(* the one it asked for, and a restart leaves nothing of the old stream    *)
(* behind, for every latency, queue size and address space.                *)
(***************************************************************************)
EXTENDS InstructionBus, SequenceTheorems, TLAPS

-----------------------------------------------------------------------------
(* The inductive invariant.                                                *)

(* What the memory works on is what cmdFifo says, and every response kept in
   rspFifo carries its own address. *)
Labelled ==
    /\ inflight = cmdFifo
    /\ \A i \in 1 .. Len(rspFifo) : rspFifo[i].ir = rspFifo[i].address

(* The commands of q behind the n to be ignored are consecutive, and command
   cmd is the last one of them or, while it waits, the next. *)
StreamOf(q, n, cmd) ==
    /\ n <= Len(q)
    /\ \A i \in n + 1 .. Len(q) - 1 : q[i + 1] = nextAddress(q[i])
    /\ n < Len(q) =>
          cmd.address = IF cmd.valid /\ ~ cmd.accepted THEN nextAddress(q[Len(q)]) ELSE q[Len(q)]

BInv == TypeOK /\ Labelled /\ StreamOf(cmdFifo, restartCmdsToFlush, currentCmd)

(* The register currentCmd. *)
Cmd == [valid : BOOLEAN, accepted : BOOLEAN, address : Address]

-----------------------------------------------------------------------------
(* Numbers and streams.                                                    *)

(* The sizes. *)
LEMMA BusFacts ==
    /\ Words \in Nat /\ Words > 0 /\ 0 \in Address /\ Address \subseteq Nat
    /\ depth \in Nat /\ depth >= 2 /\ depth <= 15
    /\ irQueueSize \in Nat /\ MaxInFlight \in Nat
  BY BusAssumption DEF depth, Address

(* The address that follows is an address. *)
LEMMA NextAddressType == \A a \in Address : nextAddress(a) \in Address
<1> SUFFICES ASSUME NEW a \in Address PROVE nextAddress(a) \in Address
  OBVIOUS
<1>1. Words \in Nat /\ Words > 0 /\ a + 1 \in Nat
  BY BusFacts
<1>2. (a + 1) % Words \in 0 .. Words - 1
  BY <1>1
<1> QED
  BY <1>2 DEF nextAddress, Address

(* The register that counts the commands to ignore is wide enough for depth
   of them. *)
LEMMA FlushFits == \A n \in 0 .. depth : n % FlushValues = n
<1>1. \E v \in {2, 4, 8, 16} : v > depth /\ v <= 2 * depth
  <2>1. depth \in 2 .. 3 \/ depth \in 4 .. 7 \/ depth \in 8 .. 15
    BY BusFacts
  <2>2. CASE depth \in 2 .. 3
    BY <2>2
  <2>3. CASE depth \in 4 .. 7
    BY <2>3
  <2>4. CASE depth \in 8 .. 15
    BY <2>4
  <2> QED
    BY <2>1, <2>2, <2>3, <2>4
<1>2. FlushValues \in {2, 4, 8, 16} /\ FlushValues > depth
  BY <1>1 DEF FlushValues
<1> SUFFICES ASSUME NEW n \in 0 .. depth PROVE n % FlushValues = n
  OBVIOUS
<1>3. n \in Nat /\ n < FlushValues /\ FlushValues \in Nat /\ FlushValues > 0
  BY <1>2, BusFacts
<1> QED
  BY <1>3

(* The memory answers the oldest command. *)
LEMMA PopStream ==
    ASSUME NEW q \in Seq(Address), q # <<>>, NEW n \in Nat, NEW cmd, StreamOf(q, n, cmd)
    PROVE  StreamOf(Tail(q), IF n = 0 THEN 0 ELSE n - 1, cmd)
<1> DEFINE t == Tail(q)
           m == IF n = 0 THEN 0 ELSE n - 1
<1>1. /\ Len(q) \in Nat /\ Len(q) > 0 /\ Len(t) = Len(q) - 1
      /\ \A i \in 1 .. Len(t) : t[i] = q[i + 1]
  BY HeadTailProperties, LenProperties, EmptySeq
<1>2. /\ n <= Len(q) /\ \A i \in n + 1 .. Len(q) - 1 : q[i + 1] = nextAddress(q[i])
      /\ n < Len(q) =>
          cmd.address = IF cmd.valid /\ ~ cmd.accepted THEN nextAddress(q[Len(q)]) ELSE q[Len(q)]
  BY DEF StreamOf
<1> HIDE DEF t
<1>3. m \in Nat /\ m <= Len(t) /\ n <= m + 1
  BY <1>1, <1>2
<1>4. ASSUME NEW i \in m + 1 .. Len(t) - 1 PROVE t[i + 1] = nextAddress(t[i])
  <2>1. /\ i \in 1 .. Len(t) /\ i + 1 \in 1 .. Len(t)
        /\ i + 1 \in n + 1 .. Len(q) - 1
    BY <1>1, <1>3
  <2> QED
    BY <2>1, <1>1, <1>2
<1>5. ASSUME m < Len(t)
      PROVE  cmd.address = IF cmd.valid /\ ~ cmd.accepted THEN nextAddress(t[Len(t)]) ELSE t[Len(t)]
  <2>1. n < Len(q) /\ Len(t) \in 1 .. Len(t) /\ Len(t) + 1 = Len(q)
    BY <1>1, <1>3, <1>5
  <2> QED
    BY <2>1, <1>1, <1>2
<1> QED
  BY <1>3, <1>4, <1>5 DEF StreamOf, t

(* The memory takes a command that continues the stream; either it was the
   one that waits and the next one waits now, or nothing waits. *)
LEMMA TakeStream ==
    ASSUME NEW q \in Seq(Address), NEW n \in Nat, NEW cmd, StreamOf(q, n, cmd),
           NEW a \in Address, NEW new,
           n < Len(q) => a = nextAddress(q[Len(q)]),
           new.address = IF new.valid /\ ~ new.accepted THEN nextAddress(a) ELSE a
    PROVE  StreamOf(Append(q, a), n, new)
<1> DEFINE s == Append(q, a)
<1>1. /\ Len(q) \in Nat /\ Len(s) = Len(q) + 1
      /\ \A i \in 1 .. Len(q) : s[i] = q[i]
      /\ s[Len(q) + 1] = a
  BY AppendProperties, LenProperties
<1>2. n <= Len(q) /\ \A i \in n + 1 .. Len(q) - 1 : q[i + 1] = nextAddress(q[i])
  BY DEF StreamOf
<1> HIDE DEF s
<1>3. ASSUME NEW i \in n + 1 .. Len(s) - 1 PROVE s[i + 1] = nextAddress(s[i])
  <2>1. CASE i = Len(q)
    BY <1>1, <1>2, <2>1
  <2>2. CASE i # Len(q)
    <3>1. i \in n + 1 .. Len(q) - 1 /\ i \in 1 .. Len(q) /\ i + 1 \in 1 .. Len(q)
      BY <1>1, <2>2
    <3> QED
      BY <3>1, <1>1, <1>2
  <2> QED
    BY <2>1, <2>2
<1>4. n <= Len(s)
  BY <1>1, <1>2
<1>5. new.address = IF new.valid /\ ~ new.accepted THEN nextAddress(s[Len(s)]) ELSE s[Len(s)]
  BY <1>1
<1> QED
  BY <1>3, <1>4, <1>5 DEF StreamOf, s

(* A stream of one command, and one of none, after n that are ignored. *)
LEMMA FreshStream ==
    ASSUME NEW q \in Seq(Address), NEW cmd
    PROVE  /\ StreamOf(q, Len(q), cmd)
           /\ \A a \in Address : cmd.address = a /\ ~ (cmd.valid /\ ~ cmd.accepted)
                 => StreamOf(Append(q, a), Len(q), cmd)
<1>1. Len(q) \in Nat
  BY LenProperties
<1>2. StreamOf(q, Len(q), cmd)
  BY <1>1 DEF StreamOf
<1>3. ASSUME NEW a \in Address, cmd.address = a, ~ (cmd.valid /\ ~ cmd.accepted)
      PROVE  StreamOf(Append(q, a), Len(q), cmd)
  BY <1>1, <1>2, <1>3, TakeStream
<1> QED
  BY <1>2, <1>3
-----------------------------------------------------------------------------
(* One cycle.                                                              *)

(* What the memory and the stage may do in a cycle. *)
Lines(restart, popping, rspValid, cmdReady, label) ==
    /\ restart \in Address \cup {None} /\ popping \in BOOLEAN
    /\ rspValid \in BOOLEAN /\ cmdReady \in BOOLEAN
    /\ rspValid => MayAnswer
    /\ cmdReady => MayTake
    /\ label \in Labels(rspValid)
    /\ restart # None => restartCmdsToFlush = 0

(* The response on the bus carries its own address. *)
LEMMA BusRspLabelled ==
    ASSUME TypeOK, Labelled, MayAnswer, NEW label \in Labels(TRUE)
    PROVE  BusRsp(label) \in Rsp /\ BusRsp(label).ir = BusRsp(label).address
<1>1. cmdFifo # <<>> /\ cmdFifo \in Seq(Address) /\ inflight = cmdFifo
  BY DEF TypeOK, Labelled, MayAnswer
<1>2. Head(cmdFifo) \in Address /\ label = Head(cmdFifo)
  BY <1>1, HeadTailProperties DEF Labels
<1> QED
  BY <1>1, <1>2 DEF BusRsp, Rsp

(* cmdFifo: what the memory takes is pushed, what it answers popped. *)
LEMMA CmdFifoStep ==
    ASSUME BInv, MaxInFlight <= depth,
           NEW restart, NEW popping, NEW rspValid, NEW cmdReady, NEW label,
           Lines(restart, popping, rspValid, cmdReady, label),
           Bus(restart, popping, rspValid, cmdReady, label)
    PROVE  LET cmds == IF rspValid THEN Tail(cmdFifo) ELSE cmdFifo
               next == IF restart # None THEN restart ELSE nextAddress(currentCmd.address)
               taken == (restart # None \/ currentCmd.valid) /\ cmdReady
               sent == IF pending THEN currentCmd.address ELSE next
           IN  /\ cmds \in Seq(Address) /\ Len(cmds) <= depth
               /\ Len(cmds) = Len(cmdFifo) - (IF rspValid THEN 1 ELSE 0)
               /\ cmdReady => Len(cmdFifo) < depth /\ Len(cmds) < MaxInFlight
               /\ next \in Address /\ sent \in Address
               /\ taken => cmdFifo' = Append(cmds, sent)
               /\ ~ taken => cmdFifo' = cmds
               /\ inflight' = cmdFifo'
<1> DEFINE cmds == IF rspValid THEN Tail(cmdFifo) ELSE cmdFifo
           next == IF restart # None THEN restart ELSE nextAddress(currentCmd.address)
           taken == (restart # None \/ currentCmd.valid) /\ cmdReady
           sent == IF pending THEN currentCmd.address ELSE next
<1>1. /\ cmdFifo \in Seq(Address) /\ Len(cmdFifo) <= depth /\ inflight = cmdFifo
      /\ currentCmd.address \in Address /\ Len(inflight) <= MaxInFlight
  BY DEF BInv, TypeOK, Labelled
<1>2. next \in Address /\ sent \in Address
  BY <1>1, NextAddressType DEF Lines
<1>3. rspValid => cmdFifo # <<>>
  BY <1>1 DEF Lines, MayAnswer
<1>4. Len(cmdFifo) \in Nat /\ (cmdFifo # <<>> => /\ Tail(cmdFifo) \in Seq(Address)
                                                 /\ Len(Tail(cmdFifo)) = Len(cmdFifo) - 1)
  BY <1>1, HeadTailProperties, LenProperties
<1>5. cmds \in Seq(Address) /\ Len(cmds) = Len(cmdFifo) - (IF rspValid THEN 1 ELSE 0)
  BY <1>1, <1>3, <1>4
<1>6. cmdReady => Len(cmdFifo) < MaxInFlight
  BY <1>1 DEF Lines, MayTake
<1>7. depth \in Nat /\ MaxInFlight \in Nat
  BY BusFacts
<1>8. Len(cmds) <= depth /\ (cmdReady => Len(cmdFifo) < depth /\ Len(cmds) < MaxInFlight)
  BY <1>1, <1>4, <1>5, <1>6, <1>7
<1>9. /\ cmdFifo' = IF taken /\ Len(cmdFifo) < depth
                    THEN Append(IF rspValid THEN Popped(cmdFifo) ELSE cmdFifo, sent)
                    ELSE IF rspValid THEN Popped(cmdFifo) ELSE cmdFifo
      /\ inflight' = IF taken THEN Append(IF rspValid THEN Tail(inflight) ELSE inflight, sent)
                     ELSE IF rspValid THEN Tail(inflight) ELSE inflight
  BY DEF Bus
<1>10. (IF rspValid THEN Popped(cmdFifo) ELSE cmdFifo) = cmds
  BY <1>3 DEF Popped
<1> QED
  BY <1>1, <1>2, <1>5, <1>8, <1>9, <1>10

(* The stream goes on, or a new one begins behind what is to be ignored. *)
LEMMA StreamStep ==
    ASSUME BInv, MaxInFlight <= depth,
           NEW restart, NEW popping, NEW rspValid, NEW cmdReady, NEW label,
           Lines(restart, popping, rspValid, cmdReady, label),
           Bus(restart, popping, rspValid, cmdReady, label)
    PROVE  /\ currentCmd' \in Cmd /\ restartCmdsToFlush' \in 0 .. depth
           /\ cmdFifo' \in Seq(Address) /\ Len(cmdFifo') <= MaxInFlight
           /\ StreamOf(cmdFifo', restartCmdsToFlush', currentCmd')
<1> DEFINE cmds == IF rspValid THEN Tail(cmdFifo) ELSE cmdFifo
           next == IF restart # None THEN restart ELSE nextAddress(currentCmd.address)
           valid == restart # None \/ currentCmd.valid
           sent == IF pending THEN currentCmd.address ELSE next
           n == restartCmdsToFlush
           left == IF rspValid /\ n # 0 THEN n - 1 ELSE n
<1>1. /\ cmdFifo \in Seq(Address) /\ currentCmd \in Cmd /\ n \in 0 .. depth /\ n \in Nat
      /\ Len(inflight) <= MaxInFlight /\ inflight = cmdFifo
      /\ StreamOf(cmdFifo, n, currentCmd)
  BY BusFacts DEF BInv, TypeOK, Labelled, Cmd
<1>2. /\ cmds \in Seq(Address) /\ Len(cmds) <= depth
      /\ Len(cmds) = Len(cmdFifo) - (IF rspValid THEN 1 ELSE 0)
      /\ cmdReady => Len(cmdFifo) < depth /\ Len(cmds) < MaxInFlight
      /\ next \in Address /\ sent \in Address
      /\ valid /\ cmdReady => cmdFifo' = Append(cmds, sent)
      /\ ~ (valid /\ cmdReady) => cmdFifo' = cmds
  BY CmdFifoStep
<1>3. Len(cmds) \in Nat /\ Len(cmdFifo) \in Nat /\ depth \in Nat /\ MaxInFlight \in Nat
  BY <1>1, <1>2, LenProperties, BusFacts
<1>4. rspValid \in BOOLEAN /\ cmdReady \in BOOLEAN /\ (rspValid => cmdFifo # <<>>)
      /\ (restart # None => n = 0)
  BY <1>1 DEF Lines, MayAnswer
<1>5. left \in Nat /\ left \in 0 .. depth /\ StreamOf(cmds, left, currentCmd)
  <2>1. CASE rspValid
    BY <1>1, <1>4, <2>1, PopStream, BusFacts
  <2>2. CASE ~ rspValid
    BY <1>1, <2>2
  <2> QED
    BY <2>1, <2>2
<1>6. /\ currentCmd' = IF valid /\ (~ pending \/ cmdReady)
                       THEN [valid |-> TRUE, accepted |-> ~ pending /\ cmdReady, address |-> next]
                       ELSE currentCmd
      /\ restartCmdsToFlush' =
             IF n # 0 THEN n - (IF rspValid THEN 1 ELSE 0)
             ELSE IF restart # None /\ (~ pending \/ cmdReady) THEN CmdsToFlush(rspValid)
             ELSE 0
  BY DEF Bus, restarting
<1> HIDE DEF cmds, sent
<1>7. Len(cmdFifo') <= MaxInFlight /\ cmdFifo' \in Seq(Address)
  <2>1. CASE valid /\ cmdReady
    <3>1. cmdFifo' = Append(cmds, sent) /\ Len(cmds) < MaxInFlight
      BY <1>2, <2>1
    <3> QED
      BY <3>1, <1>2, <1>3, AppendProperties
  <2>2. CASE ~ (valid /\ cmdReady)
    BY <2>2, <1>1, <1>2, <1>3
  <2> QED
    BY <2>1, <2>2
<1>8. currentCmd' \in Cmd
  BY <1>1, <1>2, <1>6 DEF Cmd, pending
<1> HIDE DEF next, left
<1>9. CASE restart # None /\ (~ pending \/ cmdReady)
  <2>1. /\ currentCmd' = [valid |-> TRUE, accepted |-> ~ pending /\ cmdReady, address |-> next]
        /\ restartCmdsToFlush' = CmdsToFlush(rspValid) /\ valid
    BY <1>4, <1>6, <1>9
  <2>2. restartCmdsToFlush' = Len(cmds) + (IF pending THEN 1 ELSE 0)
        /\ restartCmdsToFlush' \in 0 .. depth
    <3>1. Len(cmds) + (IF pending THEN 1 ELSE 0) \in 0 .. depth
      BY <1>2, <1>3, <1>4, <1>9
    <3>2. CmdsToFlush(rspValid) = (Len(cmds) + (IF pending THEN 1 ELSE 0)) % FlushValues
      BY <1>2 DEF CmdsToFlush
    <3> QED
      BY <2>1, <3>1, <3>2, FlushFits
  <2>3. CASE pending
    <3>1. cmdFifo' = Append(cmds, sent) /\ restartCmdsToFlush' = Len(cmdFifo')
      BY <1>2, <1>9, <2>1, <2>2, <2>3, AppendProperties
    <3> QED
      BY <3>1, <1>7, <1>8, <2>2, FreshStream
  <2>4. CASE ~ pending /\ cmdReady
    <3>1. cmdFifo' = Append(cmds, next) /\ restartCmdsToFlush' = Len(cmds)
      BY <1>2, <1>3, <2>1, <2>2, <2>4 DEF sent
    <3>2. currentCmd'.address = next /\ currentCmd'.accepted = TRUE
      BY <2>1, <2>4
    <3> QED
      BY <3>1, <3>2, <1>2, <1>7, <1>8, <2>2, FreshStream
  <2>5. CASE ~ pending /\ ~ cmdReady
    <3>1. cmdFifo' = cmds /\ restartCmdsToFlush' = Len(cmds)
      BY <1>2, <1>3, <2>2, <2>5
    <3> QED
      BY <3>1, <1>2, <1>7, <1>8, <2>2, FreshStream
  <2> QED
    BY <2>3, <2>4, <2>5
<1>10. CASE ~ (restart # None /\ (~ pending \/ cmdReady))
  <2>1. restartCmdsToFlush' = left
    BY <1>1, <1>6, <1>10 DEF left
  <2>2. CASE pending /\ cmdReady
    <3>1. restart = None /\ currentCmd.valid /\ ~ currentCmd.accepted
      BY <1>10, <2>2 DEF pending
    <3>2. next = nextAddress(currentCmd.address) /\ sent = currentCmd.address
      BY <2>2, <3>1 DEF next, sent
    <3>3. cmdFifo' = Append(cmds, sent)
      BY <1>2, <2>2, <3>1
    <3>4. currentCmd' = [valid |-> TRUE, accepted |-> FALSE, address |-> next]
      BY <1>6, <2>2, <3>1
    <3>5. currentCmd'.address = nextAddress(sent) /\ currentCmd'.valid = TRUE
          /\ currentCmd'.accepted = FALSE
      BY <3>2, <3>4
    <3>6. left < Len(cmds) => sent = nextAddress(cmds[Len(cmds)])
      BY <1>5, <3>1, <3>2 DEF StreamOf
    <3>7. StreamOf(Append(cmds, sent), left, currentCmd')
      BY <1>2, <1>5, <3>5, <3>6, TakeStream
    <3> QED
      BY <1>5, <1>7, <1>8, <2>1, <3>3, <3>7
  <2>3. CASE pending /\ ~ cmdReady
    <3>1. currentCmd' = currentCmd /\ cmdFifo' = cmds
      BY <1>2, <1>6, <2>3
    <3> QED
      BY <3>1, <1>5, <1>7, <1>8, <2>1
  <2>4. CASE ~ pending /\ currentCmd.valid
    <3>1. restart = None /\ currentCmd.accepted
      BY <1>10, <2>4 DEF pending
    <3>2. next = nextAddress(currentCmd.address) /\ sent = next
      BY <2>4, <3>1 DEF next, sent
    <3>3. left < Len(cmds) => next = nextAddress(cmds[Len(cmds)])
      BY <1>5, <3>1, <3>2 DEF StreamOf
    <3>4. currentCmd' = [valid |-> TRUE, accepted |-> cmdReady, address |-> next]
      BY <1>4, <1>6, <2>4
    <3>5. CASE cmdReady
      <4>1. currentCmd'.address = next /\ currentCmd'.accepted = TRUE
        BY <1>4, <3>4, <3>5
      <4>2. StreamOf(Append(cmds, next), left, currentCmd')
        BY <1>2, <1>5, <3>3, <4>1, TakeStream
      <4>3. cmdFifo' = Append(cmds, next)
        BY <1>2, <2>4, <3>2, <3>5
      <4> QED
        BY <1>5, <1>7, <1>8, <2>1, <4>2, <4>3
    <3>6. CASE ~ cmdReady
      <4>1. currentCmd'.address = next /\ currentCmd'.accepted = FALSE /\ currentCmd'.valid = TRUE
        BY <1>4, <3>4, <3>6
      <4>2. StreamOf(cmds, left, currentCmd')
        BY <1>5, <3>3, <4>1 DEF StreamOf
      <4>3. cmdFifo' = cmds
        BY <1>2, <3>6
      <4> QED
        BY <1>5, <1>7, <1>8, <2>1, <4>2, <4>3
    <3> QED
      BY <3>5, <3>6
  <2>5. CASE ~ pending /\ ~ currentCmd.valid
    <3>1. restart = None
      BY <1>10, <2>5
    <3>2. currentCmd' = currentCmd /\ cmdFifo' = cmds
      BY <1>2, <1>6, <2>5, <3>1
    <3> QED
      BY <3>2, <1>5, <1>7, <1>8, <2>1
  <2> QED
    BY <2>2, <2>3, <2>4, <2>5
<1> QED
  BY <1>9, <1>10

(* rspFifo: what is pushed carries its own address, what is popped leaves the
   rest. *)
LEMMA RspFifoStep ==
    ASSUME BInv,
           NEW restart, NEW popping, NEW rspValid, NEW cmdReady, NEW label,
           Lines(restart, popping, rspValid, cmdReady, label),
           Bus(restart, popping, rspValid, cmdReady, label)
    PROVE  /\ rspFifo' \in Seq(Rsp) /\ Len(rspFifo') <= irQueueSize
           /\ \A i \in 1 .. Len(rspFifo') : rspFifo'[i].ir = rspFifo'[i].address
<1> DEFINE Fine(q) == /\ q \in Seq(Rsp)
                      /\ \A i \in 1 .. Len(q) : q[i].ir = q[i].address
           rsps == IF popping THEN Popped(rspFifo) ELSE rspFifo
<1>1. Fine(rspFifo) /\ Len(rspFifo) \in Nat /\ Len(rspFifo) <= irQueueSize
  BY LenProperties DEF BInv, TypeOK, Labelled
<1>2. irQueueSize \in Nat
  BY BusFacts
<1>3. Fine(rsps) /\ Len(rsps) \in Nat /\ Len(rsps) <= Len(rspFifo)
  <2>1. CASE popping /\ rspFifo # <<>>
    <3>1. /\ rsps = Tail(rspFifo) /\ Tail(rspFifo) \in Seq(Rsp)
          /\ Len(Tail(rspFifo)) = Len(rspFifo) - 1 /\ Len(Tail(rspFifo)) \in Nat
          /\ \A i \in 1 .. Len(Tail(rspFifo)) : Tail(rspFifo)[i] = rspFifo[i + 1]
      BY <1>1, <2>1, HeadTailProperties, LenProperties DEF Popped
    <3> DEFINE t == Tail(rspFifo)
    <3>2. rsps = t /\ t \in Seq(Rsp) /\ Len(t) \in Nat /\ Len(t) = Len(rspFifo) - 1
      BY <3>1
    <3>3. \A i \in 1 .. Len(t) : t[i] = rspFifo[i + 1]
      BY <3>1
    <3> HIDE DEF t
    <3>4. \A i \in 1 .. Len(t) : i + 1 \in 1 .. Len(rspFifo)
      BY <1>1, <3>2
    <3>5. \A i \in 1 .. Len(t) : t[i].ir = t[i].address
      BY <1>1, <3>3, <3>4
    <3> QED
      BY <1>1, <3>2, <3>5
  <2>2. CASE ~ (popping /\ rspFifo # <<>>)
    BY <1>1, <2>2 DEF Popped
  <2> QED
    BY <2>1, <2>2
<1> HIDE DEF rsps
<1>4. ASSUME NEW r \in Rsp, r.ir = r.address
      PROVE  Fine(Append(rsps, r)) /\ Len(Append(rsps, r)) = Len(rsps) + 1
  <2>1. /\ Append(rsps, r) \in Seq(Rsp) /\ Len(Append(rsps, r)) = Len(rsps) + 1
        /\ \A i \in 1 .. Len(rsps) : Append(rsps, r)[i] = rsps[i]
        /\ Append(rsps, r)[Len(rsps) + 1] = r
    BY <1>3, AppendProperties
  <2>2. ASSUME NEW i \in 1 .. Len(rsps) + 1 PROVE i \in 1 .. Len(rsps) \/ i = Len(rsps) + 1
    BY <1>3
  <2> QED
    BY <1>3, <1>4, <2>1, <2>2
<1>5. rspFifo' = IF restart # None THEN <<>>
                 ELSE IF /\ rspValid /\ ~ (popping /\ rspFifo = <<>>)
                         /\ Len(rspFifo) < irQueueSize THEN Append(rsps, BusRsp(label))
                 ELSE rsps
  BY DEF Bus, rsps
<1>6. rspValid => BusRsp(label) \in Rsp /\ BusRsp(label).ir = BusRsp(label).address
  BY BusRspLabelled DEF BInv, Lines
<1>7. Fine(<<>>) /\ Len(<<>>) = 0
  BY EmptySeq
<1>8. Fine(rspFifo')
  BY <1>3, <1>4, <1>5, <1>6, <1>7
<1>9. Len(rspFifo') <= irQueueSize
  <2>1. CASE rspFifo' = <<>>
    BY <2>1, <1>2, <1>7
  <2>2. CASE rspFifo' = rsps
    BY <2>2, <1>1, <1>2, <1>3
  <2>3. CASE rspFifo' = Append(rsps, BusRsp(label)) /\ rspValid /\ Len(rspFifo) < irQueueSize
    <3>1. Len(rspFifo') = Len(rsps) + 1
      BY <2>3, <1>4, <1>6
    <3> QED
      BY <3>1, <2>3, <1>1, <1>2, <1>3
  <2> QED
    BY <1>5, <2>1, <2>2, <2>3
<1> QED
  BY <1>8, <1>9

(* The bus controller keeps the invariant. *)
LEMMA BusStep ==
    ASSUME BInv, MaxInFlight <= depth,
           NEW restart, NEW popping, NEW rspValid, NEW cmdReady, NEW label,
           Lines(restart, popping, rspValid, cmdReady, label),
           Bus(restart, popping, rspValid, cmdReady, label),
           pc' \in Address, fetched' \in Address \cup {None}, settled' \in BOOLEAN
    PROVE  BInv'
<1>1. /\ currentCmd' \in Cmd /\ restartCmdsToFlush' \in 0 .. depth
      /\ cmdFifo' \in Seq(Address) /\ Len(cmdFifo') <= MaxInFlight
      /\ StreamOf(cmdFifo', restartCmdsToFlush', currentCmd')
  BY StreamStep
<1>2. inflight' = cmdFifo'
  BY CmdFifoStep
<1>3. /\ rspFifo' \in Seq(Rsp) /\ Len(rspFifo') <= irQueueSize
      /\ \A i \in 1 .. Len(rspFifo') : rspFifo'[i].ir = rspFifo'[i].address
  BY RspFifoStep
<1>4. Len(cmdFifo') \in Nat /\ depth \in Nat /\ MaxInFlight \in Nat
  BY <1>1, LenProperties, BusFacts
<1>5. Len(cmdFifo') <= depth
  BY <1>1, <1>4
<1>6. TypeOK'
  BY <1>1, <1>2, <1>3, <1>5 DEF TypeOK, Cmd, Address, Rsp, depth
<1>7. Labelled'
  BY <1>2, <1>3 DEF Labelled
<1>8. StreamOf(cmdFifo, restartCmdsToFlush, currentCmd)'
  BY <1>1 DEF StreamOf, nextAddress
<1> QED
  BY <1>6, <1>7, <1>8 DEF BInv

(* The oldest response carries its own address. *)
LEMMA PopRspLabelled ==
    ASSUME BInv, NEW rspValid \in BOOLEAN, rspValid => MayAnswer,
           NEW label \in Labels(rspValid), NEW r \in popRsp(rspValid, label)
    PROVE  r \in Rsp /\ r.ir = r.address
<1>1. CASE r = BusRsp(label) /\ rspValid
  BY <1>1, BusRspLabelled DEF BInv
<1>2. CASE rspFifo # <<>> /\ r = Head(rspFifo)
  <2>1. /\ rspFifo \in Seq(Rsp) /\ Len(rspFifo) \in Nat \ {0}
        /\ \A i \in 1 .. Len(rspFifo) : rspFifo[i].ir = rspFifo[i].address
    BY <1>2, EmptySeq DEF BInv, TypeOK, Labelled
  <2>2. Head(rspFifo) = rspFifo[1] /\ 1 \in 1 .. Len(rspFifo) /\ Head(rspFifo) \in Rsp
    BY <1>2, <2>1, HeadTailProperties
  <2> QED
    BY <1>2, <2>1, <2>2
<1> QED
  BY <1>1, <1>2 DEF popRsp

(* A cycle in which the stage runs keeps the invariant and gives the stage
   the word it asked for, if any. *)
LEMMA ReadStep ==
    ASSUME BInv, MaxInFlight <= depth,
           NEW rspValid \in BOOLEAN, NEW cmdReady \in BOOLEAN, NEW label \in Labels(rspValid),
           rspValid => MayAnswer, cmdReady => MayTake,
           Read(rspValid, cmdReady, label), settled' \in BOOLEAN
    PROVE  /\ BInv'
           /\ fetched' # None => fetched' = pc /\ pc' = nextAddress(pc)
<1> DEFINE rsp == popRsp(rspValid, label)
           valid == \E r \in rsp : r.address = pc
           restartNeeded == ~ valid /\ (rsp # {} \/ cmdFifo = <<>> \/ Head(cmdFifo) # pc)
           restart == IF restartNeeded /\ ~ restarting THEN pc ELSE None
<1>1. /\ Bus(restart, TRUE, rspValid, cmdReady, label)
      /\ fetched' = IF valid THEN (CHOOSE r \in rsp : TRUE).ir ELSE None
      /\ pc' = IF valid THEN nextAddress(pc) ELSE pc
  BY DEF Read
<1>2. pc \in Address
  BY DEF BInv, TypeOK
<1>3. Lines(restart, TRUE, rspValid, cmdReady, label)
  BY <1>2 DEF Lines, restarting
<1>4. valid => fetched' = pc /\ pc' = nextAddress(pc)
  <2> SUFFICES ASSUME valid PROVE (CHOOSE r \in rsp : TRUE).ir = pc
    BY <1>1
  <2>1. PICK s \in rsp : s.address = pc
    OBVIOUS
  <2>2. \A r \in rsp : r = s
    BY DEF popRsp
  <2>3. (CHOOSE r \in rsp : TRUE) = s
    BY <2>2
  <2>4. s.ir = s.address
    BY PopRspLabelled
  <2> QED
    BY <2>1, <2>3, <2>4
<1>5. ~ valid => fetched' = None /\ pc' = pc
  BY <1>1
<1>6. pc' \in Address /\ fetched' \in Address \cup {None}
  BY <1>2, <1>4, <1>5, NextAddressType
<1> HIDE DEF restart, valid
<1>7. BInv'
  BY <1>1, <1>3, <1>6, BusStep
<1> QED
  BY <1>4, <1>5, <1>7

(* Every step keeps the invariant, and gives the stage nothing wrong. *)
LEMMA NextBInv ==
    ASSUME BInv, MaxInFlight <= depth, [Next]_vars
    PROVE  /\ BInv'
           /\ UNCHANGED vars \/ (fetched' # None => fetched' = pc /\ pc' = nextAddress(pc))
<1>1. CASE Unsettled
  <2>1. PICK rspValid \in {FALSE, MayAnswer}, cmdReady \in {FALSE, MayTake} :
          \E label \in Labels(rspValid) :
             Read(rspValid, cmdReady, label) \/ Idle(rspValid, cmdReady, label)
    BY <1>1 DEF Unsettled
  <2>2. PICK label \in Labels(rspValid) :
           Read(rspValid, cmdReady, label) \/ Idle(rspValid, cmdReady, label)
    BY <2>1
  <2>3. MayAnswer \in BOOLEAN /\ MayTake \in BOOLEAN
    BY DEF MayAnswer, MayTake
  <2>4. /\ rspValid \in BOOLEAN /\ cmdReady \in BOOLEAN
        /\ rspValid = FALSE \/ rspValid = MayAnswer
        /\ cmdReady = FALSE \/ cmdReady = MayTake
    BY <2>3
  <2>5. (rspValid => MayAnswer) /\ (cmdReady => MayTake)
    <3>1. CASE rspValid = FALSE /\ cmdReady = FALSE
      BY <3>1
    <3>2. CASE rspValid = FALSE /\ cmdReady = MayTake
      BY <3>2
    <3>3. CASE rspValid = MayAnswer /\ cmdReady = FALSE
      BY <3>3
    <3>4. CASE rspValid = MayAnswer /\ cmdReady = MayTake
      BY <3>4
    <3> QED
      BY <2>4, <3>1, <3>2, <3>3, <3>4
  <2>6. settled' \in BOOLEAN
    BY <1>1 DEF Unsettled
  <2>7. CASE Read(rspValid, cmdReady, label)
    BY <2>4, <2>5, <2>6, <2>7, ReadStep
  <2>8. CASE Idle(rspValid, cmdReady, label)
    <3>1. Bus(None, FALSE, rspValid, cmdReady, label) /\ fetched' = None
          /\ pc' \in {pc} \cup Targets
      BY <2>8 DEF Idle
    <3>2. pc' \in Address
      BY <3>1, BusAssumption DEF BInv, TypeOK
    <3>3. Lines(None, FALSE, rspValid, cmdReady, label)
      BY <2>4, <2>5 DEF Lines
    <3>4. BInv'
      BY <2>6, <3>1, <3>2, <3>3, BusStep
    <3> QED
      BY <3>1, <3>4
  <2> QED
    BY <2>2, <2>7, <2>8
<1>2. CASE Settled
  <2>1. PICK label \in Labels(Answers) : Read(Answers, MayTake, label)
    BY <1>2 DEF Settled
  <2>2. settled' \in BOOLEAN
    BY <1>2 DEF Settled, BInv, TypeOK
  <2>3. Answers \in BOOLEAN /\ MayTake \in BOOLEAN
    BY DEF Answers, MayTake
  <2>4. Answers => MayAnswer
    <3>1. ibusLatency \in Int /\ ibusLatency >= 1
      BY BusAssumption
    <3>2. Len(<<>>) = 0
      OBVIOUS
    <3> QED
      BY <3>1, <3>2 DEF Answers, MayAnswer
  <2> QED
    BY <2>1, <2>2, <2>3, <2>4, ReadStep
<1>3. CASE UNCHANGED vars
  BY <1>3 DEF vars, BInv, TypeOK, Labelled, StreamOf, nextAddress, Rsp, Address, depth
<1> QED
  BY <1>1, <1>2, <1>3 DEF Next

(* Initially the queues are empty. *)
LEMMA InitBInv == Init => BInv
<1> SUFFICES ASSUME Init PROVE BInv
  OBVIOUS
<1>1. TypeOK
  <2>1. <<>> \in Seq(Address) /\ <<>> \in Seq(Rsp) /\ Len(<<>>) = 0
    BY EmptySeq
  <2>2. 0 \in Address /\ 0 <= depth /\ 0 \in 0 .. depth /\ 0 <= irQueueSize /\ 0 <= MaxInFlight
    BY BusFacts
  <2> QED
    BY <2>1, <2>2 DEF Init, TypeOK
<1>2. Labelled
  BY EmptySeq DEF Init, Labelled
<1>3. StreamOf(cmdFifo, restartCmdsToFlush, currentCmd)
  BY EmptySeq DEF Init, StreamOf
<1> QED
  BY <1>1, <1>2, <1>3 DEF BInv
-----------------------------------------------------------------------------
(* The properties.                                                         *)

(* The stream of PrefetchConsecutive is that of StreamOf, with the command
   that waits at its end. *)
LEMMA StreamConsecutive == ASSUME BInv PROVE PrefetchConsecutive
<1> DEFINE n == restartCmdsToFlush
           q == cmdFifo
           s == SubSeq(q, n + 1, Len(q))
           w == IF pending /\ n <= Len(q) THEN <<currentCmd.address>> ELSE <<>>
           t == s \o w
<1>1. /\ q \in Seq(Address) /\ n \in Nat /\ Len(q) \in Nat /\ n <= Len(q)
      /\ currentCmd.address \in Address
      /\ \A i \in n + 1 .. Len(q) - 1 : q[i + 1] = nextAddress(q[i])
      /\ n < Len(q) /\ pending => currentCmd.address = nextAddress(q[Len(q)])
  BY LenProperties, BusFacts DEF BInv, TypeOK, StreamOf, pending
<1>2. \A i \in n + 1 .. Len(q) : q[i] \in Address
  BY <1>1, ElementOfSeq
<1>3. /\ s \in Seq(Address) /\ Len(s) = Len(q) - n
      /\ \A i \in 1 .. Len(q) - n : s[i] = q[n + i]
  <2>1. n + 1 \in Int /\ Len(q) \in Int
    BY <1>1
  <2>2. /\ s \in Seq(Address) /\ Len(s) = IF n + 1 <= Len(q) THEN Len(q) - (n + 1) + 1 ELSE 0
        /\ \A i \in 1 .. Len(q) - (n + 1) + 1 : s[i] = q[n + 1 + i - 1]
    BY <1>2, <2>1, SubSeqProperties
  <2>3. Len(q) - (n + 1) + 1 = Len(q) - n
    BY <1>1
  <2>4. \A i \in 1 .. Len(q) - n : n + 1 + i - 1 = n + i
    BY <1>1
  <2> HIDE DEF s
  <2>5. Len(s) = Len(q) - n
    BY <1>1, <2>2
  <2>6. \A i \in 1 .. Len(q) - n : s[i] = q[n + 1 + i - 1]
    BY <2>2, <2>3
  <2> QED
    BY <2>2, <2>4, <2>5, <2>6
<1>4. /\ w \in Seq(Address) /\ Len(w) \in Nat /\ Len(w) <= 1
      /\ Len(w) = 1 => pending /\ w[1] = currentCmd.address
  BY <1>1, EmptySeq
<1>5. /\ Len(t) = Len(s) + Len(w)
      /\ \A i \in 1 .. Len(s) + Len(w) : t[i] = IF i <= Len(s) THEN s[i] ELSE w[i - Len(s)]
  BY <1>3, <1>4, ConcatProperties
<1> HIDE DEF s, w, t
<1>6. Len(s) <= Len(s) + Len(w) - 1 => Len(w) = 1
  <2>1. \A a, b \in Nat : b <= 1 /\ a <= a + b - 1 => b = 1
    OBVIOUS
  <2>2. Len(s) \in Nat /\ Len(w) \in Nat /\ Len(w) <= 1
    BY <1>1, <1>3, <1>4
  <2> QED
    BY <2>1, <2>2, Zenon
<1>7. ASSUME NEW i \in 1 .. Len(t) - 1 PROVE t[i + 1] = nextAddress(t[i])
  <2>1. i \in Nat /\ i >= 1 /\ i <= Len(s)
    BY <1>1, <1>3, <1>4, <1>5
  <2>2. t[i] = q[n + i]
    BY <1>1, <1>3, <1>4, <1>5, <2>1
  <2>3. CASE i + 1 <= Len(s)
    <3>1. t[i + 1] = q[n + i + 1]
      BY <1>1, <1>3, <1>4, <1>5, <2>1, <2>3
    <3>2. n + i \in n + 1 .. Len(q) - 1
      BY <1>1, <1>3, <2>1, <2>3
    <3> QED
      BY <1>1, <2>2, <3>1, <3>2
  <2>4. CASE i = Len(s)
    <3>1. Len(s) \in Nat /\ i <= Len(s) + Len(w) - 1
      BY <1>1, <1>3, <1>5
    <3>2. Len(w) = 1
      BY <1>6, <2>4, <3>1
    <3>3. i + 1 \in 1 .. Len(s) + Len(w) /\ ~ (i + 1 <= Len(s)) /\ i + 1 - Len(s) = 1
      BY <2>1, <2>4, <3>1, <3>2
    <3>4. t[i + 1] = w[1] /\ Len(w) = 1
      BY <1>5, <3>2, <3>3
    <3>5. n + i = Len(q) /\ n < Len(q)
      BY <1>1, <1>3, <2>1, <2>4
    <3> QED
      BY <1>1, <1>4, <2>2, <3>4, <3>5
  <2>5. Len(s) \in Nat
    BY <1>1, <1>3
  <2>6. i + 1 <= Len(s) \/ i = Len(s)
    BY <2>1, <2>5
  <2> QED
    BY <2>3, <2>4, <2>6
<1> QED
  BY <1>7 DEF PrefetchConsecutive, s, w, t

(* The queues of IBusControl never overflow, and behind the commands that a
   restart has made obsolete they hold one stream of consecutive words. *)
THEOREM PrefetchInOrderCorrect ==
    ASSUME MaxInFlight <= depth
    PROVE  Spec => []PrefetchInOrder
<1>1. BInv => PrefetchInOrder
  BY StreamConsecutive DEF PrefetchInOrder, BInv
<1>2. BInv /\ [Next]_vars => BInv'
  BY NextBInv
<1> QED
  BY <1>1, <1>2, InitBInv, PTL DEF Spec

(* The fetch stage is given the instruction at the address it asked for and
   nothing else, whatever IBusControl had in flight or ignored before. *)
THEOREM FetchesRightCorrect ==
    ASSUME MaxInFlight <= depth
    PROVE  Spec => FetchesRight
<1>1. BInv /\ [Next]_vars => BInv'
  BY NextBInv
<1>2. BInv /\ [Next]_vars =>
         [fetched' # None => fetched' = pc /\ pc' = nextAddress(pc)]_vars
  BY NextBInv
<1> QED
  BY <1>1, <1>2, InitBInv, PTL DEF Spec, FetchesRight
=============================================================================
