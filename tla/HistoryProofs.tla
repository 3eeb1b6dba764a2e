---------------------------- MODULE HistoryProofs ----------------------------
(***************************************************************************)
(* The theorems about MemCtrl with its two history variables, for every    *)
(* choice of blocks, queue size, banks and latencies that the assumptions  *)
(* admit: that commands never overlap on the command bus (CommandBus), and *)
(* that the controller never idles and the words of a block get their turn *)
(* (Waiting).                                                              *)
(*                                                                         *)
(* Commands: schedulable asks for the cycle n of a command, and its range  *)
(* is marked there; only the third command of a conflict is marked one     *)
(* access later, where its word is marked on the data bus as well.  So a   *)
(* command c that is not marked itself is found from the next command or   *)
(* from the word of the request that n belongs to: one of them was asked   *)
(* for at n + Step.                                                        *)
(*                                                                         *)
(* Waits: every mark ahead was made for a request that is in flight still, *)
(* so that with nothing in flight nothing is in the way of a request.  As  *)
(* long as requests wait, one is therefore in flight, and it finishes      *)
(* within LongestService cycles.  The words of a block in its turn: those  *)
(* of the other block may all be served first, but then the block is alone *)
(* in the queue, and the word in flight is its own.                        *)
(***************************************************************************)
EXTENDS Waiting, MemCtrlProofs

-----------------------------------------------------------------------------
(* The command bus.                                                        *)

\* The commands of a request by the state of its row buffer.
LEMMA CommandCyclesAre ==
  ASSUME stat_cycles \in Nat
  PROVE  /\ CommandCycles(HIT) = {stat_cycles}
         /\ CommandCycles(MISS) = {stat_cycles, stat_cycles + Step}
         /\ CommandCycles(CONFLICT) =
              {stat_cycles, stat_cycles + Step, stat_cycles + Step + Step}
<1>1. Step \in Nat
  BY Numbers
<1>2. /\ stat_cycles + 0 * Step = stat_cycles
      /\ stat_cycles + 1 * Step = stat_cycles + Step
      /\ stat_cycles + 2 * Step = stat_cycles + Step + Step
  BY <1>1
<1>3. 0 .. HIT = {0} /\ 0 .. MISS = {0, 1} /\ 0 .. CONFLICT = {0, 1, 2}
  BY DEF HIT, MISS, CONFLICT
<1> QED
  BY <1>2, <1>3 DEF CommandCycles

\* clean_up forgets no command that is not over.
LEMMA CleanUpKeepsRecords ==
  ASSUME TypeOK, Buses(busy, stat_cycles), NEW c, c.at \in Int,
         c.at + CmdLen > stat_cycles, Recorded(c, busy)
  PROVE  Recorded(c, CleanUp(TRUE))
<1> DEFINE bz == CleanUp(TRUE)
           t == stat_cycles
<1>1. /\ t \in Nat /\ Step \in Nat \ {0} /\ CmdLen \in Nat \ {0} /\ DataLen \in Nat \ {0}
      /\ CmdLen <= DataLen
  BY Numbers, TypesOfState
<1>2. busy.cmd \in Seq(RANGE_T) /\ busy.data \in Seq(RANGE_T)
  BY TypesOfState
<1>3. bz.cmd = Expire(busy.cmd) /\ bz.data = Expire(busy.data)
  BY DEF CleanUp
<1>4. /\ Spaced(busy.cmd, CmdLen) /\ NotPassed(busy.cmd, stat_cycles)
      /\ Spaced(busy.data, DataLen) /\ NotPassed(busy.data, stat_cycles)
  BY DEF Buses
<1>5. \A i \in 1 .. Len(busy.cmd) :
         busy.cmd[i].max >= stat_cycles =>
           \E j \in 1 .. Len(Expire(busy.cmd)) : Expire(busy.cmd)[j] = busy.cmd[i]
  BY ONLY <1>1, <1>2, <1>4, ExpireKeepsSpaced
<1>6. \A i \in 1 .. Len(busy.data) :
         busy.data[i].max >= stat_cycles =>
           \E j \in 1 .. Len(Expire(busy.data)) : Expire(busy.data)[j] = busy.data[i]
  BY ONLY <1>1, <1>2, <1>4, ExpireKeepsSpaced
<1> HIDE DEF bz
<1>7. \A i \in 1 .. Len(busy.cmd) :
        /\ busy.cmd[i].max = busy.cmd[i].min + CmdLen - 1
        /\ busy.cmd[i].max >= t => \E j \in 1 .. Len(bz.cmd) : bz.cmd[j] = busy.cmd[i]
  BY <1>3, <1>4, <1>5 DEF Spaced
<1>8. \A i \in 1 .. Len(busy.data) :
        /\ busy.data[i].max = busy.data[i].min + DataLen - 1
        /\ busy.data[i].max >= t => \E j \in 1 .. Len(bz.data) : bz.data[j] = busy.data[i]
  BY <1>3, <1>4, <1>6 DEF Spaced
<1> HIDE DEF bz, t
<1>9. ASSUME NEW at \in Int, at + CmdLen > t, NEW i \in 1 .. Len(busy.cmd), busy.cmd[i].min = at
      PROVE  \E j \in 1 .. Len(bz.cmd) : bz.cmd[j].min = at
  <2>1. busy.cmd[i].max >= t
    BY <1>1, <1>7, <1>9
  <2> QED
    BY <2>1, <1>7, <1>9
<1>10. ASSUME NEW at \in Int, at + CmdLen > t, NEW i \in 1 .. Len(busy.data), busy.data[i].min = at
      PROVE  \E j \in 1 .. Len(bz.data) : bz.data[j].min = at
  <2>1. busy.data[i].max >= t
    BY <1>1, <1>8, <1>10
  <2> QED
    BY <2>1, <1>8, <1>10
<1>11. /\ c.at + Step \in Int /\ c.at + CmdLen > t /\ c.at + Step + CmdLen > t
  BY <1>1 DEF t
<1> QED
  BY <1>9, <1>10, <1>11 DEF Recorded, bz

\* set_busy_status forgets none.
LEMMA SetBusyStatusKeepsRecords ==
  ASSUME stat_cycles \in Nat, NEW status, NEW bz, NEW bank, MayMark(bz, status, bank),
         NEW c, Recorded(c, bz)
  PROVE  Recorded(c, SetBusyStatus(bz, status, bank))
<1> DEFINE new == SetBusyStatus(bz, status, bank)
<1>1. new.cmd = MarkCommands(bz.cmd, status)
  BY DEF SetBusyStatus
<1>2. Keeps(bz.cmd, new.cmd)
  BY <1>1, MarkCommandsKeepsSpaced DEF MayMark
<1>3. Keeps(bz.data, new.data)
  BY SetBusyStatusKeepsBuses
<1> HIDE DEF new
<1> QED
  BY <1>2, <1>3 DEF Recorded, Keeps, Has, new

\* set_busy_status records the commands of the request.
LEMMA IssuedAreRecorded ==
  ASSUME stat_cycles \in Nat, NEW status, NEW bz, NEW bank, MayMark(bz, status, bank),
         NEW c, c.at \in CommandCycles(status)
  PROVE  Recorded(c, SetBusyStatus(bz, status, bank))
<1> DEFINE new == SetBusyStatus(bz, status, bank)
           t == stat_cycles
<1>1. t \in Nat /\ Step \in Nat
  BY Numbers
<1>2. status \in {HIT, MISS, CONFLICT}
  BY DEF MayMark
<1>3. new.cmd = MarkCommands(bz.cmd, status)
  BY DEF SetBusyStatus
<1>4. /\ Has(new.cmd, NewRange(t, CmdLen))
      /\ status # HIT => Has(new.cmd, NewRange(t + Step, CmdLen))
      /\ status = CONFLICT => Has(new.cmd, NewRange(DataCycle(CONFLICT), CmdLen))
  BY <1>3, MarkCommandsKeepsSpaced DEF MayMark
<1>5. Has(new.data, NewRange(DataCycle(status), DataLen))
  BY SetBusyStatusKeepsBuses
<1> HIDE DEF new
<1>6. \A list, at, len : Has(list, NewRange(at, len)) =>
        \E i \in 1 .. Len(list) : list[i].min = at
  BY DEF Has, NewRange
<1>7. CASE c.at = t
  BY <1>4, <1>6, <1>7 DEF Recorded, new
<1>8. CASE c.at = t + Step /\ status # HIT
  BY <1>4, <1>6, <1>8 DEF Recorded, new
<1>9. CASE c.at = t + Step + Step /\ status = CONFLICT
  <2>1. DataCycle(CONFLICT) = c.at + Step
    BY <1>1, <1>9, CyclesOfStatus
  <2> QED
    BY <2>1, <1>4, <1>5, <1>6, <1>9 DEF Recorded, new
<1>10. HIT # MISS /\ HIT # CONFLICT /\ MISS # CONFLICT
  BY DEF HIT, MISS, CONFLICT
<1> QED
  BY <1>2, <1>7, <1>8, <1>9, <1>10, CommandCyclesAre

\* The cycle an access after a command of a request is one schedulable asks for, on the
\* command bus or, after the last command, on the data bus.
LEMMA NextCycleIsAskedFor ==
  ASSUME stat_cycles \in Nat, NEW status \in {HIT, MISS, CONFLICT},
         NEW n \in CommandCycles(status)
  PROVE  /\ n \in Nat
         /\ n + Step \in CommandCycles(status) \/ n + Step = DataCycle(status)
<1>1. Step \in Nat
  BY Numbers
<1> QED
  BY <1>1, CommandCyclesAre, CyclesOfStatus

\* A request that schedulable lets through has no command near a recorded one.
LEMMA IssuedApart ==
  ASSUME stat_cycles \in Nat, NEW status, NEW bz, NEW bank, MayMark(bz, status, bank),
         NEW c, c.at \in Int, Recorded(c, bz), NEW n \in CommandCycles(status)
  PROVE  Distance(n, c.at) >= CmdLen /\ Distance(c.at, n) >= CmdLen
<1>1. Step \in Nat /\ CmdLen \in Nat /\ DataLen \in Nat /\ CmdLen <= DataLen
  BY Numbers
<1>2. /\ n \in Nat
      /\ n + Step \in CommandCycles(status) \/ n + Step = DataCycle(status)
  BY NextCycleIsAskedFor DEF MayMark
<1>3. /\ \A at \in CommandCycles(status), i \in 1 .. Len(bz.cmd) :
           ~(Distance(at, bz.cmd[i].min) <= CmdLen)
      /\ \A j \in 1 .. Len(bz.data) : ~(Distance(DataCycle(status), bz.data[j].min) <= DataLen)
  BY DEF MayMark, QueryBusy
<1>4. CASE \E i \in 1 .. Len(bz.cmd) : bz.cmd[i].min = c.at
  <2>1. ~(Distance(n, c.at) <= CmdLen)
    BY <1>3, <1>4
  <2> QED
    BY <2>1, <1>1, <1>2 DEF Distance
<1>5. CASE /\ \E i \in 1 .. Len(bz.cmd) : bz.cmd[i].min = c.at + Step
           /\ \E j \in 1 .. Len(bz.data) : bz.data[j].min = c.at + Step
  <2>1. \/ ~(Distance(n + Step, c.at + Step) <= CmdLen)
        \/ ~(Distance(n + Step, c.at + Step) <= DataLen)
    BY <1>2, <1>3, <1>5
  <2> QED
    BY <2>1, <1>1, <1>2 DEF Distance
<1> QED
  BY <1>4, <1>5 DEF Recorded

\* Two commands of one request are an access apart.
LEMMA IssuedTogetherApart ==
  ASSUME stat_cycles \in Nat, NEW status \in {HIT, MISS, CONFLICT},
         NEW m \in CommandCycles(status), NEW n \in CommandCycles(status), m # n
  PROVE  Distance(m, n) >= CmdLen
<1>1. Step \in Nat /\ CmdLen \in Nat /\ CmdLen < Step
  BY Numbers
<1> QED
  BY <1>1, CommandCyclesAre DEF Distance

\* The scheduler serves one request, or none.
LEMMA OneRequestIsServed ==
  ASSUME NEW q, NEW bz, NEW i \in RequestToServe(q, bz)
  PROVE  RequestToServe(q, bz) = {i}
BY DEF RequestToServe

-----------------------------------------------------------------------------
(* The invariant.                                                          *)

LEMMA InitBusInv == CInit => BusInv
BY InitIndInv DEF CInit, BusInv, CommandsDontOverlap

\* A request changes neither the commands nor the busy sets.
LEMMA RequestKeepsBusInv ==
  ASSUME BusInv, NEW b \in Blocks, CRequest(b)
  PROVE  BusInv'
<1>1. IndInv'
  BY RequestKeepsIndInv DEF BusInv, CRequest
<1> QED
  BY <1>1 DEF BusInv, CRequest, Request, CommandsDontOverlap, Recorded

\* A cycle in which no request is served.
LEMMA IdleKeepsBusInv ==
  ASSUME BusInv, NEW run \in BOOLEAN, CCycle(run), Idle(run)
  PROVE  BusInv'
<1>1. /\ IndInv /\ run_bit /\ run_bit' = run
      /\ RequestToServe(FinishRequest, CleanUp(run)) = {} /\ busy' = CleanUp(run)
  BY DEF BusInv, CCycle, Cycle, Tick, Idle
<1>2. IndInv'
  BY <1>1, NextKeepsIndInv DEF CCycle, Next
<1>3. Issued(run) = {}
  BY <1>1 DEF Issued
<1>4. commands' = {c \in commands : c.at + CmdLen > stat_cycles}
  BY <1>3 DEF CCycle
<1>5. ASSUME run, NEW c \in commands'
      PROVE  Recorded(c, busy')
  <2>1. c \in commands /\ c.at + CmdLen > stat_cycles /\ c.at \in Int /\ Recorded(c, busy)
    BY <1>1, <1>4 DEF BusInv
  <2>2. Recorded(c, CleanUp(TRUE))
    BY <2>1, <1>1, CleanUpKeepsRecords DEF IndInv
  <2> QED
    BY <2>2, <1>1, <1>5
<1> QED
  BY <1>1, <1>2, <1>4, <1>5 DEF BusInv, CommandsDontOverlap, Recorded

\* A cycle in which a request is served.
LEMMA ServeKeepsBusInv ==
  ASSUME BusInv, NEW run \in BOOLEAN, CCycle(run), Serve(run)
  PROVE  BusInv'
<1> DEFINE q == FinishRequest
           bz == CleanUp(run)
<1>1. /\ IndInv /\ run_bit /\ run_bit' = run
      /\ TypeOK /\ Buses(busy, stat_cycles) /\ stat_cycles \in Nat
  BY TypesOfState DEF BusInv, IndInv, CCycle, Cycle, Tick
<1>2. IndInv'
  BY <1>1, NextKeepsIndInv DEF CCycle, Next
<1>3. /\ q \in Seq(Entry)
      /\ bz \in [cmd : Seq(RANGE_T), data : Seq(RANGE_T), bank : [Banks -> Seq(RANGE_T)]]
      /\ Buses(bz, stat_cycles + 1)
  BY <1>1, BeforeScheduling
<1>4. PICK i \in RequestToServe(q, bz) :
        busy' = SetBusyStatus(bz, RowBufferStatus(q[i].blk), GetBank(q[i].blk))
  BY DEF Serve
<1> DEFINE b == q[i].blk
           status == RowBufferStatus(b)
           new == [n \in CommandCycles(status) |->
                     [at |-> n, blk |-> q[i].blk, word |-> q[i].word]]
<1>5. i \in 1 .. Len(q) /\ Schedulable(q[i], bz) /\ RequestToServe(q, bz) = {i}
  BY <1>3, RequestToServeIsFree, OneRequestIsServed
<1>6. b \in Nat /\ GetBank(b) \in Banks /\ status \in {HIT, MISS, CONFLICT}
  BY <1>3, <1>5, EntriesHaveTypes, PlaceOfBlock
<1>7. MayMark(bz, status, GetBank(b))
  BY <1>3, <1>5, <1>6 DEF MayMark, Schedulable
<1>8. Issued(run) = {new[n] : n \in CommandCycles(status)}
  BY <1>5 DEF Issued
<1>9. commands' = {c \in commands : c.at + CmdLen > stat_cycles}
                    \cup {new[n] : n \in CommandCycles(status)}
  BY <1>8 DEF CCycle
<1>10. \A n \in CommandCycles(status) : new[n].at = n /\ n \in Int
  BY <1>1, <1>6, NextCycleIsAskedFor
<1> HIDE DEF q, bz, status, new
<1>11. \A c \in commands' : c.at \in Int
  BY <1>9, <1>10 DEF BusInv
<1>12. ASSUME run, NEW c \in commands, c.at + CmdLen > stat_cycles
       PROVE  c.at \in Int /\ Recorded(c, bz)
  <2>1. c.at \in Int /\ Recorded(c, busy)
    BY <1>1, <1>12 DEF BusInv
  <2>2. Recorded(c, CleanUp(TRUE))
    BY <2>1, <1>1, <1>12, CleanUpKeepsRecords
  <2> QED
    BY <2>1, <2>2, <1>12 DEF bz
<1>13. ASSUME run, NEW c \in commands'
       PROVE  Recorded(c, busy')
  <2>1. CASE c \in commands /\ c.at + CmdLen > stat_cycles
    BY <2>1, <1>1, <1>4, <1>7, <1>12, <1>13, SetBusyStatusKeepsRecords DEF status
  <2>2. CASE \E n \in CommandCycles(status) : c = new[n]
    <3>1. c.at \in CommandCycles(status)
      BY <2>2, <1>10
    <3> QED
      BY <3>1, <1>1, <1>4, <1>7, IssuedAreRecorded DEF status
  <2> QED
    BY <2>1, <2>2, <1>9
<1>14. ASSUME run, NEW c \in commands', NEW d \in commands', c # d
       PROVE  Distance(c.at, d.at) >= CmdLen
  <2> DEFINE Old(e) == e \in commands /\ e.at + CmdLen > stat_cycles
             New(e) == e.at \in CommandCycles(status) /\ e = new[e.at]
  <2>1. (Old(c) \/ New(c)) /\ (Old(d) \/ New(d))
    BY <1>9, <1>10
  <2>2. CASE Old(c) /\ Old(d)
    BY <2>2, <1>1, <1>14 DEF BusInv, CommandsDontOverlap
  <2>3. CASE Old(c) /\ New(d)
    BY <2>3, <1>1, <1>7, <1>12, <1>14, IssuedApart
  <2>4. CASE New(c) /\ Old(d)
    BY <2>4, <1>1, <1>7, <1>12, <1>14, IssuedApart
  <2>5. CASE New(c) /\ New(d)
    <3>1. c.at # d.at
      BY <2>5, <1>14
    <3> QED
      BY <3>1, <2>5, <1>1, <1>6, IssuedTogetherApart DEF status
  <2> QED
    BY <2>1, <2>2, <2>3, <2>4, <2>5
<1> QED
  BY <1>1, <1>2, <1>11, <1>13, <1>14 DEF BusInv, CommandsDontOverlap, Recorded

\* Every step keeps the invariant.
LEMMA NextKeepsBusInv == BusInv /\ [CNext]_cvars => BusInv'
<1> SUFFICES ASSUME BusInv, [CNext]_cvars PROVE BusInv'
  OBVIOUS
<1>1. ASSUME NEW b \in Blocks, CRequest(b) PROVE BusInv'
  BY <1>1, RequestKeepsBusInv
<1>2. ASSUME NEW run \in BOOLEAN, CCycle(run) PROVE BusInv'
  BY <1>2, IdleKeepsBusInv, ServeKeepsBusInv DEF CCycle, Cycle
<1>3. CASE UNCHANGED cvars
  <2>1. IndInv'
    BY <1>3, NextKeepsIndInv DEF cvars, BusInv
  <2> QED
    BY <2>1, <1>3 DEF cvars, vars, BusInv, CommandsDontOverlap, Recorded
<1> QED
  BY <1>1, <1>2, <1>3 DEF CNext

\* The busy sets forget no command before it has been sent.
THEOREM CommandsAreRecorded == CSpec => []BusInv
BY InitBusInv, NextKeepsBusInv, PTL DEF CSpec

\* No two commands are on the command bus at once, the third command of a conflict,
\* which set_busy_status marks in another cycle than schedulable asked for, included.
THEOREM CommandBusIsExclusive == CSpec => []CommandsDontOverlap
<1>1. BusInv => CommandsDontOverlap
  BY DEF BusInv
<1> QED
  BY <1>1, CommandsAreRecorded, PTL

-----------------------------------------------------------------------------
(* The lengths of waits.                                                   *)

\* More terms, more by one term at least.
LEMMA OneMoreTerm ==
  ASSUME NEW m \in Nat, NEW k \in Nat, NEW n \in Nat, k < n
  PROVE  /\ k * m \in Nat /\ n * m \in Nat
         /\ k * m + m <= n * m
<1>1. PICK d \in Nat : n = k + 1 + d
  <2>1. n - k - 1 \in Nat /\ n = k + 1 + (n - k - 1)
    OBVIOUS
  <2> QED
    BY <2>1
<1>2. k * m \in Nat /\ d * m \in Nat
  OBVIOUS
<1>3. n * m = k * m + m + d * m
  BY <1>1
<1> QED
  BY <1>2, <1>3

LEMMA WaitsOfWords ==
  /\ LongestService \in Nat
  /\ \A w \in 1 .. BlockWords :
       /\ Services(BlockWords - w + 1) \in Nat
       /\ LongestService <= Services(BlockWords - w + 1)
       /\ Services(BlockWords - w + 1) <= Services(BlockWords)
       /\ LongestWait(w) \in Nat
       /\ LongestService + Services(BlockWords) <= LongestWait(w)
  /\ Services(BlockWords) \in Nat
  /\ \A v, w \in 1 .. BlockWords : v < w =>
       /\ Services(BlockWords - w + 1) + LongestService <= Services(BlockWords - v + 1)
       /\ LongestWait(v) + LongestService + Services(BlockWords) <= LongestWait(w)
<1> DEFINE M == LongestService
           T == Services(BlockWords + 1)
<1>1. BlockWords \in Nat \ {0} /\ Step \in Nat \ {0} /\ DataLen \in Nat \ {0}
  BY Numbers
<1>2. M \in Nat
  BY <1>1 DEF LongestService
<1> HIDE DEF M
<1>3. \A n : Services(n) = n * M
  BY DEF Services, M
<1>4. /\ Services(BlockWords) \in Nat /\ T \in Nat
      /\ T = M + Services(BlockWords)
  <2>1. /\ BlockWords * M \in Nat
        /\ (BlockWords + 1) * M = M + BlockWords * M
    BY <1>1, <1>2
  <2> QED
    BY <2>1, <1>2, <1>3
<1> HIDE DEF T
<1>5. \A n : LongestWait(n) = n * T
  BY DEF LongestWait, T
<1>6. ASSUME NEW w \in 1 .. BlockWords
      PROVE  /\ Services(BlockWords - w + 1) \in Nat
             /\ M <= Services(BlockWords - w + 1)
             /\ Services(BlockWords - w + 1) <= Services(BlockWords)
             /\ LongestWait(w) \in Nat
             /\ T <= LongestWait(w)
  <2>1. w \in Nat /\ 0 < w /\ 0 * M = 0 /\ 0 * T = 0
    BY <1>1, <1>2, <1>4
  <2>2. BlockWords - w + 1 \in Nat /\ 0 < BlockWords - w + 1
    BY <1>1
  <2>3. w * T \in Nat /\ T <= w * T
    BY <2>1, <1>4, OneMoreTerm
  <2>4. /\ (BlockWords - w + 1) * M \in Nat
        /\ M <= (BlockWords - w + 1) * M
    <3> DEFINE r == BlockWords - w + 1
    <3> HIDE DEF r
    <3>1. 0 * M + M <= r * M /\ r * M \in Nat
      BY <2>2, <1>2, OneMoreTerm DEF r
    <3> QED
      BY <3>1, <2>1, <1>2 DEF r
  <2>5. (BlockWords - w + 1) * M <= BlockWords * M
    <3> DEFINE r == BlockWords - w + 1
    <3>1. r \in Nat /\ r <= BlockWords /\ BlockWords \in Nat
      BY <1>1, <2>2
    <3> HIDE DEF r
    <3>2. CASE r < BlockWords
      <4>1. r * M + M <= BlockWords * M /\ r * M \in Nat /\ BlockWords * M \in Nat
        BY <3>1, <3>2, <1>2, OneMoreTerm
      <4> QED
        BY <4>1, <1>2 DEF r
    <3>3. CASE r = BlockWords
      <4>1. BlockWords * M \in Nat
        BY <1>1, <1>2
      <4> QED
        BY <4>1, <3>3 DEF r
    <3> QED
      BY <3>1, <3>2, <3>3
  <2> QED
    BY <2>3, <2>4, <2>5, <1>3, <1>5
<1>7. ASSUME NEW v \in 1 .. BlockWords, NEW w \in 1 .. BlockWords, v < w
      PROVE  /\ Services(BlockWords - w + 1) + M <= Services(BlockWords - v + 1)
             /\ LongestWait(v) + T <= LongestWait(w)
  <2>1. v \in Nat /\ w \in Nat
    OBVIOUS
  <2>2. v * T + T <= w * T
    BY <2>1, <1>4, <1>7, OneMoreTerm
  <2>3. /\ BlockWords - w + 1 \in Nat /\ BlockWords - v + 1 \in Nat
        /\ BlockWords - w + 1 < BlockWords - v + 1
    BY <1>1, <1>7
  <2>4. (BlockWords - w + 1) * M + M <= (BlockWords - v + 1) * M
    <3> DEFINE r == BlockWords - w + 1
               s == BlockWords - v + 1
    <3> HIDE DEF r, s
    <3>1. r * M + M <= s * M
      BY <2>3, <1>2, OneMoreTerm DEF r, s
    <3> QED
      BY <3>1 DEF r, s
  <2> QED
    BY <2>2, <2>4, <1>3, <1>5
<1> HIDE DEF T
<1>8. ASSUME NEW v \in 1 .. BlockWords, NEW w \in 1 .. BlockWords, v < w
      PROVE  LongestWait(v) + M + Services(BlockWords) <= LongestWait(w)
  BY <1>2, <1>4, <1>6, <1>7, <1>8
<1> QED
  BY <1>2, <1>4, <1>6, <1>7, <1>8 DEF M

\* One request fewer takes one service less.
LEMMA OneServiceLess ==
  ASSUME NEW k \in Nat, NEW n \in Nat, k < n
  PROVE  /\ Services(k) \in Nat /\ Services(n) \in Nat
         /\ Services(k) + LongestService <= Services(n)
<1>1. LongestService \in Nat
  BY WaitsOfWords
<1> QED
  BY <1>1, OneMoreTerm DEF Services

-----------------------------------------------------------------------------
(* The marks of the requests in flight.                                    *)

\* clean_up_helper adds no range.
LEMMA ExpireAddsNone ==
  ASSUME NEW list \in Seq(RANGE_T)
  PROVE  /\ Expire(list) \in Seq(RANGE_T)
         /\ \A j \in 1 .. Len(Expire(list)) : \E i \in 1 .. Len(list) : Expire(list)[j] = list[i]
<1>1. CASE Expire(list) = list
  BY <1>1
<1>2. CASE list # << >> /\ Expire(list) = Tail(list)
  <2>1. Tail(list) \in Seq(RANGE_T) /\ Len(Tail(list)) = Len(list) - 1 /\ Len(list) \in Nat
    BY <1>2
  <2>2. ASSUME NEW j \in 1 .. Len(Tail(list))
        PROVE  j + 1 \in 1 .. Len(list) /\ Tail(list)[j] = list[j + 1]
    BY <1>2, <2>1
  <2> QED
    BY <1>2, <2>1, <2>2
<1> QED
  BY <1>1, <1>2 DEF Expire

\* A request that finish_request takes out has no mark that outlasts it.
LEMMA MarksGoOn ==
  ASSUME mshr \in Seq(Entry), stat_cycles \in Nat,
         \A i, j \in Flying(mshr) : i # j => Distance(mshr[i].fin, mshr[j].fin) >= DataLen,
         NEW list \in Seq(RANGE_T), NEW before \in {0, 1},
         MarkedForFlights(mshr, list, stat_cycles, before)
  PROVE  MarkedForFlights(FinishRequest, Expire(list), stat_cycles + 1 - before, before)
<1> DEFINE q == FinishRequest
           new == Expire(list)
<1>1. PICK at : IsTheRest(q, at)
  BY FinishRequestKeepsOthers
<1>2. /\ at \in [1 .. Len(q) -> 1 .. Len(mshr)]
      /\ \A m \in 1 .. Len(q) : q[m] = mshr[at[m]]
      /\ \A i \in 1 .. Len(mshr) : i \notin Due => \E m \in 1 .. Len(q) : at[m] = i
  BY <1>1 DEF IsTheRest
<1>3. \A j \in 1 .. Len(new) : \E i \in 1 .. Len(list) : new[j] = list[i]
  BY ExpireAddsNone
<1> HIDE DEF q, new
<1>4. SUFFICES ASSUME NEW j \in 1 .. Len(new), new[j].max >= stat_cycles + 1 - before
               PROVE  \E m \in Flying(q) : new[j].max + before <= q[m].fin
  BY DEF MarkedForFlights, q, new
<1>5. PICK i \in 1 .. Len(list) : new[j] = list[i]
  BY <1>3
<1>6. list[i].max \in Int
  BY RangesHaveCycles
<1>7. list[i].max >= stat_cycles /\ list[i].max + before >= stat_cycles + 1
  BY <1>4, <1>5, <1>6
<1>8. PICK x \in Flying(mshr) : list[i].max + before <= mshr[x].fin
  BY <1>7 DEF MarkedForFlights
<1>9. x \in 1 .. Len(mshr) /\ mshr[x].fin \in Int /\ mshr[x].fin # NotServed
  BY EntriesHaveTypes DEF Flying
<1>10. x \notin Due
  BY <1>6, <1>7, <1>8, <1>9 DEF Due
<1>11. PICK m \in 1 .. Len(q) : at[m] = x
  BY <1>2, <1>9, <1>10
<1>12. q[m] = mshr[x] /\ m \in Flying(q)
  BY <1>2, <1>9, <1>11 DEF Flying
<1> QED
  BY <1>5, <1>8, <1>12

\* After finish_request and clean_up.
LEMMA MarksOutlastNoFlight ==
  ASSUME IndInv, run_bit, MarksAreOfFlights(mshr, busy, stat_cycles)
  PROVE  LET bz == CleanUp(TRUE)
         IN  /\ MarkedForFlights(FinishRequest, bz.cmd, stat_cycles, 1)
             /\ MarkedForFlights(FinishRequest, bz.data, stat_cycles + 1, 0)
             /\ \A k \in Banks : MarkedForFlights(FinishRequest, bz.bank[k], stat_cycles, 1)
<1> DEFINE bz == CleanUp(TRUE)
           t == stat_cycles
<1>1. /\ mshr \in Seq(Entry) /\ t \in Nat
      /\ busy.cmd \in Seq(RANGE_T) /\ busy.data \in Seq(RANGE_T)
      /\ busy.bank \in [Banks -> Seq(RANGE_T)]
  BY TypesOfState DEF IndInv
<1>2. \A i, j \in Flying(mshr) : i # j => Distance(mshr[i].fin, mshr[j].fin) >= DataLen
  BY DEF IndInv, Flights
<1>3. /\ bz.cmd = Expire(busy.cmd) /\ bz.data = Expire(busy.data)
      /\ \A k \in Banks : bz.bank[k] = Expire(busy.bank[k])
  BY DEF CleanUp
<1>4. t + 1 - 1 = t /\ t + 1 - 0 = t + 1
  BY <1>1
<1>5. /\ MarkedForFlights(mshr, busy.cmd, t, 1)
      /\ MarkedForFlights(mshr, busy.data, t, 0)
      /\ \A k \in Banks : MarkedForFlights(mshr, busy.bank[k], t, 1)
  BY DEF MarksAreOfFlights
<1>6. ASSUME NEW list \in Seq(RANGE_T), NEW before \in {0, 1},
             MarkedForFlights(mshr, list, t, before)
      PROVE  MarkedForFlights(FinishRequest, Expire(list), t + 1 - before, before)
  BY <1>1, <1>2, <1>6, MarksGoOn
<1>7. MarkedForFlights(FinishRequest, Expire(busy.cmd), t, 1)
  BY <1>1, <1>4, <1>5, <1>6
<1>8. MarkedForFlights(FinishRequest, Expire(busy.data), t + 1, 0)
  BY <1>1, <1>4, <1>5, <1>6
<1>9. ASSUME NEW k \in Banks
      PROVE  MarkedForFlights(FinishRequest, Expire(busy.bank[k]), t, 1)
  <2>1. busy.bank[k] \in Seq(RANGE_T)
    BY <1>1
  <2> QED
    BY <2>1, <1>4, <1>5, <1>6
<1> QED
  BY <1>3, <1>7, <1>8, <1>9

\* As time goes on, fewer marks are ahead.
LEMMA FewerMarksAhead ==
  ASSUME NEW t \in Nat, NEW q, NEW list \in Seq(RANGE_T), NEW before,
         MarkedForFlights(q, list, t, before)
  PROVE  MarkedForFlights(q, list, t + 1, before)
<1> SUFFICES ASSUME NEW i \in 1 .. Len(list), list[i].max >= t + 1
             PROVE  \E x \in Flying(q) : list[i].max + before <= q[x].fin
  BY DEF MarkedForFlights
<1>1. list[i].max \in Int
  BY RangesHaveCycles
<1>2. list[i].max >= t
  BY <1>1
<1> QED
  BY <1>2 DEF MarkedForFlights

\* The command bus gets the marks of a request and keeps its own.
CommandMarks(old, new, status) ==
  \A l \in 1 .. Len(new) :
    \/ \E m \in 1 .. Len(old) : new[l] = old[m]
    \/ new[l] = NewRange(stat_cycles, CmdLen)
    \/ new[l] = NewRange(stat_cycles + Step, CmdLen)
    \/ new[l] = NewRange(DataCycle(CONFLICT), CmdLen) /\ status = CONFLICT

LEMMA RangesOfCommands ==
  ASSUME stat_cycles \in Nat, NEW status, NEW bz, NEW bank, MayMark(bz, status, bank)
  PROVE  CommandMarks(bz.cmd, MarkCommands(bz.cmd, status), status)
<1> DEFINE new == MarkCommands(bz.cmd, status)
<1>1. /\ ~MarkCommandsFails(bz.cmd, status)
      /\ new \in Seq(RANGE_T) /\ Spaced(new, CmdLen)
      /\ \A l \in 1 .. Len(new) :
           \/ \E m \in 1 .. Len(bz.cmd) : new[l] = bz.cmd[m]
           \/ new[l] = NewRange(stat_cycles, CmdLen)
           \/ new[l] = NewRange(stat_cycles + Step, CmdLen)
           \/ new[l] = NewRange(DataCycle(CONFLICT), CmdLen) /\ status = CONFLICT
  BY MarkCommandsKeepsSpaced DEF MayMark
<1> HIDE DEF new
<1> QED
  BY <1>1 DEF CommandMarks, new

\* The marks of a request are over before it finishes.
LEMMA ServeMarksForFlight ==
  ASSUME WaitingAssumption, stat_cycles \in Nat, NEW q \in Seq(Entry), NEW bz,
         NEW i \in RequestToServe(q, bz),
         bz \in [cmd : Seq(RANGE_T), data : Seq(RANGE_T), bank : [Banks -> Seq(RANGE_T)]],
         Buses(bz, stat_cycles + 1), MarksAreOfFlights(q, bz, stat_cycles + 1),
         \A x \in Flying(q) : q[x].fin > 0
  PROVE  LET b == q[i].blk
         IN  MarksAreOfFlights(Served(q, i),
               SetBusyStatus(bz, RowBufferStatus(b), GetBank(b)), stat_cycles + 1)
<1> DEFINE t == stat_cycles
           b == q[i].blk
           status == RowBufferStatus(b)
           bank == GetBank(b)
           dc == DataCycle(status)
           fin == dc + DataLen - 1
           new == SetBusyStatus(bz, status, bank)
           held == NewRange(t, Step * (status + 1))
           after == Served(q, i)
<1>1. i \in 1 .. Len(q) /\ ~(q[i].fin > 0) /\ Schedulable(q[i], bz)
  BY RequestToServeIsFree
<1>2. b \in Nat /\ bank \in Banks /\ status \in {HIT, MISS, CONFLICT}
  BY <1>1, EntriesHaveTypes, PlaceOfBlock
<1>3. /\ Step \in Nat \ {0} /\ CmdLen \in Nat \ {0} /\ DataLen \in Nat \ {0} /\ CmdLen < DataLen
      /\ t \in Nat
  BY Numbers DEF WaitingAssumption
<1>4. MayMark(bz, status, bank)
  BY <1>1, <1>2 DEF MayMark, Schedulable
<1>5. /\ DataCycle(HIT) = t + Step /\ DataCycle(MISS) = t + Step + Step
      /\ DataCycle(CONFLICT) = t + Step + Step + Step
  BY CyclesOfStatus
<1>6. /\ dc \in Nat /\ fin = dc + DataLen - 1
      /\ t + Step <= dc
      /\ status = CONFLICT => dc = DataCycle(CONFLICT)
  BY <1>2, <1>3, <1>5
<1>7. held.max = dc - 1
  <2>1. /\ t + Step * (HIT + 1) - 1 = DataCycle(HIT) - 1
        /\ t + Step * (MISS + 1) - 1 = DataCycle(MISS) - 1
        /\ t + Step * (CONFLICT + 1) - 1 = DataCycle(CONFLICT) - 1
    BY <1>3, <1>5 DEF HIT, MISS, CONFLICT
  <2> QED
    BY <2>1, <1>2 DEF NewRange
<1>8. /\ new.cmd = MarkCommands(bz.cmd, status)
      /\ new.data = Reserve(bz.data, dc, DataLen)
      /\ new.bank = [bz.bank EXCEPT ![bank] = <<held>>]
  BY DEF SetBusyStatus
<1>9. /\ Len(after) = Len(q)
      /\ \A l \in 1 .. Len(q) : after[l].fin = IF l = i THEN fin ELSE q[l].fin
      /\ Flying(after) = Flying(q) \cup {i}
  BY <1>1, ServedEntries
<1>10. \A x \in Flying(q) : x \in Flying(after) /\ after[x].fin = q[x].fin
  <2> TAKE x \in Flying(q)
  <2>1. x \in 1 .. Len(q) /\ x # i
    BY <1>1 DEF Flying
  <2> QED
    BY <2>1, <1>9
<1>11. i \in Flying(after) /\ after[i].fin = fin
  BY <1>1, <1>9
<1> HIDE DEF after, new, held, fin
<1>16. ~QueryBusy(bz.data, {dc}, DataLen)
  BY <1>4 DEF MayMark
<1> HIDE DEF dc, status, bank
<1>12. \A mark, before : (\E x \in Flying(q) : mark + before <= q[x].fin) =>
                           \E x \in Flying(after) : mark + before <= after[x].fin
  BY <1>10
<1>13. MarkedForFlights(after, new.cmd, t + 1, 1)
  <2> SUFFICES ASSUME NEW j \in 1 .. Len(new.cmd), new.cmd[j].max >= t + 1
               PROVE  \E x \in Flying(after) : new.cmd[j].max + 1 <= after[x].fin
    BY DEF MarkedForFlights
  <2>1. \/ \E l \in 1 .. Len(bz.cmd) : new.cmd[j] = bz.cmd[l]
        \/ new.cmd[j] = NewRange(t, CmdLen)
        \/ new.cmd[j] = NewRange(t + Step, CmdLen)
        \/ new.cmd[j] = NewRange(DataCycle(CONFLICT), CmdLen) /\ status = CONFLICT
    <3>2. CommandMarks(bz.cmd, MarkCommands(bz.cmd, status), status)
      BY <1>4, RangesOfCommands
    <3>3. new.cmd = MarkCommands(bz.cmd, status) /\ j \in 1 .. Len(new.cmd)
      BY <1>8
    <3> QED
      BY <3>2, <3>3 DEF CommandMarks
  <2>2. CASE \E l \in 1 .. Len(bz.cmd) : new.cmd[j] = bz.cmd[l]
    BY <2>2, <1>12 DEF MarksAreOfFlights, MarkedForFlights
  <2>3. CASE \E at \in {t, t + Step, dc} : new.cmd[j] = NewRange(at, CmdLen)
    <3>1. PICK at \in {t, t + Step, dc} : new.cmd[j] = NewRange(at, CmdLen)
      BY <2>3
    <3>2. new.cmd[j].max = at + CmdLen - 1 /\ at \in Int /\ at <= dc
      BY <3>1, <1>3, <1>6 DEF NewRange
    <3>3. new.cmd[j].max + 1 <= fin
      BY <3>2, <1>3, <1>6
    <3> QED
      BY <3>3, <1>11
  <2> QED
    BY <2>1, <2>2, <2>3, <1>6
<1>14. MarkedForFlights(after, new.data, t + 1, 0)
  <2> SUFFICES ASSUME NEW j \in 1 .. Len(new.data), new.data[j].max >= t + 1
               PROVE  \E x \in Flying(after) : new.data[j].max + 0 <= after[x].fin
    BY DEF MarkedForFlights
  <2>1. \/ new.data[j] = NewRange(dc, DataLen)
        \/ \E l \in 1 .. Len(bz.data) : new.data[j] = bz.data[l]
    <3> DEFINE marks == Reserve(bz.data, dc, DataLen)
    <3>1. \A l \in 1 .. Len(bz.data) : Distance(dc, bz.data[l].min) > DataLen
      <4> TAKE l \in 1 .. Len(bz.data)
      <4>1. bz.data[l].min \in Int
        BY RangesHaveCycles
      <4>2. ~(Distance(dc, bz.data[l].min) <= DataLen)
        BY <1>16 DEF QueryBusy
      <4>3. Distance(dc, bz.data[l].min) \in Int
        BY <4>1, <1>6 DEF Distance
      <4> QED
        BY <4>2, <4>3, <1>3
    <3>2. /\ bz.data \in Seq(RANGE_T) /\ Spaced(bz.data, DataLen)
          /\ DataLen \in Nat \ {0} /\ dc \in Int
      BY <1>3, <1>6 DEF Buses
    <3>3. \A l \in 1 .. Len(marks) :
            \/ marks[l] = NewRange(dc, DataLen)
            \/ \E m \in 1 .. Len(bz.data) : marks[l] = bz.data[m]
      BY ONLY <3>1, <3>2, ReserveKeepsSpaced DEF marks
    <3> HIDE DEF marks
    <3> QED
      BY <3>3, <1>8 DEF marks
  <2>2. CASE \E l \in 1 .. Len(bz.data) : new.data[j] = bz.data[l]
    BY <2>2, <1>12 DEF MarksAreOfFlights, MarkedForFlights
  <2>3. CASE new.data[j] = NewRange(dc, DataLen)
    <3>1. new.data[j].max + 0 <= fin
      BY <2>3, <1>3, <1>6 DEF NewRange
    <3> QED
      BY <3>1, <1>11
  <2> QED
    BY <2>1, <2>2, <2>3
<1>15. ASSUME NEW k \in Banks
       PROVE  MarkedForFlights(after, new.bank[k], t + 1, 1)
  <2> SUFFICES ASSUME NEW j \in 1 .. Len(new.bank[k]), new.bank[k][j].max >= t + 1
               PROVE  \E x \in Flying(after) : new.bank[k][j].max + 1 <= after[x].fin
    BY DEF MarkedForFlights
  <2>1. CASE k # bank
    <3>1. new.bank[k] = bz.bank[k]
      BY <2>1, <1>8
    <3> QED
      BY <3>1, <1>12 DEF MarksAreOfFlights, MarkedForFlights
  <2>2. CASE k = bank
    <3>1. new.bank[k] = <<held>>
      BY <2>2, <1>8
    <3>2. new.bank[k][j] = held
      BY <3>1
    <3>3. new.bank[k][j].max + 1 <= fin
      BY <3>2, <1>3, <1>6, <1>7
    <3> QED
      BY <3>3, <1>11
  <2> QED
    BY <2>1, <2>2
<1> QED
  BY <1>13, <1>14, <1>15 DEF MarksAreOfFlights, after, new, status, bank

-----------------------------------------------------------------------------
(* The controller never idles.                                             *)

\* When nothing is in flight, nothing keeps a request from being served: of the marks,
\* only the last word's is left, and no request asks for the data bus so soon.
LEMMA NothingInTheWay ==
  ASSUME IndInv, run_bit, MarksAreOfFlights(mshr, busy, stat_cycles),
         Flying(FinishRequest) = {}, NEW i \in 1 .. Len(FinishRequest)
  PROVE  Schedulable(FinishRequest[i], CleanUp(TRUE))
<1> DEFINE t == stat_cycles
           q == FinishRequest
           bz == CleanUp(TRUE)
           b == q[i].blk
           status == RowBufferStatus(b)
           dc == DataCycle(status)
<1>1. /\ Step \in Nat \ {0} /\ CmdLen \in Nat \ {0} /\ DataLen \in Nat \ {0}
      /\ CmdLen < Step /\ t \in Nat
  BY Numbers, TypesOfState DEF IndInv
<1>2. /\ q \in Seq(Entry)
      /\ bz.cmd \in Seq(RANGE_T) /\ bz.data \in Seq(RANGE_T)
      /\ bz.bank \in [Banks -> Seq(RANGE_T)]
      /\ Buses(bz, t + 1)
  <2>1. LET z == CleanUp(TRUE)
        IN  /\ FinishRequest \in Seq(Entry)
            /\ z \in [cmd : Seq(RANGE_T), data : Seq(RANGE_T), bank : [Banks -> Seq(RANGE_T)]]
            /\ Buses(z, stat_cycles + 1)
    BY BeforeScheduling
  <2> QED
    BY <2>1
<1>3. /\ MarkedForFlights(q, bz.cmd, t, 1)
      /\ MarkedForFlights(q, bz.data, t + 1, 0)
      /\ \A k \in Banks : MarkedForFlights(q, bz.bank[k], t, 1)
  BY MarksOutlastNoFlight
<1> HIDE DEF bz
<1>4. ASSUME NEW list \in Seq(RANGE_T), NotPassed(list, t + 1),
             MarkedForFlights(q, list, t, 1)
      PROVE  list = << >>
  <2> SUFFICES ASSUME list # << >> PROVE FALSE
    OBVIOUS
  <2>1. 1 \in 1 .. Len(list) /\ list[1].max \in Int
    BY RangesHaveCycles
  <2>2. list[1].max >= t
    BY <2>1, <1>1, <1>4 DEF NotPassed
  <2> QED
    BY <2>1, <2>2, <1>4 DEF MarkedForFlights
<1>5. bz.cmd = << >>
  BY <1>2, <1>3, <1>4 DEF Buses
<1>6. b \in Nat /\ GetBank(b) \in Banks /\ status \in {HIT, MISS, CONFLICT}
  BY <1>2, EntriesHaveTypes, PlaceOfBlock
<1>7. bz.bank[GetBank(b)] = << >>
  <2>1. bz.bank[GetBank(b)] \in Seq(RANGE_T)
    BY <1>2, <1>6
  <2> QED
    BY <2>1, <1>2, <1>3, <1>4, <1>6 DEF Buses
<1>8. dc \in Nat /\ t + Step <= dc
  BY <1>1, <1>6, CyclesOfStatus
<1> HIDE DEF dc
<1>9. ASSUME NEW j \in 1 .. Len(bz.data)
      PROVE  ~(Distance(dc, bz.data[j].min) <= DataLen)
  <2>1. bz.data[j].max \in Int /\ bz.data[j].min \in Int
    BY <1>2, RangesHaveCycles
  <2>2. ~(bz.data[j].max >= t + 1)
    BY <1>3 DEF MarkedForFlights
  <2>3. bz.data[j].max = bz.data[j].min + DataLen - 1
    BY <1>2 DEF Buses, Spaced
  <2>4. dc - bz.data[j].min > DataLen /\ ~(dc < bz.data[j].min)
    BY <2>1, <2>2, <2>3, <1>1, <1>8
  <2> QED
    BY <2>1, <2>4, <1>1, <1>8 DEF Distance
<1>10. ~QueryBusy(bz.data, {dc}, DataLen)
  BY <1>9 DEF QueryBusy
<1>11. ~QueryBusy(bz.cmd, CommandCycles(status), CmdLen)
  BY <1>5 DEF QueryBusy
<1> QED
  BY <1>7, <1>10, <1>11 DEF Schedulable, bz, dc

\* So one is served.
LEMMA IdleWithoutRequests ==
  ASSUME IndInv, run_bit, MarksAreOfFlights(mshr, busy, stat_cycles),
         FinishRequest # << >>, RequestToServe(FinishRequest, CleanUp(TRUE)) = {}
  PROVE  Flying(FinishRequest) # {}
<1> DEFINE q == FinishRequest
           bz == CleanUp(TRUE)
<1> SUFFICES ASSUME Flying(q) = {} PROVE FALSE
  OBVIOUS
<1>1. q \in Seq(Entry)
  BY BeforeScheduling
<1>2. 1 \in 1 .. Len(q) /\ Len(q) \in Nat
  BY <1>1
<1>3. Schedulable(q[1], bz)
  BY <1>2, NothingInTheWay
<1>4. ~(q[1].fin > 0)
  BY <1>2 DEF Flying, NotServed
<1>5. 1 \in Candidates(q, bz, TRUE) \/ 1 \in Candidates(q, bz, FALSE)
  BY <1>2, <1>3, <1>4 DEF Candidates
<1> QED
  BY <1>5 DEF RequestToServe

-----------------------------------------------------------------------------
(* The turns.                                                              *)

\* new is a queue after a cycle: the requests that were not due, of which those in
\* flight still are, and others may be by now; at says where each was.
AfterCycle(new, at) ==
  /\ new \in Seq(Entry)
  /\ Len(new) <= Len(mshr)
  /\ Due # {} => Len(new) < Len(mshr)
  /\ \A m \in 1 .. Len(new) :
       /\ at[m] \in 1 .. Len(mshr) /\ at[m] \notin Due
       /\ new[m].blk = mshr[at[m]].blk /\ new[m].word = mshr[at[m]].word
       /\ at[m] \in Flying(mshr) => m \in Flying(new) /\ new[m].fin = mshr[at[m]].fin
  /\ \A e \in 1 .. Len(mshr) : e \notin Due => \E m \in 1 .. Len(new) : at[m] = e

\* The words of a block behind one that is due are later words.
LEMMA LaterThanDue ==
  ASSUME IndInv, run_bit, NEW x \in Flying(mshr), x \in Due,
         NEW e \in 1 .. Len(mshr), e \notin Due, mshr[e].blk = mshr[x].blk
  PROVE  mshr[x].word < mshr[e].word
<1>1. x \in 1 .. Len(mshr) /\ mshr[x].fin = stat_cycles /\ x # e
  BY DEF Due, Flying
<1>2. mshr \in Seq(Entry) /\ stat_cycles \in Nat
  BY TypesOfState DEF IndInv
<1>3. WordsInOrder(mshr) /\ Flights(mshr, busy, row_buffer, stat_cycles)
  BY DEF IndInv
<1>4. ASSUME e < x PROVE FALSE
  <2>1. e \in Flying(mshr) /\ mshr[e].fin < mshr[x].fin
    BY <1>1, <1>3, <1>4 DEF WordsInOrder
  <2>2. mshr[e].fin >= stat_cycles /\ mshr[e].fin \in Int
    BY <2>1, <1>2, <1>3, EntriesHaveTypes DEF Flights, HoldsDataBus
  <2> QED
    BY <2>1, <2>2, <1>1, <1>2
<1>5. x < e
  BY <1>1, <1>4
<1> QED
  BY <1>1, <1>3, <1>5 DEF WordsInOrder

\* Every word keeps its turn over a cycle.
LEMMA CycleKeepsTurns ==
  ASSUME WaitInv, run_bit, NEW new, NEW at, AfterCycle(new, at),
         FlightsAreNear(new, stat_cycles + 1), new # << >> => Flying(new) # {},
         NEW s, s = [c \in Blocks |-> IF Crowded(new) THEN stat_cycles + 1 ELSE since[c]]
  PROVE  InTurn(new, s, stat_cycles + 1)
<1> DEFINE t == stat_cycles
           n == BlockWords
           L == LongestService
<1>1. /\ mshr \in Seq(Entry) /\ t \in Nat /\ n \in Nat
      /\ IndInv /\ since \in [Blocks -> Nat] /\ InTurn(mshr, since, t)
      /\ Crowded(mshr) => \A b \in Blocks : since[b] = t
      /\ new \in Seq(Entry)
  BY TypesOfState, Numbers DEF WaitInv, BusInv, IndInv, AfterCycle
<1>2. SUFFICES ASSUME NEW m \in 1 .. Len(new), ~Crowded(new)
               PROVE  \E y \in Flying(new) :
                        NextWordBy(new, y, new[m].blk) <= s[new[m].blk] + LongestWait(new[m].word)
  <2>1. ASSUME NEW m \in 1 .. Len(new), Crowded(new)
        PROVE  s[new[m].blk] = t + 1
    BY <2>1, <1>1, EntriesHaveTypes
  <2> QED
    BY <2>1, <1>2 DEF InTurn
<1> DEFINE b == new[m].blk
           w == new[m].word
           e == at[m]
           by == since[b] + LongestWait(w)
<1>3. /\ e \in 1 .. Len(mshr) /\ e \notin Due
      /\ mshr[e].blk = b /\ mshr[e].word = w
  BY DEF AfterCycle
<1>4. b \in Blocks /\ w \in 1 .. n /\ s[b] = since[b] /\ since[b] \in Nat
  BY <1>1, <1>2, EntriesHaveTypes
<1>5. L \in Nat /\ LongestWait(w) \in Nat /\ Services(n) \in Nat /\ L + Services(n) <= LongestWait(w)
  BY <1>4, WaitsOfWords
<1>6. by \in Nat
  BY <1>4, <1>5
<1>7. \A y \in Flying(new) :
        /\ y \in 1 .. Len(new) /\ new[y].fin \in Int /\ new[y].word \in 1 .. n
        /\ new[y].fin <= t + L
  <2> TAKE y \in Flying(new)
  <2>1. y \in 1 .. Len(new) /\ new[y].fin \in Int /\ new[y].word \in 1 .. n
    BY <1>1, EntriesHaveTypes DEF Flying
  <2>2. new[y].fin < t + 1 + L
    BY DEF FlightsAreNear
  <2> QED
    BY <2>1, <2>2, <1>1, <1>5
<1>8. PICK y \in Flying(new) : TRUE
  <2>1. new # << >>
    BY <1>1
  <2> QED
    BY <2>1
<1> HIDE DEF by
\* Whatever is in flight, there is time for it and a block behind it.
<1>9. ASSUME t + L + Services(n) <= by
      PROVE  NextWordBy(new, y, b) <= by
  <2> DEFINE behind == Services(n - new[y].word + 1)
  <2>1. behind \in Nat /\ behind <= Services(n)
    BY <1>7, WaitsOfWords
  <2>2. \/ NextWordBy(new, y, b) = new[y].fin
        \/ NextWordBy(new, y, b) = new[y].fin + behind
    BY <1>7 DEF NextWordBy
  <2>3. new[y].fin \in Int /\ new[y].fin <= t + L /\ t \in Nat
    BY <1>1, <1>7
  <2> HIDE DEF behind, t, n, L
  <2> QED
    BY <2>1, <2>2, <2>3, <1>5, <1>6, <1>9
<1>10. ASSUME since[b] = t
       PROVE  t + L + Services(n) <= by
  BY <1>1, <1>4, <1>5, <1>10 DEF by
<1>11. ASSUME NEW x \in Flying(mshr), NextWordBy(mshr, x, b) <= by
       PROVE  \E z \in Flying(new) : NextWordBy(new, z, b) <= by
  <2>1. /\ x \in 1 .. Len(mshr) /\ mshr[x].fin \in Int /\ mshr[x].word \in 1 .. n
        /\ mshr[x].fin >= t
    <3>1. x \in 1 .. Len(mshr)
      BY DEF Flying
    <3> QED
      BY <3>1, <1>1, EntriesHaveTypes DEF IndInv, Flights, HoldsDataBus
  <2>2. CASE x \notin Due
    <3>1. PICK l \in 1 .. Len(new) : at[l] = x
      BY <2>1, <2>2 DEF AfterCycle
    <3>2. /\ l \in Flying(new) /\ new[l].fin = mshr[x].fin
          /\ new[l].blk = mshr[x].blk /\ new[l].word = mshr[x].word
      BY <3>1 DEF AfterCycle
    <3> QED
      BY <3>2, <1>11 DEF NextWordBy
  <2>3. CASE x \in Due /\ mshr[x].blk = b
    <3>1. mshr[x].word < w
      BY <2>3, <1>1, <1>3, LaterThanDue
    <3>2. LongestWait(mshr[x].word) \in Nat
          /\ LongestWait(mshr[x].word) + L + Services(n) <= LongestWait(w)
      BY <3>1, <2>1, <1>4, WaitsOfWords
    <3>3. since[b] = t \/ t <= since[b] + LongestWait(mshr[x].word)
      <4>1. CASE since[b] # t
        <5>1. PICK z \in Flying(mshr) :
                NextWordBy(mshr, z, b) <= since[b] + LongestWait(mshr[x].word)
          BY <4>1, <2>1, <2>3, <1>1 DEF InTurn
        <5>2. z \in 1 .. Len(mshr)
          BY DEF Flying
        <5>3. mshr[z].fin \in Int /\ mshr[z].word \in 1 .. n /\ mshr[z].fin >= t
          BY <5>2, <1>1, EntriesHaveTypes DEF IndInv, Flights, HoldsDataBus
        <5>4. Services(n - mshr[z].word + 1) \in Nat
          BY <5>3, WaitsOfWords
        <5>5. NextWordBy(mshr, z, b) \in Int /\ NextWordBy(mshr, z, b) >= t
          BY <5>3, <5>4, <1>1 DEF NextWordBy
        <5> QED
          BY <5>1, <5>5, <3>2, <1>1, <1>4
      <4> QED
        BY <4>1
    <3>4. t + L + Services(n) <= by
      <4>1. since[b] \in Nat /\ t \in Nat /\ L \in Nat /\ Services(n) \in Nat
            /\ LongestWait(w) \in Nat
        BY <1>1, <1>4, <1>5
      <4>2. CASE t <= since[b] + LongestWait(mshr[x].word)
        <5> HIDE DEF t, n, L, b, w
        <5>1. t + L + Services(n) <= since[b] + LongestWait(w)
          BY <4>1, <4>2, <3>2
        <5> QED
          BY <5>1 DEF by, b, w
      <4> QED
        BY <4>2, <3>3, <1>10
    <3> QED
      BY <3>4, <1>8, <1>9
  <2>4. CASE x \in Due /\ mshr[x].blk # b
    <3> DEFINE z == at[y]
               left == Services(n - mshr[x].word + 1)
    <3>1. /\ z \in 1 .. Len(mshr) /\ z \notin Due /\ y \in 1 .. Len(new)
          /\ mshr[z].blk = new[y].blk /\ mshr[z].word = new[y].word
      BY <1>7 DEF AfterCycle
    <3>2. left \in Nat /\ L <= left
      BY <2>1, WaitsOfWords
    <3>3. t + left <= by
      BY <2>4, <1>11 DEF NextWordBy, Due
    <3>4. new[y].fin \in Int /\ new[y].fin <= t + L /\ t \in Nat /\ L \in Nat
      BY <1>1, <1>5, <1>7
    <3>5. CASE new[y].blk = b
      <4>1. NextWordBy(new, y, b) = new[y].fin
        BY <3>5, <1>7 DEF NextWordBy
      <4> HIDE DEF left, t, L
      <4>2. new[y].fin <= by
        BY <3>2, <3>3, <3>4, <1>6
      <4> QED
        BY <4>1, <4>2
    <3>6. CASE new[y].blk = mshr[x].blk
      <4>1. mshr[x].word < new[y].word
        BY <3>1, <3>6, <2>4, <1>1, LaterThanDue
      <4>2. /\ Services(n - new[y].word + 1) \in Nat
            /\ Services(n - new[y].word + 1) + L <= left
        BY <4>1, <2>1, <1>7, WaitsOfWords
      <4>3. NextWordBy(new, y, b) = new[y].fin + Services(n - new[y].word + 1)
        BY <3>6, <2>4 DEF NextWordBy
      <4> DEFINE behind == Services(n - new[y].word + 1)
      <4>4. new[y].fin + behind <= by
        <5>1. behind \in Nat /\ behind + L <= left
          BY <4>2
        <5> HIDE DEF left, behind, t, L
        <5> QED
          BY <5>1, <3>2, <3>3, <3>4, <1>6
      <4> QED
        BY <4>3, <4>4
    <3>7. CASE new[y].blk # b /\ new[y].blk # mshr[x].blk
      <4>1. Crowded(mshr)
        BY <3>1, <3>7, <2>1, <2>4, <1>3 DEF Crowded
      <4> QED
        BY <4>1, <1>1, <1>4, <1>8, <1>9, <1>10
    <3> QED
      BY <3>5, <3>6, <3>7
  <2> QED
    BY <2>2, <2>3, <2>4
<1>12. since[b] = t \/ \E x \in Flying(mshr) : NextWordBy(mshr, x, b) <= by
  BY <1>1, <1>3 DEF InTurn, by
<1>13. \E z \in Flying(new) : NextWordBy(new, z, b) <= by
  BY <1>8, <1>9, <1>10, <1>11, <1>12
<1> QED
  BY <1>4, <1>13 DEF by

\* While no block comes, the queue drains: a cycle leaves the request in flight, or takes
\* it out and has another one in flight.
LEMMA CycleKeepsDraining ==
  ASSUME WaitInv, run_bit, NEW new, NEW at, AfterCycle(new, at),
         FlightsAreNear(new, stat_cycles + 1), new # << >> => Flying(new) # {}
  PROVE  Drains(new, asked, stat_cycles + 1)
<1> DEFINE t == stat_cycles
           L == LongestService
           l == Len(new)
           n == Len(mshr)
           by == asked + Services(MshrSize)
<1> SUFFICES ASSUME new # << >>
             PROVE  \E z \in Flying(new) : new[z].fin + Services(l - 1) <= by
  BY DEF Drains
<1>1. /\ IndInv /\ mshr \in Seq(Entry) /\ t \in Nat /\ asked \in Nat /\ L \in Nat
      /\ n \in Nat /\ MshrSize \in Nat /\ n <= MshrSize /\ Drains(mshr, asked, t)
  BY TypesOfState, WaitsOfWords, Numbers DEF WaitInv, BusInv, IndInv, TypeOK
<1>2. new \in Seq(Entry) /\ l \in Nat /\ 0 < l /\ l <= n
  BY DEF AfterCycle
<1>3. mshr # << >>
  BY <1>1, <1>2
<1>4. /\ l - 1 \in Nat /\ n - 1 \in Nat
      /\ Services(l - 1) \in Nat /\ Services(MshrSize) \in Nat
      /\ Services(l - 1) + L <= Services(MshrSize)
  <2>1. l - 1 \in Nat /\ n - 1 \in Nat /\ l - 1 < MshrSize
    BY <1>1, <1>2
  <2> QED
    BY <2>1, <1>1, OneServiceLess
<1>5. by \in Nat
  BY <1>1, <1>4
<1>6. PICK y \in Flying(new) : new[y].fin \in Int /\ new[y].fin <= t + L
  <2>1. PICK y \in Flying(new) : TRUE
    OBVIOUS
  <2>2. new[y].fin \in Int /\ new[y].fin < t + 1 + L
    BY <1>2, EntriesHaveTypes DEF Flying, FlightsAreNear
  <2> QED
    BY <2>2, <1>1
<1>7. CASE asked = t
  <2> HIDE DEF l, t, L
  <2>1. new[y].fin + Services(l - 1) <= by
    BY <1>1, <1>4, <1>6, <1>7
  <2> QED
    BY <2>1 DEF l
<1>8. ASSUME NEW x \in Flying(mshr), mshr[x].fin + Services(n - 1) <= by
      PROVE  \E z \in Flying(new) : new[z].fin + Services(l - 1) <= by
  <2>1. x \in 1 .. n /\ mshr[x].fin \in Int
    BY <1>1, EntriesHaveTypes DEF Flying
  <2>2. CASE x \notin Due
    <3>1. PICK m \in 1 .. l : at[m] = x
      BY <2>1, <2>2 DEF AfterCycle
    <3>2. m \in Flying(new) /\ new[m].fin = mshr[x].fin
      BY <3>1 DEF AfterCycle
    <3>3. Services(n - 1) \in Nat /\ Services(l - 1) <= Services(n - 1)
      <4>1. CASE l < n
        <5>1. l - 1 < n - 1
          BY <4>1, <1>1, <1>2
        <5>2. Services(n - 1) \in Nat /\ Services(l - 1) + L <= Services(n - 1)
          BY <5>1, <1>4, OneServiceLess
        <5> QED
          BY <5>2, <1>1, <1>4
      <4>2. CASE l = n
        BY <4>2, <1>4
      <4> QED
        BY <4>1, <4>2, <1>1, <1>2
    <3>4. new[m].fin + Services(l - 1) <= by
      <4> HIDE DEF l, n, by
      <4> QED
        BY <3>2, <3>3, <2>1, <1>4, <1>5, <1>8
    <3> QED
      BY <3>2, <3>4
  <2>3. CASE x \in Due
    <3>1. mshr[x].fin = t /\ l < n
      BY <2>3 DEF Due, AfterCycle
    <3>2. l - 1 < n - 1
      BY <3>1, <1>1, <1>2
    <3>3. Services(n - 1) \in Nat /\ Services(l - 1) + L <= Services(n - 1)
      BY <3>2, <1>4, OneServiceLess
    <3> HIDE DEF l, n, by, t, L
    <3>4. t + Services(n - 1) <= by
      BY <3>1, <1>8
    <3>5. new[y].fin + Services(l - 1) <= by
      BY <3>3, <3>4, <1>1, <1>4, <1>5, <1>6
    <3> QED
      BY <3>5
  <2> QED
    BY <2>2, <2>3
<1> QED
  BY <1>1, <1>3, <1>7, <1>8 DEF Drains

\* The queue that finish_request leaves is one after a cycle.
LEMMA RestIsAfterCycle ==
  ASSUME IndInv, run_bit
  PROVE  \E at : AfterCycle(FinishRequest, at)
<1> DEFINE q == FinishRequest
<1>1. mshr \in Seq(Entry) /\ stat_cycles \in Nat
  BY TypesOfState DEF IndInv
<1>2. \A i, j \in Flying(mshr) : i # j => Distance(mshr[i].fin, mshr[j].fin) >= DataLen
  BY DEF IndInv, Flights
<1>3. /\ q \in Seq(Entry) /\ Len(q) <= Len(mshr)
      /\ Due # {} => Len(q) < Len(mshr)
      /\ \E at : IsTheRest(q, at)
  BY <1>1, <1>2, FinishRequestKeepsOthers
<1>4. PICK at : IsTheRest(q, at)
  BY <1>3
<1> HIDE DEF q
<1>5. /\ at \in [1 .. Len(q) -> 1 .. Len(mshr)]
      /\ \A m \in 1 .. Len(q) : q[m] = mshr[at[m]] /\ at[m] \notin Due
      /\ \A i \in 1 .. Len(mshr) : i \notin Due => \E m \in 1 .. Len(q) : at[m] = i
  BY <1>4 DEF IsTheRest
<1>6. ASSUME NEW m \in 1 .. Len(q)
      PROVE  /\ at[m] \in 1 .. Len(mshr) /\ at[m] \notin Due
             /\ q[m].blk = mshr[at[m]].blk /\ q[m].word = mshr[at[m]].word
             /\ at[m] \in Flying(mshr) => m \in Flying(q) /\ q[m].fin = mshr[at[m]].fin
  BY <1>5 DEF Flying
<1>7. AfterCycle(q, at)
  BY <1>3, <1>5, <1>6 DEF AfterCycle
<1> QED
  BY <1>7 DEF q

\* So is the queue that serve_request leaves.
LEMMA ServedIsAfterCycle ==
  ASSUME stat_cycles \in Nat, NEW q \in Seq(Entry), NEW at, AfterCycle(q, at),
         NEW i \in 1 .. Len(q), \A x \in Flying(q) : x # i
  PROVE  AfterCycle(Served(q, i), at)
<1>1. /\ Served(q, i) \in Seq(Entry) /\ Len(Served(q, i)) = Len(q)
      /\ \A l \in 1 .. Len(q) :
           /\ Served(q, i)[l].blk = q[l].blk
           /\ Served(q, i)[l].word = q[l].word
           /\ l # i => Served(q, i)[l].fin = q[l].fin
      /\ Flying(Served(q, i)) = Flying(q) \cup {i}
  BY ServedEntries
<1> QED
  BY <1>1 DEF AfterCycle

\* The requests of a queue that a cycle leaves finish soon.
LEMMA RestIsNear ==
  ASSUME IndInv, run_bit, FlightsAreNear(mshr, stat_cycles)
  PROVE  FlightsAreNear(FinishRequest, stat_cycles + 1)
<1> DEFINE q == FinishRequest
<1>1. mshr \in Seq(Entry) /\ stat_cycles \in Nat /\ LongestService \in Nat
  BY TypesOfState, WaitsOfWords DEF IndInv
<1>2. \A i, j \in Flying(mshr) : i # j => Distance(mshr[i].fin, mshr[j].fin) >= DataLen
  BY DEF IndInv, Flights
<1>3. \E at : IsTheRest(q, at)
  BY <1>1, <1>2, FinishRequestKeepsOthers
<1>4. PICK at : IsTheRest(q, at)
  BY <1>3
<1> HIDE DEF q
<1> SUFFICES ASSUME NEW x \in Flying(q) PROVE q[x].fin < stat_cycles + 1 + LongestService
  BY DEF FlightsAreNear, q
<1>5. q[x] = mshr[at[x]] /\ at[x] \in 1 .. Len(mshr)
  BY <1>4 DEF IsTheRest, Flying
<1>6. at[x] \in Flying(mshr)
  BY <1>5 DEF Flying
<1>7. mshr[at[x]].fin < stat_cycles + LongestService /\ mshr[at[x]].fin \in Int
  BY <1>1, <1>5, <1>6, EntriesHaveTypes DEF FlightsAreNear
<1> QED
  BY <1>1, <1>5, <1>7

LEMMA ServedIsNear ==
  ASSUME stat_cycles \in Nat, NEW q \in Seq(Entry), FlightsAreNear(q, stat_cycles + 1),
         NEW i \in 1 .. Len(q), \A x \in Flying(q) : x # i
  PROVE  FlightsAreNear(Served(q, i), stat_cycles + 1)
<1> DEFINE dc == DataCycle(RowBufferStatus(q[i].blk))
<1>1. /\ \A l \in 1 .. Len(q) :
           Served(q, i)[l].fin = IF l = i THEN dc + DataLen - 1 ELSE q[l].fin
      /\ Flying(Served(q, i)) = Flying(q) \cup {i}
  BY ServedEntries
<1>2. Step \in Nat \ {0} /\ DataLen \in Nat \ {0}
  BY Numbers
<1>3. dc \in Nat /\ dc <= stat_cycles + 3 * Step
  <2>1. RowBufferStatus(q[i].blk) \in {HIT, MISS, CONFLICT}
    BY EntriesHaveTypes, PlaceOfBlock
  <2> QED
    BY <2>1, <1>2, CyclesOfStatus
<1> HIDE DEF dc
<1>4. dc + DataLen - 1 < stat_cycles + 1 + LongestService
  BY <1>2, <1>3 DEF LongestService
<1> QED
  BY <1>1, <1>4 DEF FlightsAreNear, Flying

-----------------------------------------------------------------------------
(* The invariant of the waits.                                             *)

LEMMA InitWaitInv == WInit => WaitInv
<1> SUFFICES ASSUME WInit PROVE WaitInv
  OBVIOUS
<1>1. CInit /\ since = [b \in Blocks |-> 0] /\ asked = 0 /\ mshr = << >> /\ busy = NothingBusy
  BY DEF WInit, CInit, Init
<1>2. BusInv
  BY <1>1, InitBusInv
<1>3. since \in [Blocks -> Nat] /\ asked \in Nat
  BY <1>1
<1>4. Len(mshr) = 0 /\ 1 .. Len(mshr) = {} /\ Flying(mshr) = {}
  BY <1>1 DEF Flying
<1>5. MarksAreOfFlights(mshr, busy, stat_cycles)
  BY <1>1 DEF MarksAreOfFlights, MarkedForFlights, NothingBusy
<1> QED
  BY <1>1, <1>2, <1>3, <1>4, <1>5 DEF WaitInv, FlightsAreNear, Crowded, InTurn, Drains

\* A request changes nothing for those before it, unless it is a third block.
LEMMA RequestKeepsWaitInv ==
  ASSUME WaitInv, NEW b \in Blocks, WRequest(b)
  PROVE  WaitInv'
<1> DEFINE n == Len(mshr)
           t == stat_cycles
<1>1. /\ BusInv /\ IndInv /\ run_bit /\ mshr \in Seq(Entry) /\ t \in Nat /\ n \in Nat
      /\ since \in [Blocks -> Nat] /\ MarksAreOfFlights(mshr, busy, t)
      /\ FlightsAreNear(mshr, t) /\ InTurn(mshr, since, t)
  BY TypesOfState, EntriesHaveTypes DEF WaitInv, BusInv, IndInv, WRequest, CRequest, Request
<1>2. /\ mshr' = Enqueued(mshr, b) /\ busy' = busy /\ stat_cycles' = t /\ run_bit' = run_bit
      /\ since' = [c \in Blocks |-> IF c = b \/ Crowded(mshr') THEN t ELSE since[c]]
      /\ asked' = t
  BY DEF WRequest, CRequest, Request
<1>3. BusInv'
  BY <1>1, RequestKeepsBusInv DEF WRequest
<1>4. since' \in [Blocks -> Nat] /\ asked' \in Nat
  BY <1>1, <1>2
<1>5. /\ mshr' \in Seq(Entry) /\ Len(mshr') = n + BlockWords
      /\ \A i \in 1 .. n : mshr'[i] = mshr[i]
      /\ \A i \in n + 1 .. n + BlockWords : mshr'[i].blk = b
      /\ Flying(mshr') = Flying(mshr)
  BY <1>1, <1>2, EnqueuedEntries
<1>6. \A x \in Flying(mshr) : x \in Flying(mshr') /\ mshr'[x] = mshr[x]
  BY <1>5 DEF Flying
<1>7. MarksAreOfFlights(mshr', busy', t)
  BY <1>1, <1>2, <1>6 DEF MarksAreOfFlights, MarkedForFlights
<1>8. FlightsAreNear(mshr', t)
  BY <1>1, <1>5, <1>6 DEF FlightsAreNear
<1>9. Crowded(mshr') => \A c \in Blocks : since'[c] = t
  BY <1>2
<1>10. InTurn(mshr', since', t)
  <2> SUFFICES ASSUME NEW i \in 1 .. Len(mshr'), since'[mshr'[i].blk] # t
               PROVE  \E x \in Flying(mshr') :
                        NextWordBy(mshr', x, mshr'[i].blk)
                          <= since'[mshr'[i].blk] + LongestWait(mshr'[i].word)
    BY DEF InTurn
  <2>1. mshr'[i].blk \in Blocks
    BY <1>5, EntriesHaveTypes
  <2>2. mshr'[i].blk # b /\ since'[mshr'[i].blk] = since[mshr'[i].blk]
    BY <2>1, <1>2
  <2>3. i \in 1 .. n /\ mshr'[i] = mshr[i]
    BY <2>2, <1>1, <1>5, Numbers
  <2>4. since[mshr[i].blk] # t
    BY <2>2, <2>3
  <2>5. PICK x \in Flying(mshr) :
          NextWordBy(mshr, x, mshr[i].blk) <= since[mshr[i].blk] + LongestWait(mshr[i].word)
    BY <2>3, <2>4, <1>1 DEF InTurn
  <2>6. x \in Flying(mshr') /\ NextWordBy(mshr', x, mshr[i].blk) = NextWordBy(mshr, x, mshr[i].blk)
    BY <1>6 DEF NextWordBy
  <2> QED
    BY <2>2, <2>3, <2>5, <2>6
<1>11. Drains(mshr', asked', t)
  BY <1>2 DEF Drains
<1> QED
  BY <1>2, <1>3, <1>4, <1>7, <1>8, <1>9, <1>10, <1>11 DEF WaitInv

\* A cycle of a running machine leaves a request in flight, if it leaves any.
LEMMA CycleServes ==
  ASSUME WaitInv, WaitingAssumption, Cycle(TRUE)
  PROVE  /\ MarksAreOfFlights(mshr', busy', stat_cycles + 1)
         /\ FlightsAreNear(mshr', stat_cycles + 1)
         /\ mshr' # << >> => Flying(mshr') # {}
         /\ \E at : AfterCycle(mshr', at)
<1> DEFINE q == FinishRequest
           bz == CleanUp(TRUE)
           t == stat_cycles
<1>1. run_bit /\ (Idle(TRUE) \/ Serve(TRUE))
  BY DEF Cycle, Tick
<1>2. /\ IndInv /\ t \in Nat /\ FlightsAreNear(mshr, t)
      /\ MarksAreOfFlights(mshr, busy, t)
  BY <1>1, TypesOfState DEF WaitInv, BusInv, IndInv
<1>3. /\ q \in Seq(Entry)
      /\ bz \in [cmd : Seq(RANGE_T), data : Seq(RANGE_T), bank : [Banks -> Seq(RANGE_T)]]
      /\ Buses(bz, t + 1) /\ Flights(q, bz, row_buffer, t + 1)
  BY <1>1, <1>2, BeforeScheduling
<1>4. MarksAreOfFlights(q, bz, t + 1)
  <2> HIDE DEF bz
  <2>1. /\ bz.cmd \in Seq(RANGE_T) /\ bz.data \in Seq(RANGE_T)
        /\ \A k \in Banks : bz.bank[k] \in Seq(RANGE_T)
    BY <1>3
  <2>2. /\ MarkedForFlights(q, bz.cmd, t, 1)
        /\ MarkedForFlights(q, bz.data, t + 1, 0)
        /\ \A k \in Banks : MarkedForFlights(q, bz.bank[k], t, 1)
    BY <1>1, <1>2, MarksOutlastNoFlight DEF bz
  <2> QED
    BY <2>1, <2>2, <1>2, FewerMarksAhead DEF MarksAreOfFlights
<1>5. FlightsAreNear(q, t + 1)
  BY <1>1, <1>2, RestIsNear
<1>6. PICK at : AfterCycle(q, at)
  BY <1>1, <1>2, RestIsAfterCycle
<1>7. CASE Idle(TRUE)
  <2>1. mshr' = q /\ busy' = bz /\ RequestToServe(q, bz) = {}
    BY <1>7 DEF Idle
  <2>2. q # << >> => Flying(q) # {}
    BY <2>1, <1>1, <1>2, IdleWithoutRequests
  <2> QED
    BY <2>1, <2>2, <1>4, <1>5, <1>6
<1>8. CASE Serve(TRUE)
  <2>1. PICK i \in RequestToServe(q, bz) :
          /\ mshr' = Served(q, i)
          /\ busy' = SetBusyStatus(bz, RowBufferStatus(q[i].blk), GetBank(q[i].blk))
    BY <1>8 DEF Serve, Served
  <2> HIDE DEF q, bz
  <2>2. \A x \in Flying(q) : q[x].fin > 0
    BY <1>3 DEF Flights, HoldsDataBus
  <2>3. i \in 1 .. Len(q) /\ ~(q[i].fin > 0)
    BY <1>3, RequestToServeIsFree
  <2>4. \A x \in Flying(q) : x # i
    BY <2>2, <2>3
  <2>5. MarksAreOfFlights(mshr', busy', t + 1)
    BY <2>1, <2>2, <1>2, <1>3, <1>4, ServeMarksForFlight
  <2>6. FlightsAreNear(mshr', t + 1)
    BY <2>1, <2>3, <2>4, <1>2, <1>3, <1>5, ServedIsNear
  <2>7. Flying(mshr') # {}
    BY <2>1, <2>3, <1>2, <1>3, ServedEntries
  <2>8. AfterCycle(mshr', at)
    BY <2>1, <2>3, <2>4, <1>2, <1>3, <1>6, ServedIsAfterCycle
  <2> QED
    BY <2>5, <2>6, <2>7, <2>8
<1> QED
  BY <1>1, <1>7, <1>8

LEMMA CycleKeepsWaitInv ==
  ASSUME WaitInv, WaitingAssumption, NEW run \in BOOLEAN, WCycle(run)
  PROVE  WaitInv'
<1> DEFINE t == stat_cycles
<1>1. /\ BusInv /\ t \in Nat /\ since \in [Blocks -> Nat] /\ asked \in Nat
  BY TypesOfState DEF WaitInv, BusInv, IndInv
<1>2. /\ run_bit /\ run_bit' = run /\ stat_cycles' = t + 1 /\ CCycle(run) /\ Cycle(run)
      /\ since' = [c \in Blocks |-> IF Crowded(mshr') THEN t + 1 ELSE since[c]]
      /\ asked' = asked
  BY DEF WCycle, CCycle, Cycle, Tick
<1>3. BusInv'
  BY <1>1, <1>2, IdleKeepsBusInv, ServeKeepsBusInv DEF Cycle
<1>4. since' \in [Blocks -> Nat] /\ asked' \in Nat
  BY <1>1, <1>2
<1>5. Crowded(mshr') => \A c \in Blocks : since'[c] = t + 1
  BY <1>2
<1>6. ASSUME run
      PROVE  /\ MarksAreOfFlights(mshr', busy', t + 1)
             /\ FlightsAreNear(mshr', t + 1)
             /\ InTurn(mshr', since', t + 1)
             /\ Drains(mshr', asked', t + 1)
  <2>1. Cycle(TRUE)
    BY <1>2, <1>6
  <2>2. /\ MarksAreOfFlights(mshr', busy', t + 1)
        /\ FlightsAreNear(mshr', t + 1)
        /\ mshr' # << >> => Flying(mshr') # {}
        /\ \E at : AfterCycle(mshr', at)
    BY <2>1, CycleServes
  <2>3. PICK at : AfterCycle(mshr', at)
    BY <2>2
  <2>4. InTurn(mshr', since', t + 1)
    BY <2>2, <2>3, <1>2, CycleKeepsTurns
  <2>5. Drains(mshr', asked', t + 1)
    BY <2>2, <2>3, <1>2, CycleKeepsDraining
  <2> QED
    BY <2>2, <2>4, <2>5
<1> QED
  BY <1>2, <1>3, <1>4, <1>5, <1>6 DEF WaitInv

LEMMA NextKeepsWaitInv == WaitInv /\ [WNext]_wvars => WaitInv'
<1> SUFFICES ASSUME WaitInv, [WNext]_wvars PROVE WaitInv'
  OBVIOUS
<1>1. ASSUME NEW b \in Blocks, WRequest(b) PROVE WaitInv'
  BY <1>1, RequestKeepsWaitInv
<1>2. ASSUME NEW run \in BOOLEAN, WCycle(run) PROVE WaitInv'
  BY <1>2, WaitingAssumption, CycleKeepsWaitInv
<1>3. CASE UNCHANGED wvars
  <2>1. BusInv'
    BY <1>3, NextKeepsBusInv DEF wvars, WaitInv
  <2> QED
    BY <2>1, <1>3 DEF wvars, cvars, vars, WaitInv, MarksAreOfFlights
<1> QED
  BY <1>1, <1>2, <1>3 DEF WNext

\* The marks ahead are of requests in flight, and every word of the queue has its turn.
THEOREM TurnsAreKept == WSpec => []WaitInv
BY InitWaitInv, NextKeepsWaitInv, PTL DEF WSpec

\* No word waits longer than its turn takes, while no third block joins the queue, and
\* without requests the queue is empty in the time a full one takes.
THEOREM WaitsAreBounded == WSpec => []WaitIsBounded
<1>1. ASSUME WaitInv, run_bit, NEW i \in 1 .. Len(mshr)
      PROVE  stat_cycles - since[mshr[i].blk] <= LongestWait(mshr[i].word)
  <2>1. /\ IndInv /\ stat_cycles \in Nat /\ mshr \in Seq(Entry)
        /\ since \in [Blocks -> Nat] /\ InTurn(mshr, since, stat_cycles)
    BY <1>1, TypesOfState DEF WaitInv, BusInv, IndInv
  <2>2. mshr[i].blk \in Blocks /\ mshr[i].word \in 1 .. BlockWords
    BY <2>1, EntriesHaveTypes
  <2>3. LongestWait(mshr[i].word) \in Nat /\ since[mshr[i].blk] \in Nat
    BY <2>1, <2>2, WaitsOfWords
  <2>4. CASE since[mshr[i].blk] = stat_cycles
    BY <2>4, <2>1, <2>3
  <2>5. ASSUME NEW x \in Flying(mshr),
               NextWordBy(mshr, x, mshr[i].blk)
                 <= since[mshr[i].blk] + LongestWait(mshr[i].word)
        PROVE  stat_cycles - since[mshr[i].blk] <= LongestWait(mshr[i].word)
    <3>1. x \in 1 .. Len(mshr)
      BY DEF Flying
    <3>2. mshr[x].fin \in Int /\ mshr[x].fin >= stat_cycles /\ mshr[x].word \in 1 .. BlockWords
      BY <3>1, <1>1, <2>1, EntriesHaveTypes DEF IndInv, Flights, HoldsDataBus
    <3>3. Services(BlockWords - mshr[x].word + 1) \in Nat
      BY <3>2, WaitsOfWords
    <3>4. /\ NextWordBy(mshr, x, mshr[i].blk) \in Int
          /\ stat_cycles <= NextWordBy(mshr, x, mshr[i].blk)
      BY <3>2, <3>3, <2>1 DEF NextWordBy
    <3> QED
      BY <3>4, <2>1, <2>3, <2>5
  <2> QED
    BY <2>1, <2>4, <2>5 DEF InTurn
<1>2. ASSUME WaitInv, run_bit, mshr # << >>
      PROVE  stat_cycles - asked <= Services(MshrSize)
  <2> DEFINE t == stat_cycles
             rest == Services(Len(mshr) - 1)
  <2>1. /\ IndInv /\ t \in Nat /\ mshr \in Seq(Entry) /\ asked \in Nat
        /\ MshrSize \in Nat /\ Len(mshr) <= MshrSize /\ Drains(mshr, asked, t)
    BY <1>2, TypesOfState, Numbers DEF WaitInv, BusInv, IndInv, TypeOK
  <2>2. Len(mshr) - 1 \in Nat /\ Len(mshr) - 1 < MshrSize
    BY <2>1, <1>2
  <2>3. rest \in Nat /\ Services(MshrSize) \in Nat
    BY <2>1, <2>2, OneServiceLess
  <2>4. CASE asked = t
    BY <2>1, <2>3, <2>4
  <2>5. ASSUME NEW x \in Flying(mshr), mshr[x].fin + rest <= asked + Services(MshrSize)
        PROVE  t - asked <= Services(MshrSize)
    <3>1. x \in 1 .. Len(mshr)
      BY DEF Flying
    <3>2. mshr[x].fin \in Int /\ mshr[x].fin >= t
      BY <3>1, <1>2, <2>1, EntriesHaveTypes DEF IndInv, Flights, HoldsDataBus
    <3> HIDE DEF rest, t
    <3> QED
      BY <3>2, <2>1, <2>3, <2>5
  <2> QED
    BY <2>1, <2>4, <2>5, <1>2 DEF Drains
<1>3. WaitInv => WaitIsBounded
  BY <1>1, <1>2 DEF WaitIsBounded
<1> QED
  BY <1>3, TurnsAreKept, PTL

\* The controller is never idle while a request waits.
THEOREM ControllerServesAlways == WSpec => AlwaysServing
<1> DEFINE Serving == run_bit' /\ stat_cycles' # stat_cycles /\ mshr' # << >> => InFlight' # {}
<1>1. ASSUME WaitInv, [WNext]_wvars PROVE Serving
  <2> SUFFICES ASSUME run_bit', stat_cycles' # stat_cycles, mshr' # << >>
               PROVE  InFlight' # {}
    OBVIOUS
  <2>1. InFlight = Flying(mshr)
    BY DEF InFlight, Flying
  <2>2. ~(\E b \in Blocks : WRequest(b)) /\ ~UNCHANGED wvars
    BY DEF WRequest, CRequest, Request, wvars, cvars, vars
  <2>3. PICK run \in BOOLEAN : WCycle(run)
    BY <2>2, <1>1 DEF WNext
  <2>4. Cycle(run) /\ run_bit' = run
    BY <2>3 DEF WCycle, CCycle, Cycle, Tick
  <2>5. Cycle(TRUE)
    BY <2>4
  <2>6. Flying(mshr') # {}
    BY <2>5, <1>1, WaitingAssumption, CycleServes
  <2> QED
    BY <2>6 DEF InFlight, Flying
<1>2. WaitInv /\ [WNext]_wvars => [Serving]_wvars
  BY <1>1
<1> QED
  BY <1>2, TurnsAreKept, PTL DEF WSpec, AlwaysServing
=============================================================================
