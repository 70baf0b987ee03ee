---------------------------- MODULE PaFifoProofs ----------------------------
(***************************************************************************)
(* For every number of buffers and every callback size the rings stay      *)
(* consistent and a stream loses at most one block.  The invariant is a    *)
(* balance: with input and output, what lies in the two rings plus what    *)
(* the callback is carrying from one to the other is the ring size, minus  *)
(* what was lost, plus the block for which Pd has yet to read its input.   *)
(*                                                                         *)
(* Each of the two rings implements the abstract queue of BlockQueue, and  *)
(* the copies of the two threads never overlap.  The queue is the window   *)
(* of the buffer from the read index on; the elements a writer is granted  *)
(* lie outside the window, because the indices, which run modulo twice the *)
(* size, differ by at most the size.                                       *)
(***************************************************************************)
EXTENDS PaFifo, SequenceTheorems, TLAPS

\* A ring holds at least the blocks of one callback.
LEMMA SizeFacts == N \in Nat /\ N >= PERCALL /\ PERCALL \in Nat \ {0}
<1>1. NBUFFERS \in Nat /\ NBUFFERS >= 1 /\ PERCALL \in Nat /\ PERCALL >= 1
    BY PaFifoAssumption
<1>2. NBUFFERS * PERCALL \in Nat /\ NBUFFERS * PERCALL >= PERCALL
    BY <1>1
<1> QED BY <1>1, <1>2 DEF N

\* The distance between two indices of a ring of size n.
Filled(n, r, w) == IF w - r < 0 THEN w - r + 2 * n ELSE w - r

\* What the sender has promised or not yet collected ...
Owed == IF pd = "writing" THEN 1 - pd_n ELSE IF pd \in {"wait", "reading"} THEN 1 ELSE 0
\* ... and what the callback is carrying.
Carried == IF cb = "record" THEN PERCALL ELSE IF cb = "recording" THEN cb_n ELSE 0

ro == Filled(N, out_r, out_w)
ri == Filled(N, in_r, in_w)

Types ==
    /\ mode \in {"both", "in", "out"} /\ mode \in Modes
    /\ out_r \in 0 .. 2 * N - 1 /\ out_w \in 0 .. 2 * N - 1 /\ ro \in 0 .. N
    /\ in_r \in 0 .. 2 * N - 1 /\ in_w \in 0 .. 2 * N - 1 /\ ri \in 0 .. N
    /\ pd \in {"top", "room", "write", "writing", "wait", "reading"} /\ pd_n \in {0, 1}
    /\ cb \in {"idle", "playing", "record", "recording"} /\ cb_n \in 0 .. PERCALL
    /\ sent \in 0 .. MaxSends /\ caught \in Nat /\ lost \in Nat
Flags == pa_started \in BOOLEAN /\ pa_dio_error \in BOOLEAN

\* A region once granted stays free, or stays filled, until it is used: the
\* other side only ever makes more of it.
Granted ==
    /\ pd = "writing" => ro + pd_n <= N
    /\ pd = "reading" => ri >= 1 /\ pd_n = 1
    /\ cb = "playing" => ro >= PERCALL /\ cb_n = PERCALL
    /\ cb = "recording" => ri + cb_n <= N

\* Each mode passes through its own places.
Places ==
    /\ mode = "out" => pd \notin {"wait", "reading"} /\ cb \notin {"record", "recording"}
    /\ mode # "out" => pd # "room"
    /\ mode = "in" => pd # "writing" /\ cb # "playing"

Balance ==
    /\ mode = "both" => ri + ro + Carried = N - lost + Owed /\ lost <= 1
    /\ mode = "out" => lost = 0 /\ (pd = "write" => ro < N) /\ (pd = "writing" => pd_n = 1)

IInv == Types /\ Flags /\ Granted /\ Places /\ Balance

\* Moving an index by a granted number of elements changes the filling by as much.
LEMMA WriteMoves ==
    ASSUME NEW n \in Nat, NEW r \in 0 .. 2 * n - 1, NEW w \in 0 .. 2 * n - 1,
           Filled(n, r, w) \in 0 .. n, NEW k \in Nat, Filled(n, r, w) + k <= n,
           NEW v, v = IF w + k >= 2 * n THEN w + k - 2 * n ELSE w + k
    PROVE  v \in 0 .. 2 * n - 1 /\ Filled(n, r, v) = Filled(n, r, w) + k
    BY DEF Filled

\* The same for the index of the reading side.
LEMMA ReadMoves ==
    ASSUME NEW n \in Nat, NEW r \in 0 .. 2 * n - 1, NEW w \in 0 .. 2 * n - 1,
           Filled(n, r, w) \in 0 .. n, NEW k \in Nat, k <= Filled(n, r, w),
           NEW q, q = IF r + k >= 2 * n THEN r + k - 2 * n ELSE r + k
    PROVE  q \in 0 .. 2 * n - 1 /\ Filled(n, q, w) = Filled(n, r, w) - k
    BY DEF Filled

\* sys_ringbuf_GetReadAvailable is the filling.
LEMMA Fillings == Out!GetReadAvailable = ro /\ In!GetReadAvailable = ri
    BY DEF Out!GetReadAvailable, In!GetReadAvailable, ro, ri, Filled

\* The invariant implies the properties that the runs check.
LEMMA IInvImplies == IInv => TypeOK /\ LosesAtMostOne
<1> SUFFICES ASSUME IInv PROVE TypeOK /\ LosesAtMostOne
    OBVIOUS
<1>1. Out!Consistent /\ In!Consistent
    BY Fillings DEF IInv, Types, Out!Consistent, In!Consistent
<1>2. TypeOK
    BY <1>1 DEF IInv, Types, Flags, TypeOK
<1>3. LosesAtMostOne
    BY DEF IInv, Balance, LosesAtMostOne
<1> QED BY <1>2, <1>3

\* pa_open_audio establishes the invariant: N blocks of silence, and nothing owed.
LEMMA InitIInv == Init => IInv
<1> SUFFICES ASSUME Init PROVE IInv
    OBVIOUS
<1> USE SizeFacts, PaFifoAssumption
<1>0. N \in Nat /\ N > 0
    OBVIOUS
<1>1. out_r = 0 /\ out_w = 0 /\ in_r = 0 /\ in_w = N
    BY DEF Init, Out!Init, In!Init
<1>2. ro = 0 /\ ri = N
    BY <1>0, <1>1 DEF ro, ri, Filled
<1>3. Types
    BY <1>0, <1>1, <1>2 DEF Init, Types
<1>4. Flags
    BY DEF Init, Flags
<1>5. Granted /\ Places /\ Balance
    BY <1>0, <1>2 DEF Init, Granted, Places, Balance, Owed, Carried
<1> QED BY <1>3, <1>4, <1>5 DEF IInv

\* A step of one side moves its own index only, by what it was granted.
LEMMA OutMoves ==
    ASSUME IInv
    PROVE  /\ \A k \in Nat : (ro + k <= N /\ out_w' = Out!Advance(out_w, k) /\ out_r' = out_r)
                 => out_w' \in 0 .. 2 * N - 1 /\ ro' = ro + k
           /\ \A k \in Nat : (k <= ro /\ out_r' = Out!Advance(out_r, k) /\ out_w' = out_w)
                 => out_r' \in 0 .. 2 * N - 1 /\ ro' = ro - k
<1> USE SizeFacts DEF IInv, Types, Out!Advance, ro
<1>1. ASSUME NEW k \in Nat, ro + k <= N, out_w' = Out!Advance(out_w, k), out_r' = out_r
      PROVE  out_w' \in 0 .. 2 * N - 1 /\ Filled(N, out_r, out_w') = ro + k
    BY <1>1, WriteMoves
<1>2. ASSUME NEW k \in Nat, k <= ro, out_r' = Out!Advance(out_r, k), out_w' = out_w
      PROVE  out_r' \in 0 .. 2 * N - 1 /\ Filled(N, out_r', out_w) = ro - k
    BY <1>2, ReadMoves
<1> QED BY <1>1, <1>2 DEF Filled, N

\* The same for the input ring.
LEMMA InMoves ==
    ASSUME IInv
    PROVE  /\ \A k \in Nat : (ri + k <= N /\ in_w' = In!Advance(in_w, k) /\ in_r' = in_r)
                 => in_w' \in 0 .. 2 * N - 1 /\ ri' = ri + k
           /\ \A k \in Nat : (k <= ri /\ in_r' = In!Advance(in_r, k) /\ in_w' = in_w)
                 => in_r' \in 0 .. 2 * N - 1 /\ ri' = ri - k
<1> USE SizeFacts DEF IInv, Types, In!Advance, ri
<1>1. ASSUME NEW k \in Nat, ri + k <= N, in_w' = In!Advance(in_w, k), in_r' = in_r
      PROVE  in_w' \in 0 .. 2 * N - 1 /\ Filled(N, in_r, in_w') = ri + k
    BY <1>1, WriteMoves
<1>2. ASSUME NEW k \in Nat, k <= ri, in_r' = In!Advance(in_r, k), in_w' = in_w
      PROVE  in_r' \in 0 .. 2 * N - 1 /\ Filled(N, in_r', in_w) = ri - k
    BY <1>2, ReadMoves
<1> QED BY <1>1, <1>2 DEF Filled, N

\* Every step of pa_send_dacs and of pa_fifo_callback keeps the invariant.
LEMMA NextIInv == IInv /\ [Next]_vars => IInv'
<1> SUFFICES ASSUME IInv, [Next]_vars PROVE IInv'
    OBVIOUS
<1> USE SizeFacts, PaFifoAssumption
<1>1. CASE SendEnter
  <2>1. ro' = ro /\ ri' = ri
    BY <1>1 DEF SendEnter, ro, ri, inVars, outVars
  <2>2. Types'
    BY <1>1, <2>1 DEF SendEnter, Types, IInv, inVars, outVars, inchannels
  <2>5. Flags'
    BY <1>1, Zenon DEF SendEnter, Flags, IInv
  <2>3. Granted' /\ Places'
    BY <1>1, <2>1, Fillings DEF SendEnter, Types, Granted, Places, IInv, inchannels, outchannels
  <2>4. Balance'
    BY <1>1, <2>1, Fillings DEF SendEnter, Types, Granted, Places, Balance, Owed, Carried, IInv,
         inchannels, outchannels
  <2> QED BY <2>2, <2>3, <2>4, <2>5 DEF IInv
<1>2. CASE SendRoom
  <2>1. ro' = ro /\ ri' = ri
    BY <1>2 DEF SendRoom, ro, ri, inVars, outVars
  <2>2. Types' /\ Flags'
    BY <1>2, <2>1, Fillings DEF SendRoom, Types, Flags, Granted, IInv, inVars, outVars,
         Out!GetWriteAvailable
  <2>3. Granted' /\ Places'
    BY <1>2, <2>1, Fillings DEF SendRoom, Types, Granted, Places, IInv, inchannels,
         outchannels, Out!GetWriteAvailable
  <2>4. Balance'
    BY <1>2, <2>1, Fillings DEF SendRoom, Types, Granted, Places, Balance, Owed, Carried, IInv,
         inchannels, outchannels, Out!GetWriteAvailable
  <2> QED BY <2>2, <2>3, <2>4 DEF IInv
<1>3. CASE SendWriteRegions
  <2>1. ro' = ro /\ ri' = ri
    BY <1>3 DEF SendWriteRegions, ro, ri, inVars, outVars
  <2>2. Types' /\ Flags'
    BY <1>3, <2>1, Fillings DEF SendWriteRegions, Types, Flags, Granted, IInv, inVars,
         outVars, Out!WriteRegions, Out!GetWriteAvailable
  <2>3. Granted' /\ Places'
    BY <1>3, <2>1, Fillings DEF SendWriteRegions, Types, Granted, Places, IInv, inchannels,
         outchannels, Out!WriteRegions, Out!GetWriteAvailable
  <2>4. Balance'
    BY <1>3, <2>1, Fillings DEF SendWriteRegions, Types, Granted, Places, Balance, Owed,
         Carried, IInv,
         inchannels, outchannels, Out!WriteRegions, Out!GetWriteAvailable
  <2> QED BY <2>2, <2>3, <2>4 DEF IInv
<1>4. CASE SendWrite
  <2>1. ro' = ro + pd_n /\ out_w' \in 0 .. 2 * N - 1 /\ out_r' = out_r /\ ri' = ri
    BY <1>4, OutMoves DEF SendWrite, Out!Write, ro, ri, inVars, outVars, IInv, Types, Granted
  <2>2. Types' /\ Flags'
    BY <1>4, <2>1, Fillings DEF SendWrite, Types, Flags, Granted, IInv, inVars, outVars
  <2>3. Granted' /\ Places'
    BY <1>4, <2>1, Fillings DEF SendWrite, Types, Granted, Places, IInv, inchannels, outchannels
  <2>4. Balance'
    BY <1>4, <2>1, Fillings DEF SendWrite, Types, Granted, Places, Balance, Owed, Carried, IInv,
         inchannels, outchannels
  <2> QED BY <2>2, <2>3, <2>4 DEF IInv
<1>5. CASE SendWait
  <2>1. ro' = ro /\ ri' = ri
    BY <1>5 DEF SendWait, ro, ri, inVars, outVars
  <2>2. Types' /\ Flags'
    BY <1>5, <2>1, Fillings DEF SendWait, Types, Flags, Granted, IInv, inVars, outVars,
         In!ReadRegions
  <2>3. Granted' /\ Places'
    BY <1>5, <2>1, Fillings DEF SendWait, Types, Granted, Places, IInv, inchannels,
         outchannels, In!ReadRegions
  <2>4. Balance'
    BY <1>5, <2>1, Fillings DEF SendWait, Types, Granted, Places, Balance, Owed, Carried, IInv,
         inchannels, outchannels, In!ReadRegions
  <2> QED BY <2>2, <2>3, <2>4 DEF IInv
<1>6. CASE SendRead
  <2>1. ri' = ri - pd_n /\ in_r' \in 0 .. 2 * N - 1 /\ in_w' = in_w /\ ro' = ro
    BY <1>6, InMoves DEF SendRead, In!Read, ro, ri, inVars, outVars, IInv, Types, Granted
  <2>2. Types' /\ Flags'
    BY <1>6, <2>1, Fillings DEF SendRead, Types, Flags, Granted, IInv, inVars, outVars
  <2>3. Granted' /\ Places'
    BY <1>6, <2>1, Fillings DEF SendRead, Types, Granted, Places, IInv, inchannels, outchannels
  <2>4. Balance'
    BY <1>6, <2>1, Fillings DEF SendRead, Types, Granted, Places, Balance, Owed, Carried, IInv,
         inchannels, outchannels
  <2> QED BY <2>2, <2>3, <2>4 DEF IInv
<1>7. CASE CallbackEnter
  <2>1. ro' = ro /\ ri' = ri
    BY <1>7 DEF CallbackEnter, ro, ri, inVars, outVars
  <2>2. Types' /\ Flags'
    BY <1>7, <2>1, Fillings DEF CallbackEnter, Types, Flags, Granted, IInv, inVars,
         outVars, Enough, Out!ReadRegions
  <2>3. Granted' /\ Places'
    BY <1>7, <2>1, Fillings DEF CallbackEnter, Types, Granted, Places, IInv, inchannels,
         outchannels, Enough, Out!ReadRegions
  <2>4. Balance'
    BY <1>7, <2>1, Fillings DEF CallbackEnter, Types, Granted, Places, Balance, Owed,
         Carried, IInv,
         inchannels, outchannels, Enough, Out!ReadRegions
  <2> QED BY <2>2, <2>3, <2>4 DEF IInv
<1>8. CASE CallbackUnderrun
  <2>1. ro' = ro /\ ri' = ri
    BY <1>8 DEF CallbackUnderrun, ro, ri, inVars, outVars
  <2>2. Types' /\ Flags'
    BY <1>8, <2>1, Fillings DEF CallbackUnderrun, Types, Flags, Granted, IInv, inVars,
         outVars, Enough
  <2>3. Granted' /\ Places'
    BY <1>8, <2>1, Fillings DEF CallbackUnderrun, Types, Granted, Places, IInv, inchannels,
         outchannels, Enough
  <2>4. Balance'
    BY <1>8, <2>1, Fillings DEF CallbackUnderrun, Types, Granted, Places, Balance, Owed,
         Carried, IInv,
         inchannels, outchannels, Enough
  <2> QED BY <2>2, <2>3, <2>4 DEF IInv
<1>9. CASE CallbackPlay
  <2>1. ro' = ro - cb_n /\ out_r' \in 0 .. 2 * N - 1 /\ out_w' = out_w /\ ri' = ri
    BY <1>9, OutMoves DEF CallbackPlay, Out!Read, ro, ri, inVars, outVars, IInv, Types, Granted
  <2>2. Types' /\ Flags'
    BY <1>9, <2>1, Fillings DEF CallbackPlay, Types, Flags, Granted, IInv, inVars, outVars
  <2>3. Granted' /\ Places'
    BY <1>9, <2>1, Fillings DEF CallbackPlay, Types, Granted, Places, IInv, inchannels,
         outchannels
  <2>4. Balance'
    BY <1>9, <2>1, Fillings DEF CallbackPlay, Types, Granted, Places, Balance, Owed,
         Carried, IInv,
         inchannels, outchannels
  <2> QED BY <2>2, <2>3, <2>4 DEF IInv
<1>10. CASE CallbackRecordRegions
  <2>1. ro' = ro /\ ri' = ri
    BY <1>10 DEF CallbackRecordRegions, ro, ri, inVars, outVars
  <2>2. Types' /\ Flags'
    BY <1>10, <2>1, Fillings DEF CallbackRecordRegions, Types, Flags, Granted, IInv,
         inVars, outVars, In!WriteRegions, In!GetWriteAvailable
  <2>3. Granted' /\ Places'
    BY <1>10, <2>1, Fillings DEF CallbackRecordRegions, Types, Granted, Places, IInv,
         inchannels, outchannels, In!WriteRegions, In!GetWriteAvailable
  <2>4. Balance'
    BY <1>10, <2>1, Fillings DEF CallbackRecordRegions, Types, Granted, Places, Balance,
         Owed, Carried, IInv,
         inchannels, outchannels, In!WriteRegions, In!GetWriteAvailable
  <2> QED BY <2>2, <2>3, <2>4 DEF IInv
<1>11. CASE CallbackRecord
  <2>0. /\ cb = "recording" /\ cb' = "idle" /\ cb_n' = 0 /\ caught' = caught + PERCALL
        /\ in_w' = In!Advance(in_w, cb_n) /\ in_r' = in_r
        /\ UNCHANGED <<mode, out_r, out_w, pd, pd_n, pa_started, pa_dio_error, sent, lost>>
    BY <1>11, Zenon DEF CallbackRecord, In!Write, outVars
  <2>1. ri' = ri + cb_n /\ in_w' \in 0 .. 2 * N - 1 /\ ro' = ro
    BY <2>0, InMoves DEF ro, IInv, Types, Granted
  <2>2. Types' /\ Flags'
    BY <2>0, <2>1 DEF Types, Flags, Granted, IInv
  <2>3. Granted' /\ Places'
    BY <2>0, <2>1 DEF Types, Granted, Places, IInv
  <2>4. Balance'
    BY <2>0, <2>1 DEF Types, Granted, Places, Balance, Owed, Carried, IInv
  <2> QED BY <2>2, <2>3, <2>4 DEF IInv
<1>12. CASE UNCHANGED vars
    BY <1>12 DEF vars, IInv, Types, Flags, Granted, Places, Balance, Owed, Carried, ro, ri
<1> QED
    BY <1>1, <1>2, <1>3, <1>4, <1>5, <1>6, <1>7, <1>8, <1>9, <1>10, <1>11, <1>12 DEF Next,
         pa_send_dacs, pa_fifo_callback

\* The invariant holds throughout every behaviour.
LEMMA Invariance == Spec => []IInv
<1> QED BY InitIInv, NextIInv, PTL DEF Spec

\* The rings always pass the consistency check of sys_ringbuf_GetReadAvailable,
\* whatever the ring and callback sizes and the interleaving.
THEOREM RingsConsistent == Spec => []TypeOK
<1> QED BY Invariance, IInvImplies, PTL

\* A stream that has output never loses more than one block: pa_send_dacs and
\* pa_fifo_callback give back, with every block, the room they took.
THEOREM AtMostOneLost == Spec => []LosesAtMostOne
<1> QED BY Invariance, IInvImplies, PTL

-----------------------------------------------------------------------------
(* Sequences of integers.                                                  *)

\* A sequence of m integers.
IsSeq(s, m) == s \in Seq(Int) /\ Len(s) = m

\* Two sequences joined.
Joined(s, t) == s \o t

\* What \o does to sequences of f and of k elements.
LEMMA ConcatLengths ==
    ASSUME NEW f \in Nat, NEW k \in Nat, NEW s, IsSeq(s, f), NEW t, IsSeq(t, k)
    PROVE  /\ IsSeq(Joined(s, t), f + k)
           /\ \A j \in 1 .. f + k : Joined(s, t)[j] = IF j <= f THEN s[j] ELSE t[j - f]
<1>1. s \in Seq(Int) /\ t \in Seq(Int) /\ Len(s) = f /\ Len(t) = k
    BY DEF IsSeq
<1>2. /\ s \o t \in Seq(Int) /\ Len(s \o t) = f + k
      /\ \A j \in 1 .. f + k : (s \o t)[j] = IF j <= f THEN s[j] ELSE t[j - f]
  <2> SUFFICES ASSUME NEW a \in Seq(Int), NEW b \in Seq(Int), Len(a) = f, Len(b) = k
               PROVE  /\ a \o b \in Seq(Int) /\ Len(a \o b) = f + k
                      /\ \A j \in 1 .. f + k : (a \o b)[j] = IF j <= f THEN a[j] ELSE b[j - f]
    BY <1>1, Zenon
  <2> QED BY ConcatProperties
<1> QED BY <1>2 DEF IsSeq, Joined

\* A sequence that agrees with one sequence first and then with another is both joined.
LEMMA ConcatIs ==
    ASSUME NEW f \in Nat, NEW k \in Nat,
           NEW s, IsSeq(s, f), NEW t, IsSeq(t, k), NEW u, IsSeq(u, f + k),
           \A j \in 1 .. f : u[j] = s[j], \A j \in 1 .. k : u[f + j] = t[j]
    PROVE  u = Joined(s, t)
<1> DEFINE v == Joined(s, t)
<1>1. /\ IsSeq(v, f + k)
      /\ \A j \in 1 .. f + k : v[j] = IF j <= f THEN s[j] ELSE t[j - f]
    BY ConcatLengths
<1> HIDE DEF v
<1>2. ASSUME NEW j \in 1 .. f + k PROVE u[j] = v[j]
  <2>1. CASE j <= f
    BY <1>1, <2>1
  <2>2. CASE j > f
    <3>1. j - f \in 1 .. k /\ f + (j - f) = j
      BY <2>2
    <3>2. u[f + (j - f)] = t[j - f]
      BY <3>1
    <3>3. u[j] = t[j - f]
      BY <3>1, <3>2
    <3>4. v[j] = t[j - f]
      BY <1>1, <2>2
    <3> QED BY <3>3, <3>4
  <2> QED BY <2>1, <2>2
<1>3. u = v
    BY <1>1, <1>2, SeqEqual DEF IsSeq
<1> QED BY <1>3 DEF v

\* What SubSeq does to a sequence of f elements when it drops the first k.
LEMMA DropProperties ==
    ASSUME NEW f \in Nat, NEW k \in 0 .. f, NEW s \in Seq(Int), Len(s) = f
    PROVE  /\ SubSeq(s, k + 1, f) \in Seq(Int) /\ Len(SubSeq(s, k + 1, f)) = f - k
           /\ \A j \in 1 .. f - k : SubSeq(s, k + 1, f)[j] = s[k + j]
<1>1. SubSeq(s, k + 1, f) \in Seq(Int) /\ Len(SubSeq(s, k + 1, f)) = f - k
    OBVIOUS
<1>2. \A j \in 1 .. f - k : SubSeq(s, k + 1, f)[j] = s[k + j]
    OBVIOUS
<1> QED BY <1>1, <1>2

\* A sequence that agrees with another from its k + 1st element on is its tail.
LEMMA DropIs ==
    ASSUME NEW f \in Nat, NEW k \in 0 .. f, NEW s, IsSeq(s, f), NEW u, IsSeq(u, f - k),
           \A j \in 1 .. f - k : u[j] = s[k + j]
    PROVE  u = SubSeq(s, k + 1, f)
<1> DEFINE sub == SubSeq(s, k + 1, f)
<1>1. /\ sub \in Seq(Int) /\ Len(sub) = f - k
      /\ \A j \in 1 .. f - k : sub[j] = s[k + j]
    BY DropProperties DEF IsSeq
<1> HIDE DEF sub
<1>2. u = sub
    BY <1>1, SeqEqual DEF IsSeq
<1> QED BY <1>2 DEF sub

-----------------------------------------------------------------------------
(* Slots.                                                                  *)

\* The slot of an index.
Slot(n, x) == x % n

\* What the proofs need to know of it, up to three times the size.
IsSlot(n, x, a) ==
    /\ a \in 0 .. n - 1
    /\ x < n => a = x
    /\ (x >= n /\ x < 2 * n) => a = x - n
    /\ (x >= 2 * n /\ x < 3 * n) => a = x - 2 * n

\* A ring of n elements, f of them filled.
RingAt(n, r, w, f) ==
    /\ n \in Nat \ {0} /\ r \in 0 .. 2 * n - 1 /\ w \in 0 .. 2 * n - 1
    /\ f \in 0 .. n /\ f = Filled(n, r, w)

\* The remainder is such a slot.
LEMMA SlotOf ==
    ASSUME NEW n \in Nat \ {0}, NEW x \in Nat
    PROVE  Slot(n, x) \in 0 .. n - 1 /\ IsSlot(n, x, Slot(n, x))
<1>1. x % n \in 0 .. n - 1 /\ x = n * (x \div n) + (x % n) /\ x \div n \in Int
    OBVIOUS
<1>2. x < n => x % n = x
    OBVIOUS
<1>3. (x >= n /\ x < 2 * n) => x % n = x - n
    OBVIOUS
<1>4. ASSUME x >= 2 * n, x < 3 * n PROVE x % n = x - 2 * n
  <2>1. x \div n = 2
    BY <1>1, <1>4
  <2> QED BY <1>1, <2>1
<1> QED BY <1>1, <1>2, <1>3, <1>4 DEF IsSlot, Slot

\* Linear arithmetic on slots: what is behind the filling is apart from what is before it.
LEMMA SlotsApart ==
    ASSUME NEW n, NEW r, NEW w, NEW f, RingAt(n, r, w, f),
           NEW i \in Nat, f + i < n, NEW j \in Nat, j < f + i,
           NEW a, IsSlot(n, w + i, a), NEW b, IsSlot(n, r + j, b)
    PROVE  a # b
    BY DEF Filled, IsSlot, RingAt

\* The i-th element behind the filling lies in another slot than all before it.
LEMMA Apart ==
    ASSUME NEW n, NEW r, NEW w, NEW f, RingAt(n, r, w, f),
           NEW i \in Nat, f + i < n, NEW j \in Nat, j < f + i
    PROVE  Slot(n, w + i) # Slot(n, r + j)
<1>1. w + i \in Nat /\ r + j \in Nat /\ n \in Nat \ {0}
    BY DEF RingAt
<1>2. IsSlot(n, w + i, Slot(n, w + i)) /\ IsSlot(n, r + j, Slot(n, r + j))
    BY <1>1, SlotOf
<1> QED BY <1>2, SlotsApart

\* Linear arithmetic again: the i-th element behind the filling follows the window.
LEMMA SlotsAdjacent ==
    ASSUME NEW n, NEW r, NEW w, NEW f, RingAt(n, r, w, f), NEW i \in Nat, f + i < n,
           NEW a, IsSlot(n, w + i, a), NEW b, IsSlot(n, r + (f + i), b)
    PROVE  a = b
    BY DEF Filled, IsSlot, RingAt

\* The i-th element behind the filling follows the window.
LEMMA Adjacent ==
    ASSUME NEW n, NEW r, NEW w, NEW f, RingAt(n, r, w, f), NEW i \in Nat, f + i < n
    PROVE  Slot(n, w + i) = Slot(n, r + (f + i))
<1>1. w + i \in Nat /\ r + (f + i) \in Nat /\ n \in Nat \ {0}
    BY DEF RingAt
<1>2. IsSlot(n, w + i, Slot(n, w + i)) /\ IsSlot(n, r + (f + i), Slot(n, r + (f + i)))
    BY <1>1, SlotOf
<1> QED BY <1>2, SlotsAdjacent

\* The elements behind the filling lie in different slots.
LEMMA Distinct ==
    ASSUME NEW n, NEW r, NEW w, NEW f, RingAt(n, r, w, f),
           NEW x \in Nat, NEW y \in Nat, x < y, f + y < n
    PROVE  Slot(n, w + x) # Slot(n, w + y)
<1>1. f \in Nat /\ n \in Nat /\ f + x < n /\ f + x \in Nat /\ f + x < f + y
    BY DEF RingAt
<1>2. Slot(n, w + x) = Slot(n, r + (f + x))
    BY <1>1, Adjacent
<1>3. Slot(n, w + y) # Slot(n, r + (f + x))
    BY <1>1, Apart
<1> QED BY <1>2, <1>3

\* q is the read index r advanced over k elements.
Moved(n, r, k, q) ==
    /\ n \in Nat \ {0} /\ r \in 0 .. 2 * n - 1 /\ k \in 0 .. n
    /\ q = IF r + k >= 2 * n THEN r + k - 2 * n ELSE r + k

\* A read index that has advanced over k elements points where it should.
LEMMA Advanced ==
    ASSUME NEW n, NEW r, NEW k, NEW q, Moved(n, r, k, q), NEW j \in Nat, k + j < n
    PROVE  Slot(n, q + j) = Slot(n, r + (k + j))
<1>1. q + j \in Nat /\ r + (k + j) \in Nat /\ n \in Nat \ {0}
    BY DEF Moved
<1>2. IsSlot(n, q + j, Slot(n, q + j)) /\ IsSlot(n, r + (k + j), Slot(n, r + (k + j)))
    BY <1>1, SlotOf
<1>3. ASSUME NEW a, IsSlot(n, q + j, a), NEW b, IsSlot(n, r + (k + j), b) PROVE a = b
    BY <1>3 DEF IsSlot, Moved
<1> QED BY <1>2, <1>3

-----------------------------------------------------------------------------
(* Windows.                                                                *)

\* The elements of a ring are integers.
IsRing(n, buf) == buf \in [0 .. n - 1 -> Int]

\* The f elements of a ring of n elements from index r on.
Window(n, r, f, buf) == [j \in 1 .. f |-> buf[Slot(n, r + j - 1)]]

\* k blocks with consecutive numbers.
Numbered(base, k) == [j \in 1 .. k |-> base + j]

\* data begins with such blocks.
IsNumbered(data, base, k) == base \in Int /\ \A j \in 1 .. k : data[j] = base + j

\* A buffer into which k elements of data were copied from index w on.
Stored(n, w, k, data, buf) ==
    [s \in 0 .. n - 1 |->
        IF \E i \in 0 .. k - 1 : Slot(n, w + i) = s
        THEN data[(CHOOSE i \in 0 .. k - 1 : Slot(n, w + i) = s) + 1]
        ELSE buf[s]]

\* A window is a sequence of integers.
LEMMA WindowSeq ==
    ASSUME NEW n \in Nat \ {0}, NEW r \in Nat, NEW f \in Nat, NEW buf, IsRing(n, buf)
    PROVE  IsSeq(Window(n, r, f, buf), f)
<1>1. \A j \in 1 .. f : r + j - 1 \in Nat
    OBVIOUS
<1>2. \A j \in 1 .. f : buf[Slot(n, r + j - 1)] \in Int
    BY <1>1, SlotOf DEF IsRing
<1>3. Window(n, r, f, buf) \in [1 .. f -> Int]
    BY <1>2 DEF Window
<1> QED BY <1>3 DEF IsSeq

\* So are numbered blocks.
LEMMA NumberedSeq ==
    ASSUME NEW base \in Int, NEW k \in Nat
    PROVE  IsSeq(Numbered(base, k), k)
    BY DEF Numbered, IsSeq

\* The copy leaves in each granted slot its element, and the other slots alone.
LEMMA StoredAt ==
    ASSUME NEW n, NEW r, NEW w, NEW f, RingAt(n, r, w, f), NEW k \in Nat, f + k <= n,
           NEW data, NEW buf
    PROVE  /\ \A i \in 0 .. k - 1 : Stored(n, w, k, data, buf)[Slot(n, w + i)] = data[i + 1]
           /\ \A s \in 0 .. n - 1 : (\A i \in 0 .. k - 1 : Slot(n, w + i) # s)
                                       => Stored(n, w, k, data, buf)[s] = buf[s]
<1>1. ASSUME NEW i \in 0 .. k - 1
      PROVE  Stored(n, w, k, data, buf)[Slot(n, w + i)] = data[i + 1]
  <2>1. w + i \in Nat /\ n \in Nat \ {0} /\ f \in Nat
    BY DEF RingAt
  <2>2. Slot(n, w + i) \in 0 .. n - 1
    BY <2>1, SlotOf
  <2> DEFINE c == CHOOSE l \in 0 .. k - 1 : Slot(n, w + l) = Slot(n, w + i)
  <2>3. c \in 0 .. k - 1 /\ Slot(n, w + c) = Slot(n, w + i)
    OBVIOUS
  <2>4. Stored(n, w, k, data, buf)[Slot(n, w + i)] = data[c + 1]
    BY <2>2 DEF Stored
  <2> HIDE DEF c
  <2>5. c \in Nat /\ i \in Nat /\ f + c < n /\ f + i < n
    BY <2>1, <2>3
  <2>6. ~(c < i)
    BY <2>3, <2>5, Distinct
  <2>7. ~(i < c)
    BY <2>3, <2>5, Distinct
  <2>8. c = i
    BY <2>5, <2>6, <2>7
  <2> QED BY <2>4, <2>8
<1>2. ASSUME NEW s \in 0 .. n - 1, \A i \in 0 .. k - 1 : Slot(n, w + i) # s
      PROVE  Stored(n, w, k, data, buf)[s] = buf[s]
    BY <1>2 DEF Stored
<1> QED BY <1>1, <1>2

\* The copied elements are integers, so is the buffer.
LEMMA StoredRing ==
    ASSUME NEW n, NEW r, NEW w, NEW f, RingAt(n, r, w, f), NEW k \in Nat, f + k <= n,
           NEW data, \A j \in 1 .. k : data[j] \in Int, NEW buf, IsRing(n, buf)
    PROVE  IsRing(n, Stored(n, w, k, data, buf))
<1> DEFINE new == Stored(n, w, k, data, buf)
<1>1. DOMAIN new = 0 .. n - 1 /\ new = [s \in 0 .. n - 1 |-> new[s]]
    BY DEF Stored
<1>2. /\ \A i \in 0 .. k - 1 : new[Slot(n, w + i)] = data[i + 1]
      /\ \A s \in 0 .. n - 1 : (\A i \in 0 .. k - 1 : Slot(n, w + i) # s) => new[s] = buf[s]
    BY StoredAt
<1> HIDE DEF new
<1>3. ASSUME NEW s \in 0 .. n - 1 PROVE new[s] \in Int
  <2>1. CASE \E i \in 0 .. k - 1 : Slot(n, w + i) = s
    <3>1. PICK i \in 0 .. k - 1 : Slot(n, w + i) = s
      BY <2>1
    <3>2. i + 1 \in 1 .. k
      OBVIOUS
    <3> QED BY <1>2, <3>1, <3>2
  <2>2. CASE ~ \E i \in 0 .. k - 1 : Slot(n, w + i) = s
    BY <1>2, <2>2 DEF IsRing
  <2> QED BY <2>1, <2>2
<1>4. IsRing(n, new)
    BY <1>1, <1>3 DEF IsRing
<1> QED BY <1>4 DEF new

\* sys_ringbuf_Write: the elements that were granted are appended to the window.
LEMMA WriteAppends ==
    ASSUME NEW n, NEW r, NEW w, NEW f, RingAt(n, r, w, f), NEW k \in Nat, f + k <= n,
           NEW base, NEW data, IsNumbered(data, base, k), NEW buf, IsRing(n, buf)
    PROVE  Window(n, r, f + k, Stored(n, w, k, data, buf))
               = Joined(Window(n, r, f, buf), Numbered(base, k))
<1> DEFINE new == Stored(n, w, k, data, buf)
           old == Window(n, r, f, buf)
           all == Window(n, r, f + k, new)
           num == Numbered(base, k)
<1>1. n \in Nat \ {0} /\ r \in Nat /\ f \in Nat /\ f + k \in Nat
    BY DEF RingAt
<1>2. base \in Int /\ \A j \in 1 .. k : data[j] = base + j /\ data[j] \in Int
    BY DEF IsNumbered
<1>3. IsRing(n, new)
    BY <1>2, StoredRing
<1>4. /\ \A i \in 0 .. k - 1 : new[Slot(n, w + i)] = data[i + 1]
      /\ \A s \in 0 .. n - 1 : (\A i \in 0 .. k - 1 : Slot(n, w + i) # s) => new[s] = buf[s]
    BY StoredAt
<1> HIDE DEF new
<1>5. IsSeq(old, f) /\ IsSeq(all, f + k) /\ IsSeq(num, k)
    BY <1>1, <1>2, <1>3, WindowSeq, NumberedSeq
<1>6. \A j \in 1 .. f : old[j] = buf[Slot(n, r + j - 1)]
    BY DEF Window
<1>7. \A j \in 1 .. f + k : all[j] = new[Slot(n, r + j - 1)]
    BY DEF Window
<1>8. \A j \in 1 .. k : num[j] = base + j
    BY DEF Numbered
<1> HIDE DEF old, all, num
<1>9. ASSUME NEW j \in 1 .. f PROVE all[j] = old[j]
  <2>1. j - 1 \in Nat /\ r + (j - 1) = r + j - 1 /\ r + j - 1 \in Nat /\ j \in 1 .. f + k
    BY <1>1
  <2>2. Slot(n, r + j - 1) \in 0 .. n - 1
    BY <1>1, <2>1, SlotOf
  <2>3. ASSUME NEW i \in 0 .. k - 1 PROVE Slot(n, w + i) # Slot(n, r + j - 1)
    <3>1. i \in Nat /\ f + i < n /\ j - 1 < f + i
      BY <1>1
    <3>2. Slot(n, w + i) # Slot(n, r + (j - 1))
      BY <2>1, <3>1, Apart
    <3> QED BY <2>1, <3>2
  <2>4. new[Slot(n, r + j - 1)] = buf[Slot(n, r + j - 1)]
    BY <1>4, <2>2, <2>3
  <2> QED BY <1>6, <1>7, <2>1, <2>4
<1>10. ASSUME NEW j \in 1 .. k PROVE all[f + j] = num[j]
  <2>1. /\ j - 1 \in 0 .. k - 1 /\ j - 1 \in Nat /\ f + (j - 1) < n /\ j - 1 + 1 = j
        /\ f + j \in 1 .. f + k /\ r + (f + (j - 1)) = r + (f + j) - 1
    BY <1>1
  <2>2. Slot(n, w + (j - 1)) = Slot(n, r + (f + (j - 1)))
    BY <2>1, Adjacent
  <2>3. all[f + j] = new[Slot(n, r + (f + j) - 1)]
    BY <1>7, <2>1
  <2>4. all[f + j] = new[Slot(n, w + (j - 1))]
    BY <2>1, <2>2, <2>3
  <2>5. new[Slot(n, w + (j - 1))] = data[j - 1 + 1]
    BY <1>4, <2>1
  <2> QED BY <1>2, <1>8, <2>1, <2>4, <2>5
<1>11. all = Joined(old, num)
    BY <1>1, <1>5, <1>9, <1>10, ConcatIs
<1> QED BY <1>11 DEF all, old, num, new

\* sys_ringbuf_Read: the window loses its first k elements.
LEMMA ReadDrops ==
    ASSUME NEW n, NEW r, NEW w, NEW f, RingAt(n, r, w, f),
           NEW k \in 0 .. f, NEW q, Moved(n, r, k, q), NEW buf, IsRing(n, buf)
    PROVE  Window(n, q, f - k, buf) = SubSeq(Window(n, r, f, buf), k + 1, f)
<1> DEFINE old == Window(n, r, f, buf)
           rest == Window(n, q, f - k, buf)
<1>1. /\ n \in Nat \ {0} /\ r \in Nat /\ f \in Nat /\ k \in Nat /\ f <= n /\ q \in Nat
      /\ f - k \in Nat
    BY DEF RingAt, Moved
<1>2. IsSeq(old, f) /\ IsSeq(rest, f - k)
    BY <1>1, WindowSeq
<1>3. \A j \in 1 .. f : old[j] = buf[Slot(n, r + j - 1)]
    BY DEF Window
<1>4. \A j \in 1 .. f - k : rest[j] = buf[Slot(n, q + j - 1)]
    BY DEF Window
<1> HIDE DEF old, rest
<1>5. ASSUME NEW j \in 1 .. f - k PROVE rest[j] = old[k + j]
  <2>1. /\ j - 1 \in Nat /\ k + (j - 1) < n /\ k + j \in 1 .. f
        /\ q + (j - 1) = q + j - 1 /\ r + (k + (j - 1)) = r + (k + j) - 1
    BY <1>1
  <2>2. Slot(n, q + (j - 1)) = Slot(n, r + (k + (j - 1)))
    <3>1. \A i \in Nat : k + i < n => Slot(n, q + i) = Slot(n, r + (k + i))
      BY Advanced
    <3> QED BY <2>1, <3>1
  <2>3. old[k + j] = buf[Slot(n, r + (k + j) - 1)]
    BY <1>3, <2>1
  <2>4. rest[j] = buf[Slot(n, q + j - 1)]
    BY <1>4
  <2> QED BY <2>1, <2>2, <2>3, <2>4
<1>6. rest = SubSeq(old, k + 1, f)
    BY <1>1, <1>5, <1>2, DropIs
<1> QED BY <1>6 DEF rest, old

-----------------------------------------------------------------------------
(* The rings of PaFifo.                                                    *)

RInv == IInv /\ IsRing(N, out_buf) /\ IsRing(N, in_buf)

OutQ == Window(N, out_r, ro, out_buf)
OutRoom == IF pd = "writing" THEN pd_n ELSE -1
OutOffered == IF ~outchannels THEN 0
              ELSE IF pd \in {"room", "write", "writing"} THEN sent - 1 ELSE sent
InQ == Window(N, in_r, ri, in_buf)
InRoom == IF cb = "recording" THEN cb_n ELSE -1

\* Both rings are rings in the sense of the lemmas above.
LEMMA Rings ==
    ASSUME RInv
    PROVE  /\ N \in Nat \ {0} /\ ro \in Nat /\ ri \in Nat
           /\ RingAt(N, out_r, out_w, ro) /\ RingAt(N, in_r, in_w, ri)
           /\ IsSeq(OutQ, ro) /\ IsSeq(InQ, ri)
<1>1. N \in Nat \ {0}
    BY SizeFacts
<1>2. RingAt(N, out_r, out_w, ro) /\ RingAt(N, in_r, in_w, ri)
    BY <1>1 DEF RInv, IInv, Types, RingAt, ro, ri
<1>3. ro \in Nat /\ ri \in Nat /\ out_r \in Nat /\ in_r \in Nat
    BY <1>1 DEF RInv, IInv, Types
<1>4. IsSeq(OutQ, ro) /\ IsSeq(InQ, ri)
    BY <1>1, <1>3, WindowSeq DEF RInv, OutQ, InQ
<1> QED BY <1>1, <1>2, <1>3, <1>4

\* The queues of the refinement are windows, before a step and after it.
LEMMA ContentsAre ==
    /\ Out!Contents = OutQ /\ In!Contents = InQ
    /\ Out!Contents' = OutQ' /\ In!Contents' = InQ'
<1>1. Out!Contents = OutQ /\ In!Contents = InQ
    BY Fillings DEF Out!Contents, In!Contents, Out!ReadElement, In!ReadElement,
         OutQ, InQ, Window, Slot
<1>2. (Out!Contents = OutQ /\ In!Contents = InQ)'
    BY <1>1, PTL
<1> QED BY <1>1, <1>2

\* A copy into a ring, in the terms of the lemmas above.
LEMMA WritesStore ==
    /\ \A k, data : Out!Write(k, data) => out_buf' = Stored(N, out_w, k, data, out_buf)
    /\ \A k, data : In!Write(k, data) => in_buf' = Stored(N, in_w, k, data, in_buf)
    BY DEF Out!Write, In!Write, Stored, Slot

\* SendWrite: the block that was granted room is appended to the output ring.
LEMMA OutWritten ==
    ASSUME RInv, SendWrite
    PROVE  IsRing(N, out_buf') /\ OutQ' = Joined(OutQ, Numbered(sent - 1, pd_n))
<1>1. /\ pd = "writing" /\ pd_n \in Nat /\ pd_n \in {0, 1} /\ ro + pd_n <= N /\ sent \in Int
    BY DEF RInv, IInv, Types, Granted, SendWrite
<1>2. Out!Write(pd_n, <<sent>>)
    BY DEF SendWrite
<1>3. out_buf' = Stored(N, out_w, pd_n, <<sent>>, out_buf)
    BY <1>2, WritesStore
<1>4. out_w' = Out!Advance(out_w, pd_n) /\ out_r' = out_r
    BY <1>2 DEF Out!Write
<1>5. ro' = ro + pd_n
    BY <1>1, <1>4, OutMoves DEF RInv
<1>6. IsNumbered(<<sent>>, sent - 1, pd_n)
    BY <1>1 DEF IsNumbered
<1>7. \A j \in 1 .. pd_n : <<sent>>[j] \in Int
    BY <1>1
<1>8. RingAt(N, out_r, out_w, ro) /\ IsRing(N, out_buf)
    BY Rings DEF RInv
<1>9. IsRing(N, Stored(N, out_w, pd_n, <<sent>>, out_buf))
    BY <1>1, <1>7, <1>8, StoredRing
<1>10. Window(N, out_r, ro + pd_n, Stored(N, out_w, pd_n, <<sent>>, out_buf))
           = Joined(Window(N, out_r, ro, out_buf), Numbered(sent - 1, pd_n))
    BY <1>1, <1>6, <1>8, WriteAppends
<1>11. OutQ' = Window(N, out_r', ro', out_buf')
    BY DEF OutQ, N
<1> QED BY <1>3, <1>4, <1>5, <1>9, <1>10, <1>11 DEF OutQ

\* CallbackRecord: so are the recorded blocks, to the input ring.
LEMMA InWritten ==
    ASSUME RInv, CallbackRecord
    PROVE  IsRing(N, in_buf') /\ InQ' = Joined(InQ, Numbered(caught, cb_n))
<1> DEFINE data == [k \in 1 .. PERCALL |-> caught + k]
<1>1. cb = "recording" /\ cb_n \in Nat /\ cb_n <= PERCALL /\ ri + cb_n <= N /\ caught \in Int
    BY SizeFacts DEF RInv, IInv, Types, Granted, CallbackRecord
<1>2. In!Write(cb_n, data)
    BY Zenon DEF CallbackRecord
<1>3. in_buf' = Stored(N, in_w, cb_n, data, in_buf)
    BY <1>2, WritesStore, Zenon
<1>4. in_w' = In!Advance(in_w, cb_n) /\ in_r' = in_r
    BY <1>2, Zenon DEF In!Write
<1>5. ri' = ri + cb_n
    BY <1>1, <1>4, InMoves DEF RInv
<1>6. IsNumbered(data, caught, cb_n)
    BY <1>1, SizeFacts DEF IsNumbered
<1> HIDE DEF data
<1>7. \A j \in 1 .. cb_n : data[j] \in Int
    BY <1>1, <1>6 DEF IsNumbered
<1>8. RingAt(N, in_r, in_w, ri) /\ IsRing(N, in_buf)
    BY Rings DEF RInv
<1>9. IsRing(N, Stored(N, in_w, cb_n, data, in_buf))
    BY <1>1, <1>7, <1>8, StoredRing
<1>10. Window(N, in_r, ri + cb_n, Stored(N, in_w, cb_n, data, in_buf))
           = Joined(Window(N, in_r, ri, in_buf), Numbered(caught, cb_n))
    BY <1>1, <1>6, <1>8, WriteAppends
<1>11. InQ' = Window(N, in_r', ri', in_buf')
    BY DEF InQ, N
<1> QED BY <1>3, <1>4, <1>5, <1>9, <1>10, <1>11 DEF InQ

\* CallbackPlay: the blocks that are played leave the output ring from the front.
LEMMA OutRead ==
    ASSUME RInv, CallbackPlay
    PROVE  /\ cb_n \in 1 .. ro /\ out_buf' = out_buf
           /\ heard' = OutQ[cb_n] /\ OutQ' = SubSeq(OutQ, cb_n + 1, ro)
<1>1. cb_n \in 1 .. ro /\ cb_n \in 0 .. ro /\ cb_n \in Nat
    BY SizeFacts DEF RInv, IInv, Types, Granted, CallbackPlay
<1>2. out_r' = Out!Advance(out_r, cb_n) /\ out_w' = out_w /\ out_buf' = out_buf
    BY DEF CallbackPlay, Out!Read
<1>3. ro' = ro - cb_n
    BY <1>1, <1>2, OutMoves DEF RInv
<1>4. heard' = OutQ[cb_n]
    BY <1>1 DEF CallbackPlay, Out!ReadElement, OutQ, Window, Slot
<1>5. RingAt(N, out_r, out_w, ro) /\ IsRing(N, out_buf)
    BY Rings DEF RInv
<1>6. Moved(N, out_r, cb_n, out_r')
    BY <1>1, <1>2, <1>5 DEF Moved, RingAt, Out!Advance
<1>7. Window(N, out_r', ro - cb_n, out_buf)
          = SubSeq(Window(N, out_r, ro, out_buf), cb_n + 1, ro)
    BY <1>1, <1>5, <1>6, ReadDrops
<1>8. OutQ' = Window(N, out_r', ro', out_buf')
    BY DEF OutQ, N
<1> QED BY <1>1, <1>2, <1>3, <1>4, <1>7, <1>8 DEF OutQ

\* SendRead: Pd takes one block from the front of the input ring.
LEMMA InRead ==
    ASSUME RInv, SendRead
    PROVE  /\ pd_n \in 1 .. ri /\ in_buf' = in_buf
           /\ got' = InQ[pd_n] /\ InQ' = SubSeq(InQ, pd_n + 1, ri)
<1>1. pd_n = 1 /\ pd_n \in 1 .. ri /\ pd_n \in 0 .. ri /\ pd_n \in Nat
    BY SizeFacts DEF RInv, IInv, Types, Granted, SendRead
<1>2. in_r' = In!Advance(in_r, pd_n) /\ in_w' = in_w /\ in_buf' = in_buf
    BY DEF SendRead, In!Read
<1>3. ri' = ri - pd_n
    BY <1>1, <1>2, InMoves DEF RInv
<1>4. got' = InQ[pd_n]
    BY <1>1 DEF SendRead, In!ReadElement, InQ, Window, Slot
<1>5. RingAt(N, in_r, in_w, ri) /\ IsRing(N, in_buf)
    BY Rings DEF RInv
<1>6. Moved(N, in_r, pd_n, in_r')
    BY <1>1, <1>2, <1>5 DEF Moved, RingAt, In!Advance
<1>7. Window(N, in_r', ri - pd_n, in_buf)
          = SubSeq(Window(N, in_r, ri, in_buf), pd_n + 1, ri)
    BY <1>1, <1>5, <1>6, ReadDrops
<1>8. InQ' = Window(N, in_r', ri', in_buf')
    BY DEF InQ, N
<1> QED BY <1>1, <1>2, <1>3, <1>4, <1>7, <1>8 DEF InQ

\* pa_open_audio fills both rings with integers.
LEMMA InitRInv == Init => RInv
<1> SUFFICES ASSUME Init PROVE RInv
    OBVIOUS
<1>1. IInv
    BY InitIInv
<1>2. IsRing(N, out_buf) /\ IsRing(N, in_buf)
    BY DEF Init, Out!Init, In!Init, IsRing
<1> QED BY <1>1, <1>2 DEF RInv

\* Steps that leave the contents of a ring alone.
LEMMA OutKept == ASSUME UNCHANGED outVars PROVE OutQ' = OutQ /\ out_buf' = out_buf
    BY DEF outVars, OutQ, ro, Window, Filled, N

\* The same for the input ring.
LEMMA InKept == ASSUME UNCHANGED inVars PROVE InQ' = InQ /\ in_buf' = in_buf
    BY DEF inVars, InQ, ri, Window, Filled, N

\* Which actions touch which ring.
LEMMA NextCases ==
    ASSUME [Next]_vars
    PROVE  /\ SendWrite \/ CallbackPlay \/ UNCHANGED outVars
           /\ CallbackRecord \/ SendRead \/ UNCHANGED inVars
    BY DEF Next, pa_send_dacs, pa_fifo_callback, SendEnter, SendRoom, SendWriteRegions, SendWrite,
         SendWait, SendRead, CallbackEnter, CallbackUnderrun, CallbackPlay,
         CallbackRecordRegions, CallbackRecord, vars, outVars, inVars

\* Every step keeps the invariant.
LEMMA NextRInv == RInv /\ [Next]_vars => RInv'
<1> SUFFICES ASSUME RInv, [Next]_vars PROVE RInv'
    OBVIOUS
<1>1. IInv'
    BY NextIInv DEF RInv
<1>2. IsRing(N, out_buf')
    BY NextCases, OutWritten, OutRead, OutKept DEF RInv
<1>3. IsRing(N, in_buf')
    BY NextCases, InWritten, InRead, InKept DEF RInv
<1>4. IsRing(N, out_buf)' /\ IsRing(N, in_buf)'
    BY <1>2, <1>3 DEF IsRing, N
<1> QED BY <1>1, <1>4 DEF RInv

\* The invariant holds throughout every behaviour.
LEMMA RingInvariance == Spec => []RInv
<1> QED BY InitRInv, NextRInv, PTL DEF Spec

\* The slots of k elements from index x on.
Region(n, x, k) == {Slot(n, x + i) : i \in 0 .. k - 1}

\* k slots behind the filling and l slots of it have none in common.
LEMMA RegionsDisjoint ==
    ASSUME NEW n, NEW r, NEW w, NEW f, RingAt(n, r, w, f),
           NEW k \in Nat, f + k <= n, NEW l \in 0 .. f
    PROVE  Region(n, w, k) \cap Region(n, r, l) = {}
<1>1. f \in Nat /\ n \in Nat
    BY DEF RingAt
<1>2. ASSUME NEW i \in 0 .. k - 1, NEW j \in 0 .. l - 1 PROVE Slot(n, w + i) # Slot(n, r + j)
  <2>1. i \in Nat /\ j \in Nat /\ f + i < n /\ j < f + i
    BY <1>1
  <2> QED BY <2>1, Apart
<1> QED BY <1>2 DEF Region

\* The invariant implies that the two copies use different slots.
LEMMA RInvNoOverlap == RInv => NoOverlap
<1> SUFFICES ASSUME RInv PROVE NoOverlap
    OBVIOUS
<1>1. RingAt(N, out_r, out_w, ro) /\ RingAt(N, in_r, in_w, ri) /\ ro \in Nat /\ ri \in Nat
    BY Rings
<1>2. ASSUME pd = "writing", cb = "playing"
      PROVE  Out!Slots(out_w, pd_n) \cap Out!Slots(out_r, cb_n) = {}
  <2>1. pd_n \in Nat /\ ro + pd_n <= N /\ cb_n \in 0 .. ro
    BY <1>1, <1>2, SizeFacts DEF RInv, IInv, Types, Granted
  <2>2. Region(N, out_w, pd_n) \cap Region(N, out_r, cb_n) = {}
    BY <1>1, <2>1, RegionsDisjoint
  <2> QED BY <2>2 DEF Out!Slots, Slot, Region
<1>3. ASSUME pd = "reading", cb = "recording"
      PROVE  In!Slots(in_r, pd_n) \cap In!Slots(in_w, cb_n) = {}
  <2>1. cb_n \in Nat /\ ri + cb_n <= N /\ pd_n \in 0 .. ri
    BY <1>1, <1>3, SizeFacts DEF RInv, IInv, Types, Granted
  <2>2. Region(N, in_w, cb_n) \cap Region(N, in_r, pd_n) = {}
    BY <1>1, <2>1, RegionsDisjoint
  <2>3. In!Slots(in_w, cb_n) \cap In!Slots(in_r, pd_n) = {}
    BY <2>2 DEF In!Slots, Slot, Region
  <2> QED BY <2>3, Zenon
<1> QED BY <1>2, <1>3 DEF NoOverlap

\* pa_send_dacs and pa_fifo_callback never copy to and from the same slot of a ring at
\* the same time, so the rings need no lock, whatever the sizes.
THEOREM CopiesNeverOverlap == Spec => []NoOverlap
<1> QED BY RingInvariance, RInvNoOverlap, PTL

-----------------------------------------------------------------------------
(* The refinement.                                                         *)

\* Pd's steps and the callback's, as steps of the queue of played blocks.
LEMMA PlayedNext == ASSUME RInv, [Next]_vars PROVE [Played!QueueNext]_(Played!qvars)
<1> DEFINE Same == OutQ' = OutQ /\ OutRoom' = OutRoom /\ OutOffered' = OutOffered /\ heard' = heard
<1>1. Same => UNCHANGED Played!qvars
    BY ContentsAre DEF Played!qvars, OutRoom, OutOffered
<1>2. ASSUME SendWriteRegions, outchannels PROVE Played!Ask
  <2>1. OutQ' = OutQ
    BY <1>2, OutKept DEF SendWriteRegions
  <2>2. Len(OutQ) = ro
    BY Rings DEF IsSeq
  <2>3. /\ pd = "write" /\ pd' = "writing" /\ sent' = sent /\ mode' = mode /\ heard' = heard
        /\ pd_n' = IF 1 > N - ro THEN N - ro ELSE 1
    BY <1>2, Fillings DEF SendWriteRegions, Out!WriteRegions, Out!GetWriteAvailable
  <2> QED BY <2>1, <2>2, <2>3, ContentsAre DEF Played!Ask, Played!None, outchannels
<1>3. ASSUME SendWrite PROVE Played!Put
  <2>1. OutQ' = OutQ \o [j \in 1 .. pd_n |-> sent - 1 + j]
    BY <1>3, OutWritten DEF Joined, Numbered
  <2>2. /\ pd = "writing" /\ pd' \in {"wait", "top"} /\ sent' = sent /\ mode' = mode
        /\ heard' = heard /\ mode # "in" /\ pd_n \in {0, 1} /\ sent \in Nat
    BY <1>3 DEF SendWrite, RInv, IInv, Places, Types
  <2> QED BY <2>1, <2>2, ContentsAre DEF Played!Put, Played!None, outchannels
<1>4. ASSUME CallbackPlay PROVE \E n \in 1 .. Len(Out!Contents) : Played!Take(n)
  <2>1. cb_n \in 1 .. ro /\ heard' = OutQ[cb_n] /\ OutQ' = SubSeq(OutQ, cb_n + 1, ro)
    BY <1>4, OutRead
  <2>2. Len(OutQ) = ro
    BY Rings DEF IsSeq
  <2>3. UNCHANGED <<pd, pd_n, sent, mode>>
    BY <1>4 DEF CallbackPlay
  <2>4. Played!Take(cb_n)
    BY <2>1, <2>2, <2>3, ContentsAre DEF Played!Take, outchannels
  <2> QED BY <2>1, <2>2, <2>4, ContentsAre
<1>5. ASSUME ~(SendWriteRegions /\ outchannels), ~SendWrite, ~CallbackPlay PROVE Same
  <2>1. OutQ' = OutQ
    BY <1>5, NextCases, OutKept
  <2>2. OutRoom' = OutRoom /\ OutOffered' = OutOffered /\ heard' = heard
    <3>0. sent \in Int
        BY DEF RInv, IInv, Types
    <3>1. CASE SendEnter
        BY <3>0, <3>1 DEF SendEnter, OutRoom, OutOffered, outchannels
    <3>2. CASE SendRoom
        BY <3>2 DEF SendRoom, OutRoom, OutOffered, outchannels
    <3>3. CASE SendWriteRegions
        BY <1>5, <3>3 DEF SendWriteRegions, OutRoom, OutOffered, outchannels
    <3>4. CASE SendWait \/ SendRead
        BY <3>4 DEF SendWait, SendRead, OutRoom, OutOffered, outchannels
    <3>5. CASE CallbackEnter \/ CallbackUnderrun \/ CallbackRecordRegions \/ CallbackRecord
               \/ UNCHANGED vars
      <4>1. UNCHANGED <<mode, pd, pd_n, sent, heard>>
        BY <3>5 DEF CallbackEnter, CallbackUnderrun, CallbackRecordRegions, CallbackRecord, vars
      <4> QED BY <4>1 DEF OutRoom, OutOffered, outchannels
    <3> QED BY <1>5, <3>1, <3>2, <3>3, <3>4, <3>5 DEF Next, pa_send_dacs, pa_fifo_callback
  <2> QED BY <2>1, <2>2
<1> QED BY <1>1, <1>2, <1>3, <1>4, <1>5 DEF Played!QueueNext

\* The same for the queue of recorded blocks.
LEMMA RecordedNext == ASSUME RInv, [Next]_vars PROVE [Recorded!QueueNext]_(Recorded!qvars)
<1> DEFINE Same == InQ' = InQ /\ InRoom' = InRoom /\ caught' = caught /\ got' = got
<1>1. Same => UNCHANGED Recorded!qvars
    BY ContentsAre DEF Recorded!qvars, InRoom
<1>2. ASSUME CallbackRecordRegions PROVE Recorded!Ask
  <2>1. InQ' = InQ
    BY <1>2, InKept DEF CallbackRecordRegions
  <2>2. Len(InQ) = ri
    BY Rings DEF IsSeq
  <2>3. /\ cb = "record" /\ cb' = "recording" /\ caught' = caught /\ got' = got
        /\ cb_n' = IF PERCALL > N - ri THEN N - ri ELSE PERCALL
    BY <1>2, Fillings DEF CallbackRecordRegions, In!WriteRegions, In!GetWriteAvailable
  <2> QED BY <2>1, <2>2, <2>3, ContentsAre DEF Recorded!Ask, Recorded!None
<1>3. ASSUME CallbackRecord PROVE Recorded!Put
  <2>1. InQ' = InQ \o [j \in 1 .. cb_n |-> caught + j]
    BY <1>3, InWritten DEF Joined, Numbered
  <2>2. /\ cb = "recording" /\ cb' = "idle" /\ caught' = caught + PERCALL /\ got' = got
        /\ cb_n \in Nat
    BY <1>3, SizeFacts DEF CallbackRecord, RInv, IInv, Types
  <2> QED BY <2>1, <2>2, ContentsAre DEF Recorded!Put, Recorded!None
<1>4. ASSUME SendRead PROVE \E n \in 1 .. Len(In!Contents) : Recorded!Take(n)
  <2>1. pd_n \in 1 .. ri /\ got' = InQ[pd_n] /\ InQ' = SubSeq(InQ, pd_n + 1, ri)
    BY <1>4, InRead
  <2>2. Len(InQ) = ri
    BY Rings DEF IsSeq
  <2>3. UNCHANGED <<cb, cb_n, caught>>
    BY <1>4 DEF SendRead
  <2>4. Recorded!Take(pd_n)
    BY <2>1, <2>2, <2>3, ContentsAre DEF Recorded!Take
  <2> QED BY <2>1, <2>2, <2>4, ContentsAre
<1>5. ASSUME ~CallbackRecordRegions, ~CallbackRecord, ~SendRead PROVE Same
  <2>1. InQ' = InQ
    BY <1>5, NextCases, InKept
  <2>2. InRoom' = InRoom /\ caught' = caught /\ got' = got
    BY <1>5 DEF Next, pa_send_dacs, pa_fifo_callback, SendEnter, SendRoom, SendWriteRegions,
         SendWrite, SendWait, CallbackEnter, CallbackUnderrun, CallbackPlay, vars, InRoom
  <2> QED BY <2>1, <2>2
<1> QED BY <1>1, <1>2, <1>3, <1>4, <1>5 DEF Recorded!QueueNext

\* Both queues begin as the rings do: the one empty, the other full of silence.
LEMMA QueuesInit == Init => Played!QueueInit /\ Recorded!QueueInit
<1> SUFFICES ASSUME Init PROVE Played!QueueInit /\ Recorded!QueueInit
    OBVIOUS
<1>1. ro = 0 /\ ri = N /\ N \in Nat \ {0}
    BY SizeFacts DEF Init, Out!Init, In!Init, ro, ri, Filled
<1>2. OutQ = [k \in 1 .. 0 |-> 0]
    BY <1>1 DEF OutQ, Window
<1>3. InQ = [k \in 1 .. N |-> 0]
  <2>1. in_r = 0 /\ \A s \in 0 .. N - 1 : in_buf[s] = 0
    BY <1>1 DEF Init, In!Init
  <2>2. ASSUME NEW k \in 1 .. N PROVE in_buf[Slot(N, in_r + k - 1)] = 0
    <3>1. in_r + k - 1 \in Nat
      BY <1>1, <2>1
    <3>2. Slot(N, in_r + k - 1) \in 0 .. N - 1
      BY <1>1, <3>1, SlotOf
    <3> QED BY <2>1, <3>2
  <2> QED BY <1>1, <2>2 DEF InQ, Window
<1>4. Played!QueueInit
    BY <1>2, ContentsAre DEF Init, Played!QueueInit, Played!None, outchannels
<1>5. Recorded!QueueInit
    BY <1>3, ContentsAre DEF Init, Recorded!QueueInit, Recorded!None
<1> QED BY <1>4, <1>5

\* Each ring, with its indices and its copies outside any lock, is a queue of whole
\* blocks in order, whatever the sizes and the interleaving (sys_ringbuf_Write,
\* sys_ringbuf_Read).
THEOREM RingsRefine == Spec => RingsAreQueues
<1>1. RInv /\ [Next]_vars => [Played!QueueNext]_(Played!qvars)
    BY PlayedNext
<1>2. RInv /\ [Next]_vars => [Recorded!QueueNext]_(Recorded!qvars)
    BY RecordedNext
<1> QED BY <1>1, <1>2, QueuesInit, RingInvariance, PTL
        DEF Spec, RingsAreQueues, Played!QueueSpec, Recorded!QueueSpec
=============================================================================
