--------------------------- MODULE SignalsProofs ---------------------------
(***************************************************************************)
(* Theorems about Signals, for every file, every width of a byte, and any  *)
(* moment at which one of the processes is killed or the alarm goes off.   *)
(***************************************************************************)
EXTENDS Signals, SequenceTheorems, TLAPS

USE FileAssumption

LEMMA InitInv == Init => IInv
<1> SUFFICES ASSUME Init PROVE IInv
  OBVIOUS
<1> USE DEF Init
<1>1. TypeOK
  BY DEF TypeOK, Byte
<1>2. Faithful /\ RestInv /\ EndInv
  BY DEF Faithful, RestInv, EndInv
<1>3. FlightInv
  BY DEF FlightInv, Quiet
<1> QED
  BY <1>1, <1>2, <1>3 DEF IInv

---------------------------------------------------------------------------
\* The bits of a byte of the file, and what shifting them does.
LEMMA Bits ==
  ASSUME TypeOK, pos > 0
  PROVE  /\ File[pos] \in Byte
         /\ High(0) = File[pos] /\ Low(0) = {} /\ Low(BITS) = File[pos]
         /\ 0 \in High(i) <=> i \in File[pos]
         /\ {j - 1 : j \in High(i) \ {0}} = High(i + 1)
         /\ Low(i + 1) = IF i \in File[pos] THEN Low(i) \cup {i} ELSE Low(i)
         /\ High(i + 1) \in Byte
<1>1. File[pos] \in Byte
  BY DEF TypeOK
<1>2. \A j \in File[pos] : j \in 0 .. BITS - 1
  BY <1>1 DEF Byte
<1>3. High(0) = File[pos]
  BY <1>2 DEF High
<1>4. Low(0) = {} /\ Low(BITS) = File[pos]
  BY <1>2 DEF Low
<1>5. 0 \in High(i) <=> i \in File[pos]
  BY <1>2 DEF High, TypeOK
<1>6. {j - 1 : j \in High(i) \ {0}} = High(i + 1)
  <2>1. ASSUME NEW x \in High(i), x # 0 PROVE x - 1 \in High(i + 1)
    <3>1. PICK k \in File[pos] : k >= i /\ x = k - i
      BY DEF High
    <3>2. k >= i + 1 /\ x - 1 = k - (i + 1)
      BY <1>2, <2>1, <3>1 DEF TypeOK
    <3> QED
      BY <3>1, <3>2 DEF High
  <2>2. ASSUME NEW x \in High(i + 1) PROVE \E j \in High(i) \ {0} : x = j - 1
    <3>1. PICK k \in File[pos] : k >= i + 1 /\ x = k - (i + 1)
      BY DEF High
    <3>2. k >= i /\ k - i # 0 /\ x = (k - i) - 1
      BY <1>2, <3>1 DEF TypeOK
    <3> QED
      BY <3>1, <3>2 DEF High
  <2> QED
    BY <2>1, <2>2
<1>7. Low(i + 1) = IF i \in File[pos] THEN Low(i) \cup {i} ELSE Low(i)
  BY <1>2 DEF Low, TypeOK
<1>8. High(i + 1) \in Byte
  BY <1>2 DEF High, Byte, TypeOK
<1> QED
  BY <1>1, <1>3, <1>4, <1>5, <1>6, <1>7, <1>8

\* A step of the child that leaves the parent's side alone leaves what it printed
\* alone.
LEMMA SamePrinted ==
  ASSUME Faithful, UNCHANGED printed PROVE Faithful'
BY DEF Faithful

LEMMA ReadByteInv == ASSUME IInv, ReadByte PROVE IInv'
<1> USE DEF IInv, ReadByte
<1>1. TypeOK'
  <2>1. pos + 1 \in 1 .. Len(File)
    BY DEF TypeOK
  <2> QED
    BY <2>1 DEF TypeOK, flags, bits
<1>2. Faithful'
  BY SamePrinted DEF bits
<1>3. i = 0
  BY DEF RestInv
<1>4. RestInv'
  <2>1. rest' = File[pos'] /\ pos' > 0 /\ pos' \in 1 .. Len(File)
    BY DEF TypeOK
  <2>2. High(i)' = File[pos']
    <3>1. \A j \in File[pos'] : j \in 0 .. BITS - 1
      BY <2>1 DEF Byte
    <3> QED
      BY <1>3, <3>1 DEF High
  <2> QED
    BY <2>1, <2>2 DEF RestInv
<1>5. FlightInv'
  <2> SUFFICES ASSUME ppc # "killed" PROVE (Quiet /\ Before)'
    BY DEF FlightInv
  <2>1. Quiet /\ Len(printed) = pos /\ bitcount = 0 /\ a = {}
    BY DEF FlightInv
  <2>2. Quiet'
    BY <2>1 DEF Quiet, flags
  <2>3. Low(i)' = {}
    <3>1. \A j \in File[pos'] : j \in 0 .. BITS - 1
      BY DEF TypeOK, Byte
    <3> QED
      BY <1>3, <3>1 DEF Low
  <2> QED
    BY <1>3, <2>1, <2>2, <2>3 DEF Before, TypeOK, bits
<1>6. EndInv'
  BY DEF EndInv, flags
<1> QED
  BY <1>1, <1>2, <1>4, <1>5, <1>6

\* What ends the child leaves the bit in flight where it is.
LEMMA EndOfFileInv == ASSUME IInv, EndOfFile PROVE IInv'
<1> USE DEF IInv, EndOfFile, ChildEnds
<1>1. TypeOK' /\ RestInv' /\ EndInv'
  BY DEF TypeOK, RestInv, EndInv, flags, High, bits
<1>2. Faithful'
  BY SamePrinted DEF bits
<1>3. FlightInv'
  BY DEF FlightInv, Quiet, flags, bits
<1> QED
  BY <1>1, <1>2, <1>3

\* The bit becomes a pending signal; a parent that is gone is sent nothing.
LEMMA KillInv == ASSUME IInv, Kill PROVE IInv'
<1> USE DEF IInv, Kill
<1>1. TypeOK'
  BY ZenonT(40) DEF TypeOK, ChildEnds, choose_sig, flags, bits
<1>2. Faithful'
  BY SamePrinted DEF bits
<1>3. pos > 0 /\ rest = High(i)
  BY DEF RestInv
<1>4. RestInv'
  BY <1>3 DEF RestInv, High
<1>5. FlightInv'
  <2> SUFFICES ASSUME ppc # "killed", cpc' = "alarm" PROVE Sent'
    BY DEF FlightInv, Quiet, Before, Low, flags, bits, ParentLives, ChildEnds
  <2>1. Quiet /\ Before
    BY DEF FlightInv
  <2>2. CASE ParentLives
    <3>1. choose_sig(rest) = Bit
      BY <1>3, Bits DEF choose_sig, Bit
    <3> QED
      BY <2>1, <2>2, <3>1 DEF Quiet, Before, Sent, Bit, Low, flags, bits
  <2>3. CASE ~ParentLives
    \* A child ends before a parent returns.
    <3>1. child # "alive"
      BY <2>3 DEF ParentLives, EndInv
    <3> QED
      BY <3>1
  <2> QED
    BY <2>2, <2>3
<1>6. EndInv'
  BY DEF EndInv, ChildEnds, flags
<1> QED
  BY <1>1, <1>2, <1>4, <1>5, <1>6

LEMMA AlarmInv == ASSUME IInv, Alarm PROVE IInv'
<1> USE DEF IInv, Alarm
<1>1. pos > 0 /\ rest = High(i)
  BY DEF RestInv
<1>2. rest' = High(i + 1) /\ rest' \in Byte
  BY <1>1, Bits
<1>3. TypeOK'
  BY <1>2 DEF TypeOK, flags, bits
<1>4. Faithful'
  BY SamePrinted DEF bits
<1>5. RestInv'
  BY <1>1, <1>2 DEF RestInv, High
<1>6. FlightInv'
  BY DEF FlightInv, Sent, Seen, Taken, Answered, Before, After, Bit, Low, flags, bits
<1>7. EndInv'
  BY DEF EndInv, flags
<1> QED
  BY <1>3, <1>4, <1>5, <1>6, <1>7

\* The answer has come: the bit is in the byte, and the next one may be sent.
LEMMA SigwaitInv == ASSUME IInv, Sigwait PROVE IInv'
<1> USE DEF IInv, Sigwait, NextBit
<1>1. TypeOK'
  BY DEF TypeOK, flags, bits
<1>2. Faithful'
  BY SamePrinted DEF bits
<1>3. pos > 0 /\ rest = High(i + 1)
  BY DEF RestInv
<1>4. RestInv'
  BY <1>3 DEF RestInv, High, TypeOK
<1>5. FlightInv'
  <2> SUFFICES ASSUME ppc # "killed"
               PROVE  /\ Quiet'
                      /\ cpc' = "read" => (Len(printed) = pos /\ bitcount = 0 /\ a = {})'
                      /\ cpc' = "kill" => Before'
    BY DEF FlightInv
  <2>1. Answered
    BY DEF FlightInv, Sent, Seen, Taken
  <2> QED
    BY <2>1 DEF Answered, After, Before, Quiet, Low, flags, bits, TypeOK
<1>6. EndInv'
  BY DEF EndInv, flags
<1> QED
  BY <1>1, <1>2, <1>4, <1>5, <1>6

\* Ends of processes that touch neither the bits nor the places of a living parent.
LEMMA killbyalarmInv == ASSUME IInv, killbyalarm PROVE IInv'
<1> USE DEF IInv, killbyalarm, ChildEnds
<1>1. TypeOK' /\ RestInv'
  BY DEF TypeOK, RestInv, High, flags, bits
<1>2. Faithful'
  BY SamePrinted DEF bits
<1>3. EndInv'
  BY DEF EndInv, flags, ParentLives
<1>4. FlightInv'
  <2> SUFFICES ASSUME ppc' # "killed" PROVE FALSE
    BY DEF FlightInv
  <2>1. ppc = "returned"
    BY DEF ParentLives
  <2> QED
    BY <2>1 DEF EndInv
<1> QED
  BY <1>1, <1>2, <1>3, <1>4

LEMMA KillChildInv == ASSUME IInv, KillChild PROVE IInv'
<1> USE DEF IInv, KillChild, ChildEnds
<1>1. TypeOK' /\ RestInv' /\ EndInv'
  BY DEF TypeOK, RestInv, EndInv, High, flags, bits
<1>2. Faithful'
  BY SamePrinted DEF bits
<1>3. FlightInv'
  BY DEF FlightInv, Quiet, Sent, Seen, Taken, Answered, Before, After, Bit, Low,
         flags, bits
<1> QED
  BY <1>1, <1>2, <1>3

LEMMA KillParentInv == ASSUME IInv, KillParent PROVE IInv'
<1> USE DEF IInv, KillParent
<1>1. TypeOK' /\ RestInv' /\ EndInv' /\ FlightInv'
  BY DEF TypeOK, RestInv, EndInv, FlightInv, High, childVars, flags, bits
<1>2. Faithful'
  BY SamePrinted DEF bits
<1> QED
  BY <1>1, <1>2
---------------------------------------------------------------------------
\* The handlers, and the loop of the parent.
LEMMA DeliverInv == ASSUME IInv, Deliver PROVE IInv'
<1> USE DEF IInv, Deliver
<1>1. TypeOK' /\ RestInv' /\ EndInv'
  BY DEF TypeOK, RestInv, EndInv, High, childVars, bits
<1>2. Faithful'
  BY SamePrinted DEF bits
<1>3. FlightInv'
  <2> SUFFICES ASSUME ppc # "killed" PROVE cpc \in {"alarm", "sigwait"} /\ Seen'
    BY DEF FlightInv, childVars
  <2>1. cpc \in {"alarm", "sigwait"} /\ Sent
    BY DEF FlightInv, Quiet, Seen, Taken, Answered, TypeOK
  <2> QED
    BY <2>1 DEF Sent, Seen, Blocked, Before, Bit, Low, childVars, bits
<1> QED
  BY <1>1, <1>2, <1>3

LEMMA settermInv == ASSUME IInv, setterm PROVE IInv'
<1> USE DEF IInv, setterm
<1>1. TypeOK' /\ RestInv' /\ EndInv'
  BY DEF TypeOK, RestInv, EndInv, High, childVars, bits
<1>2. Faithful'
  BY SamePrinted DEF bits
<1>3. FlightInv'
  BY DEF FlightInv, Quiet, Sent, Seen, Taken, Answered, Before, After, Bit, Low,
         childVars, bits
<1> QED
  BY <1>1, <1>2, <1>3

LEMMA WalkInv == ASSUME IInv, Walk PROVE IInv'
<1> USE DEF IInv, Walk, Go
<1>1. TypeOK' /\ RestInv' /\ EndInv'
  BY DEF TypeOK, RestInv, EndInv, High, childVars, flags, bits
<1>2. Faithful'
  BY SamePrinted DEF bits
<1>3. FlightInv'
  <2>1. ppc # "killed" /\ ppc' # "killed"
    OBVIOUS
  <2>2. UNCHANGED <<Before, After, Bit>>
    BY DEF Before, After, Bit, Low, childVars, flags, bits
  <2>3. Quiet => Quiet'
    BY DEF Quiet, flags
  <2>4. Sent => Sent'
    BY <2>2 DEF Sent, flags
  <2>5. Seen => Seen'
    BY <2>2 DEF Seen, flags
  <2>6. Answered => Answered'
    BY <2>2 DEF Answered, flags
  <2>7. ~Taken
    BY DEF Taken
  <2> QED
    BY <2>1, <2>2, <2>3, <2>4, <2>5, <2>6, <2>7 DEF FlightInv, childVars, bits
<1> QED
  BY <1>1, <1>2, <1>3

\* The bit of the flags goes to its place in the byte; a full byte is the file's.
LEMMA TakeInv == ASSUME IInv, Take PROVE IInv'
<1> USE DEF IInv, Take, Go
<1> DEFINE byte == IF sig = 1 THEN a \cup {bitcount} ELSE a
<1>1. cpc \in {"alarm", "sigwait"} /\ Seen /\ pos > 0
  BY DEF FlightInv, Quiet, Sent, Taken, Answered, RestInv, TypeOK
<1>2. byte = Low(i + 1)
  BY <1>1, Bits DEF Seen, Before, Bit
<1>3. byte \in Byte
  BY <1>1, Bits, <1>2 DEF Low, Byte
<1>4. i + 1 = BITS => byte = File[pos]
  BY <1>1, <1>2, Bits
<1>5. TypeOK'
  <2>1. printed' \in Seq(Byte)
    BY <1>3 DEF TypeOK
  <2> QED
    BY <1>3, <2>1 DEF TypeOK, NextBit, Byte, childVars
<1>6. Faithful'
  <2>1. CASE bitcount + 1 = BITS
    <3>1. Len(printed) = pos - 1 /\ bitcount = i
      BY <1>1 DEF Seen, Before
    <3>2. printed' = Append(printed, File[pos])
      BY <1>4, <2>1, <3>1
    <3> QED
      BY <3>1, <3>2 DEF Faithful, TypeOK
  <2>2. CASE bitcount + 1 # BITS
    BY <2>2 DEF Faithful
  <2> QED
    BY <2>1, <2>2
<1>7. RestInv' /\ EndInv'
  BY DEF RestInv, EndInv, High, childVars
<1>8. FlightInv'
  <2>1. Len(printed) = pos - 1 /\ bitcount = i
    BY <1>1 DEF Seen, Before
  <2>2. Len(Append(printed, byte)) = pos
    BY <2>1, <1>3 DEF TypeOK
  <2>3. After'
    BY <1>2, <2>1, <2>2 DEF After, NextBit, Low, childVars
  <2>4. Taken'
    BY <1>1, <2>3 DEF Seen, Taken
  <2> QED
    BY <1>1, <2>4 DEF FlightInv, childVars
<1> QED
  BY <1>5, <1>6, <1>7, <1>8

LEMMA AnswerInv == ASSUME IInv, Answer PROVE IInv'
<1> USE DEF IInv, Answer, Go
<1>1. TypeOK' /\ RestInv' /\ EndInv'
  BY DEF TypeOK, RestInv, EndInv, High, childVars, flags, bits
<1>2. Faithful'
  BY SamePrinted DEF bits
<1>3. cpc \in {"alarm", "sigwait"} /\ Taken
  BY DEF FlightInv, Quiet, Sent, Seen, Answered, TypeOK
<1>4. Answered'
  BY <1>3 DEF Taken, Answered, After, Low, childVars, flags, bits
<1>5. FlightInv'
  BY <1>3, <1>4 DEF FlightInv, childVars
<1> QED
  BY <1>1, <1>2, <1>5

LEMMA StutterInv == ASSUME IInv, UNCHANGED vars PROVE IInv'
BY DEF IInv, TypeOK, Faithful, RestInv, FlightInv, EndInv, Quiet, Sent, Seen, Taken,
       Answered, Before, After, Bit, Low, High, vars, childVars, flags, bits
---------------------------------------------------------------------------
\* Every step of the two processes, of the kernel and of whoever kills them keeps
\* the bit in flight in one place.
THEOREM Inductive == Spec => []IInv
<1>1. IInv /\ [Next]_vars => IInv'
  BY ReadByteInv, EndOfFileInv, KillInv, AlarmInv, SigwaitInv, killbyalarmInv,
     KillChildInv, KillParentInv, DeliverInv, settermInv, WalkInv, TakeInv,
     AnswerInv, StutterInv DEF Next, Child, Parent, Over
<1> QED
  BY InitInv, <1>1, PTL DEF Spec

\* The variables of signals.cpp keep their types; a bit is one pending signal.
THEOREM TypeCorrect == Spec => []TypeOK
<1>1. IInv => TypeOK
  BY DEF IInv
<1> QED
  BY Inductive, <1>1, PTL

\* What the parent prints is a beginning of the file, for every file, and whatever
\* is killed or late.
THEOREM FaithfulHolds == Spec => []Faithful
<1>1. IInv => Faithful
  BY DEF IInv
<1> QED
  BY Inductive, <1>1, PTL

\* At the end of the file the last bit has been answered, so it has been printed.
LEMMA CompleteNow == IInv => Complete
<1> SUFFICES ASSUME IInv, ppc = "returned", child = "done" PROVE printed = File
  BY DEF Complete
<1>1. Len(printed) = Len(File)
  BY DEF IInv, FlightInv, EndInv
<1>2. \A k \in 1 .. Len(File) : printed[k] = File[k]
  BY <1>1 DEF IInv, Faithful
<1> QED
  BY <1>1, <1>2, SeqEqual DEF IInv, TypeOK

\* A parent that ends by itself, after a child that came to the end, has printed the
\* whole file.
THEOREM CompleteHolds == Spec => []Complete
BY Inductive, CompleteNow, PTL

\* What is printed is as much of the file.
LEMMA PrintedPart == IInv => printed = SubSeq(File, 1, Len(printed))
<1> SUFFICES ASSUME IInv PROVE printed = SubSeq(File, 1, Len(printed))
  OBVIOUS
<1> DEFINE n == Len(printed)
<1>1. n \in Nat /\ n <= Len(File) /\ Len(File) \in Nat /\ File \in Seq(Byte) /\ printed \in Seq(Byte)
  BY DEF IInv, TypeOK, Faithful
<1>2. \A k \in 1 .. n : printed[k] = File[k]
  BY DEF IInv, Faithful
<1> HIDE DEF n
<1>3. /\ SubSeq(File, 1, n) \in Seq(Byte) /\ Len(SubSeq(File, 1, n)) = n
      /\ \A k \in 1 .. n : SubSeq(File, 1, n)[k] = File[k]
  BY <1>1, SubSeqProperties
<1> QED
  BY <1>1, <1>2, <1>3, SeqEqual DEF n

\* The parent returns only after the child has ended: most steps are not seen.
Shown == ppc = "returned" /\ child = "done"

LEMMA Unseen ==
  ASSUME EndInv, [Next]_vars, ~Take, ~(Walk /\ Go("end", "returned"))
  PROVE  printed' = printed /\ Shown' = Shown
<1>1. ppc = "returned" => child # "alive"
  BY DEF EndInv
<1>2. CASE Child
  <2>1. printed' = printed /\ ppc' = ppc /\ child = "alive"
    BY <1>2 DEF Child, ReadByte, EndOfFile, Kill, Alarm, Sigwait, bits
  <2> QED
    BY <1>1, <2>1 DEF Shown
<1>3. CASE killbyalarm \/ KillChild
  <2>1. printed' = printed /\ child = "alive" /\ child' \in {"alarmed", "killed"}
    BY <1>3 DEF killbyalarm, KillChild, ChildEnds, bits
  <2> QED
    BY <2>1 DEF Shown
<1>4. CASE Walk \/ Answer \/ KillParent
  <2>1. printed' = printed /\ child' = child /\ ppc # "returned" /\ ppc' # "returned"
    BY <1>4 DEF Walk, Answer, KillParent, ParentLives, Go, bits, childVars
  <2> QED
    BY <2>1 DEF Shown
<1>5. CASE Deliver \/ setterm \/ Over \/ UNCHANGED vars
  BY <1>5 DEF Deliver, setterm, Over, vars, bits, childVars, Shown
<1> QED
  BY <1>2, <1>3, <1>4, <1>5 DEF Next, Parent

LEMMA CopyStep ==
  ASSUME IInv, IInv', [Next]_vars
  PROVE  [Copy!Next]_(Copy!vars)
<1> SUFFICES (printed' = printed /\ Shown' = Shown) \/ Copy!Write \/ Copy!End
  BY Zenon DEF Copy!Next, Copy!vars, Shown
<1>1. CASE Take
  <2>1. ~Shown /\ ~Shown' /\ Shown' = Shown
    BY <1>1 DEF Take, Go, Shown
  <2>2. Len(printed) \in Nat /\ Len(printed') \in Nat /\ Len(File) \in Nat /\ Len(printed') <= Len(File)
    BY DEF IInv, TypeOK, Faithful
  <2>3. printed' = SubSeq(File, 1, Len(printed'))
    <3>1. (printed = SubSeq(File, 1, Len(printed)))'
      BY PrintedPart, PTL
    <3> QED
      BY <3>1
  <2>4. printed' = printed \/ Len(printed') = Len(printed) + 1
    BY <1>1 DEF Take, IInv, TypeOK
  <2>5. Len(printed') = Len(printed) + 1 => Len(printed') \in Len(printed) + 1 .. Len(File)
    BY <2>2
  <2> QED
    BY <2>1, <2>3, <2>4, <2>5 DEF Copy!Write, Shown
<1>2. CASE Walk /\ Go("end", "returned")
  <2>1. printed' = printed /\ child' = child /\ ~Shown /\ (Shown' = (child = "done"))
    BY <1>2 DEF Walk, Go, Shown, bits, childVars
  <2>2. Shown' => printed' = File
    <3>1. Complete'
      BY CompleteNow, PTL
    <3> QED
      BY <3>1 DEF Complete, Shown
  <2> QED
    BY <2>1, <2>2 DEF Copy!End, Shown
<1> QED
  BY <1>1, <1>2, Unseen DEF IInv, Next, Parent

\* For every file, and whoever is killed when: each step of the two processes prints
\* the next byte of the file, or ends with all of it printed, or prints nothing.
THEOREM PrintsInOrderHolds == Spec => PrintsInOrder
<1>1. Init => Copy!Init
  BY DEF Init, Copy!Init
<1> QED
  BY <1>1, Inductive, CopyStep, PTL DEF Spec, PrintsInOrder, Copy!Safe
===========================================================================
