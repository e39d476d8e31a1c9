---------------------------- MODULE ConsoleProofs ----------------------------
(***************************************************************************)
(* The proofs of the invariants of Console, for buffers, lines and texts   *)
(* of every length.                                                        *)
(*                                                                         *)
(* The first and the last of several positions are chosen by Min and Max:  *)
(* that there is one is proved from the well-foundedness of < on Nat.      *)
(***************************************************************************)
EXTENDS Console, WellFoundedInduction, TLAPS

(* Least and greatest elements *)

Less == {ss \in Nat \X Nat : ss[1] < ss[2]}

\* There is no infinite descent in Nat.
LEMMA LessWellFounded == IsWellFoundedOn(Less, Nat)
BY NatLessThanWellFounded DEF OpToRel, Less

\* A set of numbers has a least one,
LEMMA LeastElement ==
  ASSUME NEW S \in SUBSET Nat, S # {}
  PROVE  Min(S) \in S /\ \A n \in S : Min(S) <= n
<1>1. PICK m \in S : \A n \in S : ~ (<<n, m>> \in Less)
  BY LessWellFounded, WFMin
<1>2. \A n \in S : ~ (n < m)
  BY <1>1 DEF Less
<1>3. \A n \in S : m <= n
  BY <1>2
<1> QED
  BY <1>3 DEF Min

\* and a greatest one, when it is bounded.
LEMMA GreatestElement ==
  ASSUME NEW b \in Nat, NEW S \in SUBSET (0 .. b), S # {}
  PROVE  Max(S) \in S /\ \A n \in S : n <= Max(S)
<1> DEFINE R == {b - n : n \in S}
<1>1. \A n \in S : b - n \in Nat
  OBVIOUS
<1>2. Min(R) \in R /\ \A r \in R : Min(R) <= r
  <2>1. R \in SUBSET Nat /\ R # {}
    BY <1>1
  <2> QED
    BY <2>1, LeastElement
<1>3. PICK m \in S : Min(R) = b - m
  BY <1>2
<1>4. \A n \in S : b - n \in R
  OBVIOUS
<1>5. \A n \in S : n <= m
  <2> SUFFICES ASSUME NEW n \in S PROVE n <= m
    OBVIOUS
  <2>1. b - m <= b - n
    BY <1>2, <1>3, <1>4
  <2> QED
    BY <2>1
<1> QED
  BY <1>5 DEF Max

-----------------------------------------------------------------------------
(* Cutting texts *)

\* A text is cut at the first c.
LEMMA UpToFirst ==
  ASSUME NEW T, NEW s \in Seq(T), NEW c, NEW i \in 1 .. Len(s),
         s[i] = c, \A j \in 1 .. i - 1 : s[j] # c
  PROVE  UpTo(s, c) = SubSeq(s, 1, i - 1)
<1> DEFINE I == {j \in 1 .. Len(s) : s[j] = c}
<1>1. I \in SUBSET Nat /\ i \in I
  OBVIOUS
<1>2. Min(I) \in I /\ Min(I) <= i
  BY <1>1, LeastElement
<1>3. Min(I) = i
  BY <1>2
<1>4. UpTo(s, c) = IF (IF I # {} THEN Min(I) ELSE 0) = 0 THEN s
                   ELSE SubSeq(s, 1, (IF I # {} THEN Min(I) ELSE 0) - 1)
  BY DEF UpTo, SelectInSeq
<1> HIDE DEF I
<1> QED
  BY <1>1, <1>3, <1>4

\* What is left of it has no c.
LEMMA UpToLacks ==
  ASSUME NEW T, NEW s \in Seq(T), NEW c
  PROVE  UpTo(s, c) \in Seq({e \in T : e # c})
<1> DEFINE I == {j \in 1 .. Len(s) : s[j] = c}
           R == {e \in T : e # c}
<1> SUFFICES UpTo(s, c) \in Seq(R)
  OBVIOUS
<1>1. CASE I = {}
  <2>1. UpTo(s, c) = s
    BY <1>1 DEF UpTo, SelectInSeq
  <2>2. \A j \in 1 .. Len(s) : s[j] \in R
    BY <1>1
  <2> HIDE DEF R
  <2>3. s = [j \in 1 .. Len(s) |-> s[j]] /\ Len(s) \in Nat
    OBVIOUS
  <2>4. s \in Seq(R)
    BY <2>2, <2>3
  <2> QED
    BY <2>1, <2>4
<1>2. CASE I # {}
  <2>1. Min(I) \in I /\ \A j \in I : Min(I) <= j
    <3>1. I \in SUBSET Nat
      OBVIOUS
    <3> QED
      BY <1>2, <3>1, LeastElement
  <2>2. PICK i \in 1 .. Len(s) : i = Min(I) /\ s[i] = c
    BY <2>1
  <2>3. \A j \in 1 .. i - 1 : s[j] \in R
    <3> SUFFICES ASSUME NEW j \in 1 .. i - 1, s[j] = c PROVE FALSE
      OBVIOUS
    <3>1. j \in I
      OBVIOUS
    <3> QED
      BY <2>1, <2>2, <3>1
  <2>4. UpTo(s, c) = SubSeq(s, 1, i - 1)
    <3>1. \A j \in 1 .. i - 1 : s[j] # c
      BY <2>3
    <3> QED
      BY <2>2, <3>1, UpToFirst
  <2> HIDE DEF R
  <2>5. /\ i - 1 \in Nat /\ Len(SubSeq(s, 1, i - 1)) = i - 1
        /\ SubSeq(s, 1, i - 1) = [j \in 1 .. i - 1 |-> s[j]]
    OBVIOUS
  <2>6. SubSeq(s, 1, i - 1) \in Seq(R)
    BY <2>3, <2>5
  <2> QED
    BY <2>4, <2>6
<1> QED
  BY <1>1, <1>2

-----------------------------------------------------------------------------
(* The serial line *)

\* Where the terminator goes: at the last character or at the one before it.
EndAt(p) == IF Last(p) = "CR" THEN Len(p) ELSE Len(p) - 1

Typed == rx_buf \in [1 .. RX_LEN -> {"x", "CR", "LF", "NUL"}]

\* What uart_rx_proc leaves in the buffer.
LEMMA TerminatedType ==
  ASSUME Typed, NEW p \in Pieces
  PROVE  Terminated(p) \in [1 .. RX_LEN -> {"x", "CR", "LF", "NUL"}]
<1>1. \A i \in 1 .. Len(p) : p[i] \in {"x", "CR", "LF"}
  BY ConsoleAssumption
<1>2. Len(p) \in Nat /\ RX_LEN \in Nat
  BY ConsoleAssumption
<1>3. \A i \in 1 .. RX_LEN : Overlay(p)[i] \in {"x", "CR", "LF", "NUL"}
  BY <1>1, <1>2 DEF Overlay, Typed
<1> QED
  BY <1>3 DEF Terminated, Ended

\* When the terminator meets the buffer, what runs is the piece up to it, and
\* nothing of an earlier one.
LEMMA RunsPiece ==
  ASSUME Typed, NEW p \in Pieces, EndAt(p) # 0
  PROVE  /\ EndAt(p) \in 1 .. Len(p)
         /\ UpTo(Terminated(p), "NUL") = SubSeq(p, 1, EndAt(p) - 1)
<1>1. /\ p \in Seq({"x", "CR", "LF"}) /\ Len(p) \in 1 .. RX_LEN - 1 /\ RX_LEN \in Nat
  BY ConsoleAssumption
<1>2. EndAt(p) \in 1 .. Len(p)
  <2>1. EndAt(p) = Len(p) \/ EndAt(p) = Len(p) - 1
    BY DEF EndAt
  <2> QED
    BY <1>1, <2>1
<1> DEFINE e == EndAt(p)
           s == Terminated(p)
<1>3. s = [j \in 1 .. RX_LEN |-> IF j = e THEN "NUL" ELSE Overlay(p)[j]]
  BY DEF Terminated, Ended, EndAt
<1>4. s \in Seq({"x", "CR", "LF", "NUL"}) /\ Len(s) = RX_LEN
  BY <1>1, TerminatedType
<1> HIDE DEF e, s
<1>5. s[e] = "NUL" /\ e \in 1 .. Len(s) /\ e \in 1 .. Len(p)
  BY <1>1, <1>2, <1>3, <1>4 DEF e
<1>6. \A j \in 1 .. e - 1 : s[j] = p[j]
  BY <1>1, <1>3, <1>5 DEF Overlay
<1>7. \A j \in 1 .. e - 1 : s[j] # "NUL"
  BY <1>1, <1>5, <1>6
<1>8. UpTo(s, "NUL") = SubSeq(s, 1, e - 1)
  BY <1>4, <1>5, <1>7, UpToFirst
<1>9. SubSeq(s, 1, e - 1) = SubSeq(p, 1, e - 1)
  BY <1>1, <1>4, <1>5, <1>6
<1> QED
  BY <1>2, <1>8, <1>9 DEF e, s

\* The line that ends a piece is what runs.
LEMMA RunsLine ==
  ASSUME Typed, NEW p \in Pieces, EndsLine(p)
  PROVE  UpTo(Terminated(p), "NUL") = LineOf(p)
<1>1. p \in Seq({"x", "CR", "LF"}) /\ Len(p) \in Nat \ {0}
  BY ConsoleAssumption
<1>2. CASE Last(p) = "CR"
  BY <1>1, <1>2, RunsPiece DEF EndAt, LineOf
<1>3. CASE Last(p) # "CR"
  <2>1. Len(p) >= 2
    <3>1. Len(Reverse(<<"CR", "LF">>)) <= Len(Reverse(p))
      BY <1>3 DEF EndsLine, IsSuffix, IsPrefix
    <3> QED
      BY <1>1, <3>1 DEF Reverse
  <2>2. EndAt(p) # 0 /\ EndAt(p) - 1 = Len(p) - 2
    <3>1. PICK n \in Nat : n = Len(p)
      BY <1>1
    <3>2. EndAt(p) = n - 1 /\ n >= 2
      BY <1>3, <2>1, <3>1 DEF EndAt
    <3> QED
      BY <3>1, <3>2
  <2>3. UpTo(Terminated(p), "NUL") = SubSeq(p, 1, EndAt(p) - 1)
    BY <2>2, RunsPiece
  <2>4. LineOf(p) = SubSeq(p, 1, Len(p) - 2)
    BY <1>3 DEF LineOf
  <2> QED
    BY <2>2, <2>3, <2>4, Zenon
<1> QED
  BY <1>2, <1>3

\* What runs is of the piece, unless it is one byte that is not CR.
LEMMA RunsPrefix ==
  ASSUME Typed, NEW p \in Pieces
  PROVE  IsPrefix(UpTo(Terminated(p), "NUL"), p) \/ (Len(p) = 1 /\ p # <<"CR">>)
<1>1. p \in Seq({"x", "CR", "LF"}) /\ Len(p) \in Nat \ {0}
  BY ConsoleAssumption
<1>2. CASE EndAt(p) = 0
  BY <1>1, <1>2 DEF EndAt, Last
<1>3. CASE EndAt(p) # 0
  <2>1. EndAt(p) \in 1 .. Len(p)
    BY <1>3, RunsPiece
  <2>2. IsPrefix(SubSeq(p, 1, EndAt(p) - 1), p)
    BY <1>1, <2>1 DEF IsPrefix
  <2> QED
    BY <1>3, <2>2, RunsPiece
<1> QED
  BY <1>2, <1>3

-----------------------------------------------------------------------------
(* The modem's texts *)

\* "SMS Ready", on a line of its own among whole lines, is a line that is found.
LEMMA FindsReady ==
  ASSUME NEW T, NEW t \in Seq(T), WholeLines(t), SaysReady(t)
  PROVE  <<"S">> \in FoundLines(t)
<1> DEFINE n == Len(t)
<1>1. n \in Nat /\ DOMAIN t = 1 .. n
  OBVIOUS
<1>2. t[n] = "LF" /\ \A i \in 1 .. n : t[i] = "LF" => i > 1 /\ t[i - 1] = "CR"
  BY <1>1 DEF WholeLines, Last
<1>3. PICK i \in 1 .. n : t[i] = "S" /\ t[i + 1] = "CR" /\ (i = 1 \/ t[i - 1] = "LF")
  BY <1>1 DEF SaysReady
<1>4. SubSeq(t, i, (i + 1) - 1) = <<"S">>
  <2>1. (i + 1) - 1 = i
    BY <1>1
  <2>2. SubSeq(t, i, i) = <<t[i]>>
    <3>1. i \in Nat /\ i \in 1 .. Len(t)
      BY <1>1
    <3> DEFINE u == SubSeq(t, i, i)
    <3>2. u \in Seq(T) /\ Len(u) = 1 /\ u[1] = t[i]
      BY <3>1
    <3> HIDE DEF u
    <3>3. u = <<t[i]>>
      BY <3>2
    <3> QED
      BY <3>3 DEF u
  <2> QED
    BY <1>3, <2>1, <2>2
<1> HIDE DEF n
<1>5. i # n /\ i + 1 \in 1 .. n
  <2>1. i # n
    BY <1>2, <1>3
  <2> QED
    BY <1>1, <2>1
<1>6. i + 1 \in Cuts(t)
  BY <1>1, <1>3, <1>5 DEF Cuts
<1>7. \A k \in Cuts(t) : k \in 1 .. n /\ (t[k] = "CR" \/ (k = n /\ t[k] # "LF"))
  BY <1>1 DEF Cuts
<1> DEFINE before == {k \in Cuts(t) : k < i + 1}
<1>8. LineStart(t, i + 1) = i
  <2>1. CASE i = 1
    <3>1. before = {}
      BY <1>3, <1>5, <1>7, <2>1
    <3> QED
      BY <2>1, <3>1 DEF LineStart
  <2>2. CASE i # 1
    <3>1. i - 1 \in 1 .. n /\ t[i - 1] = "LF"
      BY <1>1, <1>3, <2>2
    <3>2. i - 1 > 1 /\ t[(i - 1) - 1] = "CR"
      BY <1>2, <3>1
    <3>3. i - 2 \in 1 .. n /\ t[i - 2] = "CR"
      <4>1. (i - 1) - 1 = i - 2 /\ i - 2 \in 1 .. n
        BY <1>1, <3>1, <3>2
      <4> QED
        BY <3>2, <4>1
    <3>4. i - 2 \in before
      BY <1>1, <3>3 DEF Cuts
    <3>5. \A k \in before : k <= i - 2
      <4> SUFFICES ASSUME NEW k \in before PROVE k <= i - 2
        OBVIOUS
      <4>1. k \in 1 .. n /\ k <= i /\ k # i /\ k # i - 1
        BY <1>3, <1>5, <1>7, <3>1
      <4> QED
        BY <1>1, <4>1
    <3>6. Max(before) = i - 2
      <4>1. before \in SUBSET (0 .. n)
        BY <1>7
      <4> HIDE DEF before
      <4>2. Max(before) \in before /\ \A k \in before : k <= Max(before)
        BY <1>1, <3>4, <4>1, GreatestElement
      <4>3. Max(before) <= i - 2 /\ i - 2 <= Max(before) /\ Max(before) \in 0 .. n
        BY <3>4, <3>5, <4>1, <4>2
      <4> QED
        BY <1>1, <4>3
    <3>7. LineStart(t, i + 1) = Max(before) + 2
      BY <3>4 DEF LineStart
    <3> QED
      BY <1>1, <3>6, <3>7
  <2> QED
    BY <2>1, <2>2
<1> QED
  BY <1>4, <1>6, <1>8 DEF FoundLines

\* A line of negative length is one between a CR and a cut right behind it.
LEMMA WildLacksLF ==
  ASSUME NEW T, NEW t \in Seq(T), Wild(t)
  PROVE  ~PartOfLines(t)
<1> DEFINE n == Len(t)
<1>1. n \in Nat /\ DOMAIN t = 1 .. n
  OBVIOUS
<1>2. \A k \in Cuts(t) : k \in 1 .. n /\ (t[k] = "CR" \/ (k = n /\ t[k] # "LF"))
  BY <1>1 DEF Cuts
<1>3. PICK i \in Cuts(t) : i < LineStart(t, i)
  BY DEF Wild
<1> DEFINE before == {k \in Cuts(t) : k < i}
           m == Max(before)
<1>4. before # {} /\ LineStart(t, i) = m + 2
  BY <1>2, <1>3 DEF LineStart
<1>5. m \in before
  <2>1. before \in SUBSET (0 .. n)
    BY <1>2
  <2> HIDE DEF before
  <2> QED
    BY <1>1, <1>4, <2>1, GreatestElement
<1>6. m \in 1 .. n /\ i \in 1 .. n /\ m < i /\ i < m + 2
  BY <1>2, <1>3, <1>4, <1>5
<1> HIDE DEF m
<1>7. i = m + 1 /\ m < n
  BY <1>1, <1>6
<1>8. t[m] = "CR" /\ t[m + 1] # "LF"
  <2>1. t[i] # "LF"
    <3>1. t[i] = "CR" \/ t[i] # "LF"
      BY <1>2
    <3> QED
      BY <3>1
  <2>2. m # n /\ m \in Cuts(t)
    <3> HIDE DEF n
    <3> QED
      BY <1>1, <1>5, <1>6, <1>7
  <2>3. t[m] = "CR"
    BY <1>2, <2>2
  <2> QED
    BY <1>7, <2>1, <2>3
<1> QED
  BY <1>1, <1>6, <1>7, <1>8 DEF PartOfLines

-----------------------------------------------------------------------------
(* Bluetooth *)

\* What of the data reaches the line is without CR.
LEMMA WordType ==
  ASSUME NEW d \in SppPieces
  PROVE  Word(d) \in Seq({"x"})
<1> DEFINE T == {"x", "CR"}
           I == {j \in 1 .. Len(d) : d[j] # "CR"}
<1>1. d \in Seq(T) /\ Len(d) \in Nat
  BY ConsoleAssumption
<1>2. CASE I = {}
  <2>1. Word(d) = <<>>
    BY <1>2 DEF Word, SelectInSeq
  <2> QED
    BY <2>1
<1>3. CASE I # {}
  <2>1. Min(I) \in 1 .. Len(d)
    <3>1. I \in SUBSET Nat
      OBVIOUS
    <3>2. Min(I) \in I
      BY <1>3, <3>1, LeastElement
    <3> QED
      BY <3>2
  <2> DEFINE rest == SubSeq(d, Min(I), Len(d))
  <2>2. Word(d) = UpTo(rest, "CR")
    <3>1. Word(d) = IF (IF I # {} THEN Min(I) ELSE 0) = 0 THEN <<>>
                    ELSE UpTo(SubSeq(d, IF I # {} THEN Min(I) ELSE 0, Len(d)), "CR")
      BY DEF Word, SelectInSeq
    <3> HIDE DEF I
    <3>2. Min(I) # 0
      BY <2>1
    <3> QED
      BY <1>3, <3>1, <3>2
  <2>3. rest \in Seq(T)
    <3> HIDE DEF I
    <3> QED
      BY <1>1, <2>1
  <2>4. {e \in T : e # "CR"} = {"x"}
    OBVIOUS
  <2>5. UpTo(rest, "CR") \in Seq({e \in T : e # "CR"})
    <3> HIDE DEF rest
    <3> QED
      BY <2>3, UpToLacks
  <2> QED
    BY <2>2, <2>4, <2>5, Zenon
<1> QED
  BY <1>2, <1>3

\* What the loop over the lines is left with is a text.
LEMMA RestType ==
  ASSUME NEW d \in SppPieces
  PROVE  SppRest(d) \in Seq({"x", "CR", "LF"})
<1> DEFINE T == {"x", "CR", "LF"}
           rest == SubSeq(d, Skipped(d) + 1, Len(d))
<1>1. /\ d \in Seq({"x", "CR"}) /\ d # <<>> /\ SppTail \in Seq({"CR", "LF"})
      /\ TwoDigits \in Nat
  BY ConsoleAssumption
<1>2. d \in Seq(T) /\ SppTail \in Seq(T) /\ Len(d) \in Nat \ {0}
  BY <1>1
<1>3. Skipped(d) \in 0 .. Len(d)
  BY <1>1, <1>2 DEF Skipped
<1>4. rest \in Seq(T)
  BY <1>2, <1>3
<1> HIDE DEF rest
<1>5. rest \o SppTail \in Seq(T)
  BY <1>2, <1>4
<1> QED
  BY <1>5 DEF SppRest, rest

-----------------------------------------------------------------------------
(* The steps *)

\* The invariants need no strengthening: each event is judged by itself, from
\* buffers of any contents.
IInv == TypeOK /\ WholeLineRuns /\ StaleOnlyAfterOneByte /\ ReadyFound /\ WildNeedsBareCR

\* The buffers and the stack, emptied, have their types.
LEMMA Emptied ==
  /\ Zeros \in [1 .. RX_LEN -> {"x", "CR", "LF", "NUL"}]
  /\ <<>> \in Seq({"x"}) /\ Len(<<>>) <= MaxSpp
  /\ 0 \in 0 .. Reserve
BY ConsoleAssumption DEF Zeros

\* Nothing was typed yet.
LEMMA Initial == Init => IInv
<1> SUFFICES ASSUME Init PROVE IInv
  OBVIOUS
<1>1. did.event = "boot"
  BY DEF Init, Did
<1>2. TypeOK
  BY <1>1, Emptied DEF Init, TypeOK
<1> QED
  BY <1>1, <1>2 DEF IInv, WholeLineRuns, StaleOnlyAfterOneByte, ReadyFound, WildNeedsBareCR

\* A restart forgets all but why; a text that leads to one has a bare CR.
LEMMA StepReset ==
  ASSUME NEW why \in {"script", "stack", "echo", "wild"}, NEW p, reset(why, p),
         why = "wild" => ~PartOfLines(p)
  PROVE  IInv'
<1>1. did'.event = why /\ did'.piece = p
  BY DEF reset, Did
<1>2. TypeOK'
  BY <1>1, Emptied DEF reset, TypeOK
<1>3. WildNeedsBareCR'
  BY <1>1 DEF WildNeedsBareCR
<1> QED
  BY <1>1, <1>2, <1>3 DEF IInv, WholeLineRuns, StaleOnlyAfterOneByte, ReadyFound

\* A step that leaves the history, and sms, leaves what is said of it.
LEMMA SameHistory ==
  ASSUME IInv, TypeOK', UNCHANGED <<sms, did>>
  PROVE  IInv'
BY DEF IInv, WholeLineRuns, StaleOnlyAfterOneByte, ReadyFound, WildNeedsBareCR

\* initHeap runs index.js, which may fail.
LEMMA StepHeap ==
  ASSUME IInv, initHeap
  PROVE  IInv'
<1>1. CASE heap_init' = TRUE /\ UNCHANGED <<rx_buf, spp_buffer, stack, sms, did>>
  <2>1. TypeOK'
    BY <1>1 DEF IInv, TypeOK
  <2> QED
    BY <1>1, <2>1, SameHistory
<1>2. CASE reset("script", <<>>)
  BY <1>2, StepReset
<1> QED
  BY <1>1, <1>2 DEF initHeap

\* A script fails, or the engine's stack is full.
LEMMA StepFails ==
  ASSUME script_fails
  PROVE  IInv'
<1>1. reset("script", <<>>) \/ reset("stack", <<>>)
  BY DEF script_fails
<1> QED
  BY <1>1, StepReset

\* An echo that goes wrong resets the module.
LEMMA StepEcho ==
  ASSUME NEW p, echo_faults(p)
  PROVE  IInv'
BY StepReset DEF echo_faults

\* A read of the serial line: what runs is what the terminator leaves of it.
LEMMA StepUart ==
  ASSUME IInv, NEW p \in Pieces, uart_rx_proc(p)
  PROVE  IInv'
<1>1. /\ heap_init' = heap_init /\ sms' = sms /\ spp_buffer' = spp_buffer
      /\ stack' = stack + 1 /\ stack < Reserve /\ rx_buf' = Terminated(p)
  BY DEF uart_rx_proc, exec_js, event_callback, Room
<1>2. /\ did'.event = "uart" /\ did'.piece = p
      /\ did'.text = UpTo(Terminated(p), "NUL")
  BY DEF uart_rx_proc, exec_js, Did
<1>3. Typed
  BY DEF IInv, TypeOK, Typed
<1>4. rx_buf' \in [1 .. RX_LEN -> {"x", "CR", "LF", "NUL"}]
  BY <1>1, <1>3, TerminatedType
<1>5. TypeOK'
  <2>1. stack' \in 0 .. Reserve
    BY <1>1, ConsoleAssumption DEF IInv, TypeOK
  <2> QED
    BY <1>1, <1>2, <1>4, <2>1 DEF IInv, TypeOK
<1>6. WholeLineRuns'
  <2>1. EndsLine(p) => UpTo(Terminated(p), "NUL") = LineOf(p)
    BY <1>3, RunsLine
  <2> QED
    BY <1>2, <2>1 DEF WholeLineRuns
<1>7. StaleOnlyAfterOneByte'
  <2>1. IsPrefix(UpTo(Terminated(p), "NUL"), p) \/ (Len(p) = 1 /\ p # <<"CR">>)
    BY <1>3, RunsPrefix
  <2> QED
    BY <1>2, <2>1 DEF StaleOnlyAfterOneByte
<1>8. ReadyFound' /\ WildNeedsBareCR'
  BY <1>2 DEF ReadyFound, WildNeedsBareCR
<1> QED
  BY <1>5, <1>6, <1>7, <1>8 DEF IInv

\* Bluetooth data is added to its line, or ends it.
LEMMA StepSpp ==
  ASSUME IInv, NEW d \in SppPieces, spp_line(d) \/ spp_data(d)
  PROVE  IInv'
<1>1. /\ heap_init' = heap_init /\ rx_buf' = rx_buf /\ sms' = sms
      /\ did'.event = "spp"
  BY DEF spp_line, spp_data, exec_js, Did
<1>2. spp_buffer' \in Seq({"x"}) /\ Len(spp_buffer') <= MaxSpp /\ stack' \in 0 .. Reserve
  <2>1. CASE spp_line(d)
    <3>1. spp_buffer' = <<>> /\ stack' = stack + 1 /\ stack < Reserve
      BY <2>1 DEF spp_line, exec_js, event_callback, Room
    <3> QED
      BY <3>1, ConsoleAssumption DEF IInv, TypeOK
  <2>2. CASE spp_data(d)
    <3>1. /\ spp_buffer' = spp_buffer \o Word(d) /\ stack' = stack
          /\ Len(spp_buffer \o Word(d)) <= MaxSpp
      BY <2>2 DEF spp_data
    <3>2. spp_buffer \in Seq({"x"}) /\ Word(d) \in Seq({"x"})
      BY WordType DEF IInv, TypeOK
    <3>3. spp_buffer \o Word(d) \in Seq({"x"})
      BY <3>2
    <3> QED
      BY <3>1, <3>3 DEF IInv, TypeOK
  <2> QED
    BY <2>1, <2>2
<1>3. TypeOK'
  BY <1>1, <1>2 DEF IInv, TypeOK
<1> QED
  BY <1>1, <1>3 DEF IInv, WholeLineRuns, StaleOnlyAfterOneByte, ReadyFound, WildNeedsBareCR

\* A text of the modem is searched for its lines.
LEMMA StepText ==
  ASSUME IInv, NEW t \in Texts, modem_text(t)
  PROVE  IInv'
<1>1. /\ UNCHANGED <<heap_init, rx_buf, spp_buffer, stack>>
      /\ sms' = (sms \/ <<"S">> \in FoundLines(t))
      /\ did'.event = "modem" /\ did'.piece = t
  BY DEF modem_text, Did
<1>2. TypeOK'
  <2>1. sms' \in BOOLEAN
    BY <1>1, Zenon
  <2> QED
    BY <1>1, <2>1 DEF IInv, TypeOK
<1>3. ReadyFound'
  <2>1. WholeLines(t) /\ SaysReady(t) => <<"S">> \in FoundLines(t)
    BY FindsReady, ConsoleAssumption
  <2> QED
    BY <1>1, <2>1, Zenon DEF ReadyFound
<1> QED
  BY <1>1, <1>2, <1>3 DEF IInv, WholeLineRuns, StaleOnlyAfterOneByte, WildNeedsBareCR

\* A line of negative length ends in a restart.
LEMMA StepWild ==
  ASSUME NEW T, NEW t \in Seq(T), wild(t)
  PROVE  IInv'
<1>1. ~PartOfLines(t)
  BY WildLacksLF DEF wild
<1> QED
  BY <1>1, StepReset DEF wild

-----------------------------------------------------------------------------
(* The theorems *)

\* The invariants hold together, in every state of every behaviour.
THEOREM Invariance == Spec => []IInv
<1>1. Init => IInv
  BY Initial
<1>2. IInv /\ [Next]_vars => IInv'
  <2> SUFFICES ASSUME IInv, [Next]_vars PROVE IInv'
    OBVIOUS
  <2>1. CASE initHeap \/ script_fails
    BY <2>1, StepHeap, StepFails
  <2>2. CASE \E p \in Pieces : uart_rx_proc(p) \/ echo_faults(p)
    BY <2>2, StepUart, StepEcho
  <2>3. CASE \E d \in SppPieces : spp_line(d) \/ spp_data(d) \/ wild(SppRest(d))
    BY <2>3, StepSpp, RestType, StepWild
  <2>4. CASE \E t \in Texts : wild(t) \/ modem_text(t)
    BY <2>4, StepText, StepWild, ConsoleAssumption
  <2>5. CASE UNCHANGED vars
    <3>1. TypeOK'
      BY <2>5 DEF IInv, TypeOK, vars
    <3> QED
      BY <2>5, <3>1, SameHistory DEF vars
  <2> QED
    BY <2>1, <2>2, <2>3, <2>4, <2>5 DEF Next
<1> QED
  BY <1>1, <1>2, PTL DEF Spec

\* Every variable keeps its type, the Bluetooth line its bound, and no event finds
\* the engine's stack beyond what is reserved: it is reset before.
THEOREM TypeCorrect == Spec => []TypeOK
BY Invariance, PTL DEF IInv

\* A line that arrives in one read of the serial line is run as it was typed,
\* whatever earlier reads left in rx_buf.
THEOREM LineTheorem == Spec => []WholeLineRuns
BY Invariance, PTL DEF IInv

\* What an earlier read left there runs again only after a read of one byte that
\* is not CR.
THEOREM StaleTheorem == Spec => []StaleOnlyAfterOneByte
BY Invariance, PTL DEF IInv

\* "SMS Ready" is found wherever it stands among whole lines: the loop over the
\* lines keeps their starts apart.
THEOREM ReadyTheorem == Spec => []ReadyFound
BY Invariance, PTL DEF IInv

\* No part of lines that end in CR LF, wherever two reads cut them, gives strncpy
\* a negative length.
THEOREM WildTheorem == Spec => []WildNeedsBareCR
BY Invariance, PTL DEF IInv
=============================================================================
