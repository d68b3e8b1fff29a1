------------------------- MODULE NixProcInfoProofs -------------------------
(***************************************************************************)
(* Proofs about process_cmdline (NixProcInfo): for every command line the  *)
(* kernel can lay out, splitting at NUL and popping the trailing empty     *)
(* pieces gives back the arguments up to the last nonempty one.            *)
(*                                                                         *)
(* The three scans of the model (the kernel's layout, slice::split and     *)
(* the pop loop) are recursive functions over 0..n.  Their defining        *)
(* equations come from FiniteNatInductiveDef; each induction over the data *)
(* takes the least index at which the claim fails and shows that index    *)
(* cannot exist.                                                           *)
(***************************************************************************)
EXTENDS NixProcInfo, NaturalsInduction, WellFoundedInduction, SequenceTheorems,
        TLAPS

\* The bytes an argument may hold: anything but NUL.
ArgBytes == Chars \cup {EQ}

\* A nonempty set of naturals has a least element.
LEMMA Least ==
    ASSUME NEW T \in SUBSET Nat, T # {}
    PROVE  \E m \in T : \A x \in T : m <= x
<1>1. PICK m \in T : \A y \in T : ~(<<y, m>> \in OpToRel(<, Nat))
  BY NatLessThanWellFounded, WFMin
<1>2. \A y \in T : ~(y < m)
  BY <1>1 DEF OpToRel
<1> QED
  BY <1>2

(* Induction over 0..n, stated with the set G of the indices where a claim *)
(* holds: if 0 is in G and G is closed under successor up to n, G holds    *)
(* every index up to n.                                                    *)
LEMMA UpTo ==
    ASSUME NEW n \in Nat, NEW G, 0 \in G,
           \A m \in 1..n : m - 1 \in G => m \in G
    PROVE  0..n \subseteq G
<1> DEFINE C == (0..n) \ G
<1>1. SUFFICES ASSUME C # {} PROVE FALSE
  OBVIOUS
<1>2. PICK m \in C : \A x \in C : m <= x
  <2>1. C \in SUBSET Nat
    OBVIOUS
  <2> QED
    BY <1>1, <2>1, Least
<1>3. m \in 1..n /\ m - 1 \in 0..n
  BY <1>2
<1>4. m - 1 \in G
  BY <1>2, <1>3
<1> QED
  BY <1>2, <1>3, <1>4

-----------------------------------------------------------------------------
(* The defining equations of the three scans.                              *)

LEMMA EncodeScanDef ==
    ASSUME NEW S, NEW items \in Seq(S)
    PROVE  EncodeScan(items) =
              [k \in 0..Len(items) |->
                 IF k = 0 THEN << >>
                 ELSE EncodeScan(items)[k - 1] \o Append(items[k], NUL)]
<1>1. Len(items) \in Nat
  OBVIOUS
<1>2. FiniteNatInductiveDefHypothesis(EncodeScan(items), << >>,
         LAMBDA v, k : v \o Append(items[k], NUL), 0, Len(items))
  BY DEF FiniteNatInductiveDefHypothesis, EncodeScan
<1>3. FiniteNatInductiveDefConclusion(EncodeScan(items), << >>,
         LAMBDA v, k : v \o Append(items[k], NUL), 0, Len(items))
  BY <1>1, <1>2, FiniteNatInductiveDef
<1> QED
  BY <1>3 DEF FiniteNatInductiveDefConclusion

LEMMA SplitScanDef ==
    ASSUME NEW S, NEW s \in Seq(S)
    PROVE  SplitScan(s) =
              [i \in 0..Len(s) |->
                 IF i = 0 THEN << << >> >>
                 ELSE SplitStep(SplitScan(s)[i - 1], s[i])]
<1>1. Len(s) \in Nat
  OBVIOUS
<1>2. FiniteNatInductiveDefHypothesis(SplitScan(s), << << >> >>,
         LAMBDA v, i : SplitStep(v, s[i]), 0, Len(s))
  BY DEF FiniteNatInductiveDefHypothesis, SplitScan
<1>3. FiniteNatInductiveDefConclusion(SplitScan(s), << << >> >>,
         LAMBDA v, i : SplitStep(v, s[i]), 0, Len(s))
  BY <1>1, <1>2, FiniteNatInductiveDef
<1> QED
  BY <1>3 DEF FiniteNatInductiveDefConclusion

LEMMA PopScanDef ==
    ASSUME NEW S, NEW r \in Seq(S)
    PROVE  PopScan(r) =
              [n \in 0..Len(r) |->
                 IF n = 0 THEN << >>
                 ELSE IF r[n] = << >> THEN PopScan(r)[n - 1]
                      ELSE SubSeq(r, 1, n)]
<1>1. Len(r) \in Nat
  OBVIOUS
<1>2. FiniteNatInductiveDefHypothesis(PopScan(r), << >>,
         LAMBDA v, n : IF r[n] = << >> THEN v ELSE SubSeq(r, 1, n),
         0, Len(r))
  BY DEF FiniteNatInductiveDefHypothesis, PopScan
<1>3. FiniteNatInductiveDefConclusion(PopScan(r), << >>,
         LAMBDA v, n : IF r[n] = << >> THEN v ELSE SubSeq(r, 1, n),
         0, Len(r))
  BY <1>1, <1>2, FiniteNatInductiveDef
<1> QED
  BY <1>3 DEF FiniteNatInductiveDefConclusion

\* Before the first byte there is one empty piece.
LEMMA SplitScanZero ==
    ASSUME NEW S, NEW s \in Seq(S)
    PROVE  SplitScan(s)[0] = << << >> >>
BY SplitScanDef

\* One step of slice::split's scan.
LEMMA SplitScanAt ==
    ASSUME NEW S, NEW s \in Seq(S), NEW i \in 1..Len(s)
    PROVE  SplitScan(s)[i] = SplitStep(SplitScan(s)[i - 1], s[i])
BY SplitScanDef

\* The first m elements are the first m - 1 and the m-th.
LEMMA SubSeqExtend ==
    ASSUME NEW S, NEW r \in Seq(S), NEW m \in 1..Len(r)
    PROVE  SubSeq(r, 1, m - 1) \o << r[m] >> = SubSeq(r, 1, m)
OBVIOUS

-----------------------------------------------------------------------------
(* slice::split looks only at the bytes it has passed: two buffers that    *)
(* agree on their first k bytes have the same pieces after k bytes.        *)
LEMMA ScanAgree ==
    ASSUME NEW S, NEW s \in Seq(S), NEW t \in Seq(S), NEW k \in Nat,
           k <= Len(s), k <= Len(t), \A i \in 1..k : s[i] = t[i]
    PROVE  SplitScan(s)[k] = SplitScan(t)[k]
<1> DEFINE C == {j \in 0..k : SplitScan(s)[j] # SplitScan(t)[j]}
<1>1. SUFFICES ASSUME C # {} PROVE FALSE
  OBVIOUS
<1>2. PICK m \in C : \A x \in C : m <= x
  <2>1. C \in SUBSET Nat
    OBVIOUS
  <2> QED
    BY <1>1, <2>1, Least
<1>3. /\ SplitScan(s)[0] = << << >> >>
      /\ SplitScan(t)[0] = << << >> >>
  BY SplitScanDef
<1>4. m # 0
  BY <1>2, <1>3
<1>5. SplitScan(s)[m - 1] = SplitScan(t)[m - 1]
  BY <1>2, <1>4
<1>6. /\ SplitScan(s)[m] = SplitStep(SplitScan(s)[m - 1], s[m])
      /\ SplitScan(t)[m] = SplitStep(SplitScan(t)[m - 1], t[m])
  BY <1>2, <1>4, SplitScanDef
<1> QED
  BY <1>2, <1>4, <1>5, <1>6

-----------------------------------------------------------------------------
(* Scanning the bytes of one argument: if the pieces so far end with an    *)
(* empty piece and the next bytes are the argument w (no NUL among them),  *)
(* the last piece becomes w.                                               *)
LEMMA ScanWord ==
    ASSUME NEW s \in Seq(ArgBytes \cup {NUL}), NEW L \in Nat,
           NEW w \in Seq(ArgBytes), NEW Q \in Seq(Seq(ArgBytes)),
           L + Len(w) <= Len(s), \A j \in 1..Len(w) : s[L + j] = w[j],
           SplitScan(s)[L] = Q \o << << >> >>
    PROVE  SplitScan(s)[L + Len(w)] = Q \o << w >>
<1> DEFINE G == {j \in 0..Len(w) : SplitScan(s)[L + j] = Q \o << SubSeq(w, 1, j) >>}
<1>1. 0 \in G
  <2>1. SubSeq(w, 1, 0) = << >> /\ L + 0 = L /\ 0 \in 0..Len(w)
    OBVIOUS
  <2>2. SplitScan(s)[L + 0] = Q \o << SubSeq(w, 1, 0) >>
    BY <2>1
  <2> QED
    BY <2>1, <2>2, Zenon DEF G
<1>2. ASSUME NEW m \in 1..Len(w), m - 1 \in G
      PROVE  m \in G
  <2> DEFINE x == SubSeq(w, 1, m - 1)
  <2>1. SplitScan(s)[L + (m - 1)] = Q \o << x >>
    BY <1>2 DEF G, x
  <2>2. SplitScan(s)[L + m] = SplitStep(SplitScan(s)[L + (m - 1)], s[L + m])
    <3>1. L + m \in 1..Len(s) /\ L + m - 1 = L + (m - 1)
      OBVIOUS
    <3> QED
      BY <3>1, SplitScanDef
  <2>3. s[L + m] = w[m] /\ w[m] \in ArgBytes /\ w[m] # NUL
    <3>1. w[m] \in ArgBytes
      OBVIOUS
    <3> QED
      BY <3>1, NixProcInfoAssumption DEF ArgBytes, NUL, EQ
  <2>4. x \in Seq(ArgBytes) /\ Append(x, w[m]) = SubSeq(w, 1, m)
    OBVIOUS
  <2>5. SplitStep(Q \o << x >>, w[m]) = Append(Q, Append(x, w[m]))
    <3>1. Front(Q \o << x >>) = Q /\ Last(Q \o << x >>) = x
      BY DEF Front, Last
    <3> QED
      BY <2>3, <3>1 DEF SplitStep
  <2>6. Append(Q, Append(x, w[m])) = Q \o << SubSeq(w, 1, m) >>
    <3>1. Append(x, w[m]) \in Seq(ArgBytes)
      BY <2>3, <2>4
    <3> QED
      BY <2>4, <3>1, AppendIsConcat
  <2>7. SplitScan(s)[L + m] = Q \o << SubSeq(w, 1, m) >>
    BY <2>1, <2>2, <2>3, <2>5, <2>6
  <2>8. m \in 0..Len(w)
    OBVIOUS
  <2> QED
    BY <2>7, <2>8, Zenon DEF G
<1>3. Len(w) \in G
  <2> HIDE DEF G
  <2>0. Len(w) \in Nat
    OBVIOUS
  <2>1. 0..Len(w) \subseteq G
    BY <2>0, <1>1, <1>2, UpTo
  <2> QED
    BY <2>0, <2>1
<1> QED
  <2>1. SubSeq(w, 1, Len(w)) = w
    OBVIOUS
  <2> QED
    BY <1>3, <2>1

(* One more item: if the layout e of the first m - 1 items splits into     *)
(* those items and an empty piece, the layout with item m and its NUL      *)
(* appended splits into the first m items and an empty piece.              *)
LEMMA EncodeStep ==
    ASSUME NEW items \in Seq(Seq(ArgBytes)), NEW m \in 1..Len(items),
           NEW e \in Seq(ArgBytes \cup {NUL}),
           SplitNul(e) = SubSeq(items, 1, m - 1) \o << << >> >>,
           NEW s, s = e \o Append(items[m], NUL)
    PROVE  /\ s \in Seq(ArgBytes \cup {NUL})
           /\ SplitNul(s) = SubSeq(items, 1, m) \o << << >> >>
<1> DEFINE w == items[m]
           L == Len(e)
           Q == SubSeq(items, 1, m - 1)
<1>1. w \in Seq(ArgBytes) /\ Q \in Seq(Seq(ArgBytes))
  OBVIOUS
<1>2. /\ Append(w, NUL) \in Seq(ArgBytes \cup {NUL})
      /\ Len(Append(w, NUL)) = Len(w) + 1
      /\ \A j \in 1..Len(w) : Append(w, NUL)[j] = w[j]
      /\ Append(w, NUL)[Len(w) + 1] = NUL
  <2>1. w \in Seq(ArgBytes \cup {NUL}) /\ NUL \in ArgBytes \cup {NUL}
    BY <1>1
  <2> QED
    BY <2>1
<1>3. s \in Seq(ArgBytes \cup {NUL}) /\ Len(s) = L + Len(w) + 1
  BY <1>2
<1>4. \A i \in 1..L : s[i] = e[i]
  BY <1>2
<1>5. \A j \in 1..Len(w) : s[L + j] = w[j]
  BY <1>2
<1>6. s[L + Len(w) + 1] = NUL
  BY <1>2
<1>7. SplitScan(s)[L] = Q \o << << >> >>
  <2>1. L \in Nat /\ L <= Len(s) /\ L <= Len(e)
    BY <1>3
  <2>2. SplitScan(s)[L] = SplitScan(e)[L]
    BY <1>3, <1>4, <2>1, ScanAgree
  <2> QED
    BY <2>2 DEF SplitNul
<1>8. SplitScan(s)[L + Len(w)] = Q \o << w >>
  <2>1. L \in Nat /\ L + Len(w) <= Len(s)
    BY <1>3
  <2> QED
    BY <1>1, <1>3, <1>5, <1>7, <2>1, ScanWord
<1>9. SplitNul(s) = Append(Q \o << w >>, << >>)
  <2>1. Len(s) \in 1..Len(s) /\ Len(s) - 1 = L + Len(w) /\ s[Len(s)] = NUL
    BY <1>3, <1>6
  <2>2. SplitScan(s)[Len(s)] =
           SplitStep(SplitScan(s)[Len(s) - 1], s[Len(s)])
    BY <1>3, <2>1, SplitScanAt
  <2>3. SplitNul(s) = SplitStep(Q \o << w >>, NUL)
    BY <1>8, <2>1, <2>2 DEF SplitNul
  <2> QED
    BY <2>3 DEF SplitStep
<1>10. Append(Q \o << w >>, << >>) = SubSeq(items, 1, m) \o << << >> >>
  <2>1. Q \o << w >> = SubSeq(items, 1, m)
    BY SubSeqExtend
  <2>2. Append(SubSeq(items, 1, m), << >>) = SubSeq(items, 1, m) \o << << >> >>
    OBVIOUS
  <2> QED
    BY <2>1, <2>2
<1> QED
  BY <1>3, <1>9, <1>10

(* The kernel's layout split at NUL gives back the items, and one empty    *)
(* piece after the final NUL: induction on the number of items, each step *)
(* by EncodeStep.                                                          *)
LEMMA SplitEncode ==
    ASSUME NEW items \in Seq(Seq(ArgBytes))
    PROVE  SplitNul(Encode(items)) = items \o << << >> >>
<1> DEFINE enc == EncodeScan(items)
<1> DEFINE G == {k \in 0..Len(items) :
                   /\ enc[k] \in Seq(ArgBytes \cup {NUL})
                   /\ SplitNul(enc[k]) = SubSeq(items, 1, k) \o << << >> >>}
<1> HIDE DEF G
<1>0. enc = [k \in 0..Len(items) |->
               IF k = 0 THEN << >> ELSE enc[k - 1] \o Append(items[k], NUL)]
  BY EncodeScanDef
<1>1. 0 \in G
  <2>1. enc[0] = << >>
    BY <1>0
  <2>2. << >> \in Seq(ArgBytes \cup {NUL})
    OBVIOUS
  <2>3. SplitNul(<< >>) = << << >> >>
    <3>1. SplitScan(<< >>)[0] = << << >> >>
      BY <2>2, SplitScanZero
    <3>2. Len(<< >>) = 0
      OBVIOUS
    <3> QED
      BY <3>1, <3>2 DEF SplitNul
  <2>4. SubSeq(items, 1, 0) = << >>
    OBVIOUS
  <2>5. << >> \o << << >> >> = << << >> >>
    OBVIOUS
  <2>6. 0 \in 0..Len(items)
    OBVIOUS
  <2> QED
    BY <2>1, <2>2, <2>3, <2>4, <2>5, <2>6, Zenon DEF G
<1>2. ASSUME NEW m \in 1..Len(items), m - 1 \in G
      PROVE  m \in G
  <2>1. m - 1 \in 0..Len(items) /\ m \in 0..Len(items) /\ m # 0
    OBVIOUS
  <2>2. /\ enc[m - 1] \in Seq(ArgBytes \cup {NUL})
        /\ SplitNul(enc[m - 1]) = SubSeq(items, 1, m - 1) \o << << >> >>
    BY <1>2, Zenon DEF G
  <2>3. enc[m] = enc[m - 1] \o Append(items[m], NUL)
    BY <1>0, <2>1
  <2>4. /\ enc[m] \in Seq(ArgBytes \cup {NUL})
        /\ SplitNul(enc[m]) = SubSeq(items, 1, m) \o << << >> >>
    BY <2>2, <2>3, EncodeStep
  <2> QED
    BY <2>1, <2>4, Zenon DEF G
<1>3. Len(items) \in G
  <2>0. Len(items) \in Nat
    OBVIOUS
  <2>1. 0..Len(items) \subseteq G
    BY <2>0, <1>1, <1>2, UpTo
  <2> QED
    BY <2>0, <2>1
<1> QED
  <2>1. SplitNul(enc[Len(items)]) = SubSeq(items, 1, Len(items)) \o << << >> >>
    BY <1>3, Zenon DEF G
  <2>2. SubSeq(items, 1, Len(items)) = items
    OBVIOUS
  <2> QED
    BY <2>1, <2>2 DEF Encode

-----------------------------------------------------------------------------
(* The pop loop.  Ends(r, h, j) says that h is where the loop stops on the *)
(* first j pieces: h is 0 or piece h is nonempty, and every piece after h  *)
(* up to j is empty.                                                       *)
Ends(r, h, j) ==
    /\ h = 0 \/ r[h] # << >>
    /\ \A i \in h + 1..j : r[i] = << >>

(* One more piece: the loop stops where it stopped on the first j - 1      *)
(* pieces if piece j is empty, and at j otherwise.                         *)
LEMMA PopStep ==
    ASSUME NEW S, NEW r \in Seq(S), NEW j \in 1..Len(r), NEW h \in 0..j - 1,
           Ends(r, h, j - 1), PopScan(r)[j - 1] = SubSeq(r, 1, h)
    PROVE  \E h2 \in 0..j : Ends(r, h2, j) /\ PopScan(r)[j] = SubSeq(r, 1, h2)
<1>1. PopScan(r)[j] = IF r[j] = << >> THEN PopScan(r)[j - 1] ELSE SubSeq(r, 1, j)
  <2>1. j \in 0..Len(r) /\ j # 0
    OBVIOUS
  <2> QED
    BY <2>1, PopScanDef
<1>2. CASE r[j] = << >>
  <2>1. Ends(r, h, j)
    BY <1>2 DEF Ends
  <2> QED
    BY <1>1, <1>2, <2>1
<1>3. CASE r[j] # << >>
  <2>1. Ends(r, j, j)
    BY <1>3 DEF Ends
  <2> QED
    BY <1>1, <1>3, <2>1
<1> QED
  BY <1>2, <1>3

(* The loop leaves the pieces up to the place it stops at. *)
LEMMA PopEnds ==
    ASSUME NEW S, NEW r \in Seq(S)
    PROVE  \E h \in 0..Len(r) : Ends(r, h, Len(r)) /\ PopTrailingEmpty(r) = SubSeq(r, 1, h)
<1> DEFINE G == {j \in 0..Len(r) :
                   \E h \in 0..j : Ends(r, h, j) /\ PopScan(r)[j] = SubSeq(r, 1, h)}
<1> HIDE DEF G
<1>1. 0 \in G
  <2>1. Ends(r, 0, 0) /\ PopScan(r)[0] = SubSeq(r, 1, 0)
    <3>1. PopScan(r)[0] = << >>
      BY PopScanDef
    <3> QED
      BY <3>1 DEF Ends
  <2>2. 0 \in 0..Len(r) /\ 0 \in 0..0
    OBVIOUS
  <2> QED
    BY <2>1, <2>2, Zenon DEF G
<1>2. ASSUME NEW j \in 1..Len(r), j - 1 \in G
      PROVE  j \in G
  <2>1. PICK h \in 0..j - 1 : Ends(r, h, j - 1) /\ PopScan(r)[j - 1] = SubSeq(r, 1, h)
    BY <1>2, Zenon DEF G
  <2>2. \E h2 \in 0..j : Ends(r, h2, j) /\ PopScan(r)[j] = SubSeq(r, 1, h2)
    BY <2>1, PopStep
  <2>3. j \in 0..Len(r)
    OBVIOUS
  <2> QED
    BY <2>2, <2>3, Zenon DEF G
<1>3. Len(r) \in G
  <2>0. Len(r) \in Nat
    OBVIOUS
  <2>1. 0..Len(r) \subseteq G
    BY <2>0, <1>1, <1>2, UpTo
  <2> QED
    BY <2>0, <2>1
<1> QED
  BY <1>3, Zenon DEF G, PopTrailingEmpty

(* Kept(a) is the prefix up to any place the loop may stop at. *)
LEMMA KeptAt ==
    ASSUME NEW S, NEW a \in Seq(S), NEW h \in 0..Len(a), Ends(a, h, Len(a))
    PROVE  Kept(a) = SubSeq(a, 1, h)
<1> DEFINE nonempty == {i \in 1..Len(a) : a[i] # << >>}
<1>1. CASE h = 0
  <2>1. nonempty = {}
    BY <1>1 DEF Ends
  <2> QED
    BY <1>1, <2>1 DEF Kept
<1>2. CASE h # 0
  <2>1. h \in nonempty /\ \A j \in nonempty : j <= h
    BY <1>2 DEF Ends
  <2>2. PICK c \in nonempty : \A j \in nonempty : j <= c
    BY <2>1
  <2>3. (CHOOSE i \in nonempty : \A j \in nonempty : j <= i) = h
    BY <2>1
  <2> QED
    BY <2>1, <2>3 DEF Kept
<1> QED
  BY <1>1, <1>2

(* process_cmdline's pop loop, run on the arguments and the empty piece    *)
(* after the final NUL, leaves the arguments without the trailing empty    *)
(* ones.                                                                   *)
LEMMA PopKept ==
    ASSUME NEW a \in Seq(Seq(ArgBytes))
    PROVE  PopTrailingEmpty(a \o << << >> >>) = Kept(a)
<1>1. /\ a \o << << >> >> \in Seq(Seq(ArgBytes))
      /\ Len(a \o << << >> >>) = Len(a) + 1
      /\ (a \o << << >> >>)[Len(a) + 1] = << >>
      /\ \A i \in 1..Len(a) : (a \o << << >> >>)[i] = a[i]
  OBVIOUS
<1>2. PICK h \in 0..Len(a \o << << >> >>) :
         /\ Ends(a \o << << >> >>, h, Len(a \o << << >> >>))
         /\ PopTrailingEmpty(a \o << << >> >>) = SubSeq(a \o << << >> >>, 1, h)
  BY <1>1, PopEnds
<1>3. h \in 0..Len(a)
  BY <1>1, <1>2 DEF Ends
<1>4. Ends(a, h, Len(a))
  BY <1>1, <1>2, <1>3 DEF Ends
<1>5. SubSeq(a \o << << >> >>, 1, h) = SubSeq(a, 1, h)
  BY <1>1, <1>3
<1>6. Kept(a) = SubSeq(a, 1, h)
  BY <1>3, <1>4, KeptAt
<1> QED
  BY <1>2, <1>5, <1>6

-----------------------------------------------------------------------------
(* process_cmdline on the kernel's layout of any argument list returns the *)
(* list up to its last nonempty argument.                                  *)
LEMMA CmdlineOfLayout ==
    ASSUME NEW a \in Seq(Seq(ArgBytes))
    PROVE  ProcessCmdline(Encode(a)) = Kept(a)
BY SplitEncode, PopKept DEF ProcessCmdline

\* The arguments a target can be started with are sequences of bytes.
LEMMA WordsAreSeqs ==
    BoundedSeq(Words, MaxArgs) \subseteq Seq(Seq(ArgBytes))
<1>1. ASSUME NEW S, NEW n \in Nat
      PROVE  BoundedSeq(S, n) \subseteq Seq(S)
  BY SeqDef DEF BoundedSeq, SeqOf
<1>2. Words \subseteq Seq(ArgBytes)
  BY <1>1, NixProcInfoAssumption DEF Words, ArgBytes
<1>3. BoundedSeq(Words, MaxArgs) \subseteq Seq(Words)
  BY <1>1, NixProcInfoAssumption
<1> QED
  BY <1>2, <1>3, SeqMonotonic

\* The inductive invariant: the arguments are byte strings, and the round
\* trip holds.
IInv ==
    /\ argv \in Seq(Seq(ArgBytes))
    /\ CmdlineRoundTrip

LEMMA InitIInv == Init => IInv
BY WordsAreSeqs DEF Init, IInv, CmdlineRoundTrip

LEMMA NextIInv == IInv /\ [Next]_vars => IInv'
<1> SUFFICES ASSUME IInv, [Next]_vars PROVE IInv'
  OBVIOUS
<1>1. CASE CallCmdline
  <2>1. readable => cmd' = Kept(argv)
    <3>1. readable => FileData(argv) = Encode(argv)
      BY DEF FileData
    <3> QED
      BY <1>1, <3>1, CmdlineOfLayout DEF CallCmdline, IInv
  <2> QED
    BY <1>1, <2>1 DEF CallCmdline, IInv, CmdlineRoundTrip
<1>2. CASE CallEnviron
  BY <1>2 DEF CallEnviron, IInv, CmdlineRoundTrip
<1>3. CASE UNCHANGED vars
  BY <1>3 DEF vars, IInv, CmdlineRoundTrip
<1> QED
  BY <1>1, <1>2, <1>3 DEF Next

(* For every alphabet and every bound on argument counts and lengths, once *)
(* process_cmdline has read a readable /proc/pid/cmdline it returns the    *)
(* target's arguments with the empty ones in the middle kept and only the  *)
(* trailing empty ones dropped (CmdlineRoundTrip): slice::split at NUL     *)
(* inverts the kernel's layout, and the while loop pops exactly the empty  *)
(* piece after the final NUL and the empty arguments before it.            *)
THEOREM CmdlineRoundTripHolds == Spec => []CmdlineRoundTrip
<1>1. Init => IInv
  BY InitIInv
<1>2. IInv /\ [Next]_vars => IInv'
  BY NextIInv
<1>3. IInv => CmdlineRoundTrip
  BY DEF IInv
<1> QED
  BY <1>1, <1>2, <1>3, PTL DEF Spec

=============================================================================
