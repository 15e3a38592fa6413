--------------------------- MODULE DpFunctionProofs --------------------------
(***************************************************************************)
(* Proofs about the functions behind the data points: the voice packs      *)
(* (VoicePack) and the frames of the raw points (RawDp).                   *)
(*                                                                         *)
(* Voice packs. Versions are earned because ver.txt is only written        *)
(* between a matching sum and the end of the handler; a pack reported in   *)
(* use is whole because err stays set once a command failed; the first     *)
(* installation survives power cuts because a pack is unpacked only when   *)
(* ver.txt does not name it.                                               *)
(*                                                                         *)
(* Frames. The encoders concatenate fields, the handler walks over them    *)
(* with a cursor; that the walk stops where the fields begin is an         *)
(* induction over the fields of an item and over the items. The library's  *)
(* induction theorems take operators, so Induct argues for sets, from a    *)
(* least counterexample, and Recursion derives from it that the functions  *)
(* the recursive definitions choose exist. DecodeMeant then says that the  *)
(* handler takes what the phone meant, RawInv keeps that for what is taken *)
(* and for what the robot holds, BodyMirrors carries it through the        *)
(* encoders, and FrameInv adds the lengths.                                *)
(***************************************************************************)
EXTENDS VoicePack, RawDp, FiniteSetTheorems, SequenceTheorems, WellFoundedInduction,
        TLAPS

----------------------------------------------------------------------------
(* Voice packs.                                                             *)

\* Type correctness of every state of the handler and the disk.
THEOREM TypeCorrect == Spec => []TypeOK
<1>1. Init => TypeOK
  BY VoiceAssumption DEF Init, TypeOK, Exts, Idle
<1>2. TypeOK /\ [Next]_vars => TypeOK'
  <2> SUFFICES ASSUME TypeOK, [Next]_vars PROVE TypeOK'
    OBVIOUS
  <2> USE VoiceAssumption DEF TypeOK, Idle, request, disk, history, Ok, Fails
  <2>1. ASSUME NEW l \in Langs, NEW v \in Versions, NEW e \in Exts, Request(l, v, e)
        PROVE  TypeOK'
    BY <2>1 DEF Request
  <2>2. CASE Unlink
    BY <2>2 DEF Unlink
  <2>3. CASE Relink
    BY <2>3 DEF Relink
  <2>4. CASE Download
    BY <2>4 DEF Download
  <2>5. CASE CheckSum
    BY <2>5 DEF CheckSum
  <2>6. CASE Unpack
    BY <2>6 DEF Unpack
  <2>7. CASE Unpacked
    BY <2>7 DEF Unpacked
  <2>8. CASE WriteVersion
    BY <2>8 DEF WriteVersion
  <2>9. CASE RemoveNow
    BY <2>9 DEF RemoveNow
  <2>10. CASE LinkNow
    BY <2>10 DEF LinkNow
  <2>11. CASE Result
    BY <2>11 DEF Result
  <2>12. CASE Crash
    BY <2>12 DEF Crash
  <2>13. CASE UNCHANGED vars
    BY <2>13 DEF vars
  <2>14. QED
    BY <2>1, <2>2, <2>3, <2>4, <2>5, <2>6, <2>7, <2>8, <2>9, <2>10, <2>11, <2>12,
       <2>13 DEF Next, Handler
<1>3. QED
  BY <1>1, <1>2, PTL DEF Spec

----------------------------------------------------------------------------
\* Between the matching sum and the end of the handler the pack is verified.
Earning ==
    pc \in {"unpack", "unpacking", "version", "unnow", "now"} =>
        <<lang, version>> \in verified

\* The inductive form of VersionEarned.
EarnedInv == TypeOK /\ VersionEarned /\ Earning

\* Every step keeps EarnedInv.
LEMMA EarnedStep == ASSUME EarnedInv, TypeOK', [Next]_vars PROVE EarnedInv'
<1> USE DEF EarnedInv, TypeOK, VersionEarned, Earning, Idle, request, disk, history,
              Ok, Fails
<1>1. ASSUME NEW l \in Langs, NEW v \in Versions, NEW e \in Exts, Request(l, v, e)
      PROVE  EarnedInv'
  BY <1>1 DEF Request
<1>2. CASE Unlink
  BY <1>2 DEF Unlink
<1>3. CASE Relink
  BY <1>3 DEF Relink
<1>4. CASE Download
  BY <1>4 DEF Download
<1>5. CASE CheckSum
  BY <1>5 DEF CheckSum
<1>6. CASE Unpack
  BY <1>6 DEF Unpack
<1>7. CASE Unpacked
  BY <1>7 DEF Unpacked
<1>8. CASE WriteVersion
  BY <1>8 DEF WriteVersion
<1>9. CASE RemoveNow
  BY <1>9 DEF RemoveNow
<1>10. CASE LinkNow
  BY <1>10 DEF LinkNow
<1>11. CASE Result
  BY <1>11 DEF Result
<1>12. CASE Crash
  BY <1>12 DEF Crash
<1>13. CASE UNCHANGED vars
  BY <1>13 DEF vars
<1>14. QED
  BY <1>1, <1>2, <1>3, <1>4, <1>5, <1>6, <1>7, <1>8,
     <1>9, <1>10, <1>11, <1>12, <1>13 DEF Next, Handler

\* A version file names only packs whose download matched its sum (ver.txt is
\* what lets a later request skip the download), for any number of requests,
\* failing commands and power cuts.
THEOREM VersionsAreEarned == Spec => []VersionEarned
<1>1. Init => EarnedInv
  BY VoiceAssumption DEF Init, EarnedInv, TypeOK, VersionEarned, Earning, Exts, Idle
<1>2. TypeOK /\ TypeOK' /\ EarnedInv /\ [Next]_vars => EarnedInv'
  BY EarnedStep
<1>3. EarnedInv => VersionEarned
  BY DEF EarnedInv
<1>4. QED
  BY TypeCorrect, <1>1, <1>2, <1>3, PTL DEF Spec

----------------------------------------------------------------------------
\* What holds of the disk after each command while no exit code was bad.
Installing ==
    /\ (pc \in {"version", "unnow", "now"} \/ (pc = "result" /\ ext # "other")) /\ err = 0
         => content[lang] = version
    /\ (pc \in {"unnow", "now"} \/ (pc = "result" /\ ext # "other")) /\ err = 0
         => verTxt[lang] = version
    /\ pc = "result" /\ ext # "other" /\ err = 0 => now = lang
    /\ pc \in {"unpack", "unpacking", "version", "unnow", "now"} => ext # "other"

\* Every step keeps Installing.
LEMMA InstallingStep ==
  ASSUME TypeOK, TypeOK', Installing, [Next]_vars PROVE Installing'
<1> USE DEF TypeOK, Installing, Idle, request, disk, history, Ok, Fails
<1>1. ASSUME NEW l \in Langs, NEW v \in Versions, NEW e \in Exts, Request(l, v, e)
      PROVE  Installing'
  BY <1>1 DEF Request
<1>2. CASE Unlink
  BY <1>2 DEF Unlink
<1>3. CASE Relink
  BY <1>3 DEF Relink
<1>4. CASE Download
  BY <1>4 DEF Download
<1>5. CASE CheckSum
  BY <1>5 DEF CheckSum
<1>6. CASE Unpack
  BY <1>6 DEF Unpack
<1>7. CASE Unpacked
  BY <1>7 DEF Unpacked
<1>8. CASE WriteVersion
  BY <1>8 DEF WriteVersion
<1>9. CASE RemoveNow
  BY <1>9 DEF RemoveNow
<1>10. CASE LinkNow
  BY <1>10 DEF LinkNow
<1>11. CASE Result
  BY <1>11 DEF Result
<1>12. CASE Crash
  BY <1>12 DEF Crash
<1>13. CASE UNCHANGED vars
  BY <1>13 DEF vars
<1>14. QED
  BY <1>1, <1>2, <1>3, <1>4, <1>5, <1>6, <1>7, <1>8,
     <1>9, <1>10, <1>11, <1>12, <1>13 DEF Next, Handler

\* A pack reported in use after its installation is whole, its version file
\* says so and the link names it.
THEOREM InstalledPacksAreInUse == Spec => InstalledIsInUse
<1>1. Init => Installing
  BY DEF Init, Installing, Idle
<1>2. TypeOK /\ TypeOK' /\ Installing /\ [Next]_vars => Installing'
  BY InstallingStep
<1>3. Installing /\ [Next]_vars =>
        [(pc = "result" /\ report' = 3 /\ ext # "other") =>
           /\ content[lang] = version /\ verTxt[lang] = version /\ now = lang]_vars
  <2> SUFFICES ASSUME Installing, Next, pc = "result", report' = 3, ext # "other"
               PROVE  content[lang] = version /\ verTxt[lang] = version /\ now = lang
    OBVIOUS
  <2>1. Result \/ Crash
    BY DEF Next, Handler, Request, Unlink, Relink, Download, CheckSum, Unpack, Unpacked,
           WriteVersion, RemoveNow, LinkNow, Idle
  <2>2. CASE Result
    BY <2>2 DEF Result, Installing
  <2>3. CASE Crash
    BY <2>3, VoiceAssumption DEF Crash
  <2>4. QED
    BY <2>1, <2>2, <2>3
<1>4. QED
  BY TypeCorrect, <1>1, <1>2, <1>3, PTL DEF Spec, InstalledIsInUse

----------------------------------------------------------------------------
\* The inductive form of FirstInstallCrashSafe: a pack is unpacked only when
\* its version file does not name it, and what a version file names was
\* unpacked; so unpacking over a named version makes a second one.
FirstInv ==
    /\ \A l \in Langs : verTxt[l] # None => <<l, verTxt[l]>> \in unpacked
    /\ pc \in {"download", "md5", "unpack", "unpacking", "version"} =>
         verTxt[lang] # version
    /\ pc \in {"unpacking", "version"} => <<lang, version>> \in unpacked
    /\ (faults = 0 /\ pc = "version") => content[lang] = version
    /\ FirstInstallCrashSafe

\* Two versions of a language in S are not one.
LEMMA TwoVersions ==
  ASSUME NEW S, NEW l, NEW v, NEW w, <<l, v>> \in S, <<l, w>> \in S,
         \A p, q \in S : (p[1] = l /\ q[1] = l) => p = q
  PROVE  v = w
<1>1. <<l, v>>[1] = l /\ <<l, w>>[1] = l
  OBVIOUS
<1>2. <<l, v>> = <<l, w>>
  BY <1>1
<1>3. QED
  BY <1>2

\* Every step keeps FirstInv.
LEMMA FirstStep == ASSUME TypeOK, TypeOK', FirstInv, [Next]_vars PROVE FirstInv'
<1> USE VoiceAssumption
    DEF TypeOK, FirstInv, FirstInstallCrashSafe, OneVersion, Idle, request, disk,
        history, Ok, Fails
<1>1. ASSUME NEW l \in Langs, NEW v \in Versions, NEW e \in Exts, Request(l, v, e)
      PROVE  FirstInv'
  BY <1>1 DEF Request
<1>2. CASE Unlink
  BY <1>2 DEF Unlink
<1>3. CASE Relink
  BY <1>3 DEF Relink
<1>4. CASE Download
  BY <1>4 DEF Download
<1>5. CASE CheckSum
  BY <1>5 DEF CheckSum
<1>6. CASE Unpack
  <2>1. ASSUME NEW l \in Langs, faults = 0, verTxt[l] # None, OneVersion(l)'
        PROVE  content'[l] = verTxt[l]
    <3>1. l # lang
      <4>1. verTxt[lang] # version /\ <<lang, version>> \in unpacked'
        BY <1>6 DEF Unpack
      <4>2. <<l, verTxt[l]>> \in unpacked'
        BY <1>6, <2>1 DEF Unpack
      <4>3. QED
        BY <4>1, <4>2, <2>1, TwoVersions
    <3>2. OneVersion(l)
      BY <1>6, <2>1 DEF Unpack
    <3>3. QED
      BY <1>6, <2>1, <3>1, <3>2 DEF Unpack
  <2>2. FirstInstallCrashSafe'
    BY <2>1, <1>6 DEF Unpack
  <2>3. QED
    BY <2>2, <1>6 DEF Unpack
<1>7. CASE Unpacked
  <2>1. ASSUME NEW l \in Langs, faults = 0, verTxt[l] # None, OneVersion(l)
        PROVE  content'[l] = verTxt[l]
    <3>1. l # lang
      <4>1. verTxt[lang] # version /\ <<lang, version>> \in unpacked
        BY <1>7 DEF Unpacked
      <4>2. <<l, verTxt[l]>> \in unpacked
        BY <2>1
      <4>3. QED
        BY <4>1, <4>2, <2>1, TwoVersions
    <3>2. QED
      BY <1>7, <2>1, <3>1 DEF Unpacked
  <2>2. FirstInstallCrashSafe'
    BY <2>1, <1>7 DEF Unpacked
  <2>3. QED
    BY <2>2, <1>7 DEF Unpacked
<1>8. CASE WriteVersion
  BY <1>8 DEF WriteVersion
<1>9. CASE RemoveNow
  BY <1>9 DEF RemoveNow
<1>10. CASE LinkNow
  BY <1>10 DEF LinkNow
<1>11. CASE Result
  BY <1>11 DEF Result
<1>12. CASE Crash
  BY <1>12 DEF Crash
<1>13. CASE UNCHANGED vars
  BY <1>13 DEF vars
<1>14. QED
  BY <1>1, <1>2, <1>3, <1>4, <1>5, <1>6, <1>7, <1>8,
     <1>9, <1>10, <1>11, <1>12, <1>13 DEF Next, Handler

\* Without failing commands, a power cut during the first installation of a
\* language leaves no version file for a torn pack.
THEOREM FirstInstallIsCrashSafe == Spec => []FirstInstallCrashSafe
<1>1. Init => FirstInv
  BY DEF Init, FirstInv, FirstInstallCrashSafe, Idle
<1>2. TypeOK /\ TypeOK' /\ FirstInv /\ [Next]_vars => FirstInv'
  BY FirstStep
<1>3. FirstInv => FirstInstallCrashSafe
  BY DEF FirstInv
<1>4. QED
  BY TypeCorrect, <1>1, <1>2, <1>3, PTL DEF Spec

----------------------------------------------------------------------------
(* Frames: induction and recursion.                                         *)

\* Induction over the numbers up to N, for a set: the library's theorems take an
\* operator.
LEMMA Induct ==
  ASSUME NEW N \in Nat, NEW T, 0 \in T, \A i \in 1..N : i - 1 \in T => i \in T
  PROVE  \A i \in 0..N : i \in T
<1> DEFINE C == {n \in Nat : n \in 0..N /\ n \notin T}
<1>1. SUFFICES ASSUME C # {} PROVE FALSE
  OBVIOUS
<1>0. C \subseteq Nat
  OBVIOUS
<1>2. PICK x \in C : \A y \in C : ~(<<y, x>> \in OpToRel(<, Nat))
  <2> HIDE DEF C
  <2> QED
    BY <1>0, <1>1, NatLessThanWellFounded, WFMin
<1>3. x \in 1..N /\ x \notin T
  OBVIOUS
<1>4. x - 1 \in 0..N /\ x - 1 \in Nat /\ x - 1 < x /\ x \in Nat
  BY <1>3
<1>5. <<x - 1, x>> \in OpToRel(<, Nat)
  BY <1>4 DEF OpToRel
<1>6. x - 1 \in T
  BY <1>2, <1>4, <1>5
<1> QED
  BY <1>3, <1>6

\* F is given by its first value and by the steps H from each to the next.
Steps(S, N, H) == H \in [1..N -> [S -> S]]
Iterates(S, N, a, H, F) ==
    F \in [0..N -> S] /\ F[0] = a /\ \A i \in 1..N : F[i] = H[i][F[i - 1]]

\* There is such an F.
LEMMA Recursion ==
  ASSUME NEW S, NEW a \in S, NEW N \in Nat, NEW H, Steps(S, N, H)
  PROVE  \E F : Iterates(S, N, a, H, F)
<1> USE DEF Steps
<1> DEFINE P(n) == \E F \in [0..n -> S] :
                      F[0] = a /\ \A i \in 1..n : F[i] = H[i][F[i - 1]]
           T == {n \in 0..N : P(n)}
<1>1. 0 \in T
  <2> DEFINE G == [i \in 0..0 |-> a]
  <2>1. G \in [0..0 -> S] /\ G[0] = a /\ \A i \in 1..0 : G[i] = H[i][G[i - 1]]
    OBVIOUS
  <2>2. P(0)
    <3> HIDE DEF G
    <3> QED
      BY <2>1
  <2> QED
    BY <2>2
<1>2. ASSUME NEW n \in 1..N, n - 1 \in T PROVE n \in T
  <2>1. PICK F \in [0..(n - 1) -> S] :
            F[0] = a /\ \A i \in 1..(n - 1) : F[i] = H[i][F[i - 1]]
    BY <1>2
  <2> DEFINE G == [i \in 0..n |-> IF i = n THEN H[n][F[n - 1]] ELSE F[i]]
  <2>2. F[n - 1] \in S /\ H[n][F[n - 1]] \in S
    OBVIOUS
  <2>3. G \in [0..n -> S] /\ G[0] = a
    BY <2>1, <2>2
  <2>4. ASSUME NEW i \in 1..n PROVE G[i] = H[i][G[i - 1]]
    <3>1. i - 1 \in 0..n /\ i - 1 # n /\ G[i - 1] = F[i - 1]
      OBVIOUS
    <3>2. CASE i = n
      BY <3>1, <3>2
    <3>3. CASE i # n
      <4>1. i \in 1..(n - 1) /\ G[i] = F[i]
        BY <3>3
      <4> QED
        BY <4>1, <3>1, <2>1
    <3> QED
      BY <3>2, <3>3
  <2>5. P(n)
    <3> HIDE DEF G
    <3> QED
      BY <2>3, <2>4
  <2> QED
    BY <2>5
<1>3. N \in T
  <2> HIDE DEF T
  <2>1. N \in 0..N
    OBVIOUS
  <2> QED
    BY <1>1, <1>2, <2>1, Induct
<1> QED
  BY <1>3 DEF Iterates

----------------------------------------------------------------------------
(* Concatenation of a sequence of sequences.                                *)

\* F holds the concatenations of the first 0, 1, 2 ... sequences of ss.
Joined(S, ss, F) ==
    /\ F \in [0..Len(ss) -> Seq(S)]
    /\ F[0] = <<>>
    /\ \A i \in 1..Len(ss) : F[i] = F[i - 1] \o ss[i]

\* There is such an F, by Recursion.
LEMMA JoinedExists ==
  ASSUME NEW S, NEW ss \in Seq(Seq(S))
  PROVE  \E F : Joined(S, ss, F)
<1> DEFINE N == Len(ss)
           H == [i \in 1..N |-> [x \in Seq(S) |-> x \o ss[i]]]
<1>1. N \in Nat /\ <<>> \in Seq(S)
  OBVIOUS
<1>2. ASSUME NEW i \in 1..N, NEW x \in Seq(S) PROVE x \o ss[i] \in Seq(S)
  <2>1. ss[i] \in Seq(S)
    OBVIOUS
  <2> QED
    BY <2>1
<1>3. H \in [1..N -> [Seq(S) -> Seq(S)]]
  BY <1>2
<1>4. \A i \in 1..N, x \in Seq(S) : H[i][x] = x \o ss[i]
  OBVIOUS
<1> HIDE DEF H, N
<1>5. PICK F \in [0..N -> Seq(S)] : F[0] = <<>> /\ \A i \in 1..N : F[i] = H[i][F[i - 1]]
  <2> DEFINE SS == Seq(S)
             e == <<>>
  <2>1. e \in SS /\ Steps(SS, N, H)
    BY <1>1, <1>3 DEF Steps
  <2>0. N \in Nat
    BY <1>1
  <2> HIDE DEF SS, e
  <2>2. \E F : Iterates(SS, N, e, H, F)
    BY <2>0, <2>1, Recursion
  <2> QED
    BY <2>2 DEF SS, e, Iterates
<1>6. ASSUME NEW i \in 1..N PROVE F[i] = F[i - 1] \o ss[i]
  <2>1. i - 1 \in 0..N
    BY <1>1
  <2>2. F[i - 1] \in Seq(S)
    BY <2>1
  <2> QED
    BY <1>4, <1>5, <2>2
<1> QED
  BY <1>5, <1>6 DEF Joined, N

\* FlattenSeq returns the last of them.
LEMMA FlattenJoined ==
  ASSUME NEW S, NEW ss \in Seq(Seq(S))
  PROVE  \E F : Joined(S, ss, F) /\ FlattenSeq(ss) = F[Len(ss)]
<1> DEFINE N == Len(ss)
<1>1. PICK F : Joined(S, ss, F)
  BY JoinedExists
<1>0. N \in Nat /\ \A i \in 1..N : ss[i] \in Seq(S) /\ <<>> \o ss[i] = ss[i]
  OBVIOUS
<1>2. CASE N = 0
  <2>1. FlattenSeq(ss) = ss /\ ss = <<>>
    BY <1>2 DEF FlattenSeq
  <2> QED
    BY <1>1, <1>2, <2>1 DEF Joined
<1>3. CASE N # 0
  <2> DEFINE E(f) == f = [i \in 1..N |-> IF i = 1 THEN ss[i] ELSE f[i - 1] \o ss[i]]
             g == [i \in 1..N |-> F[i]]
             fl == CHOOSE f : E(f)
  <2>0. FlattenSeq(ss) = fl[N]
    BY <1>3 DEF FlattenSeq
  <2> HIDE DEF N
  <2>1. F[0] = <<>> /\ \A i \in 1..N : F[i] = F[i - 1] \o ss[i]
    BY <1>1 DEF Joined, N
  <2>2. ASSUME NEW i \in 1..N PROVE F[i] = IF i = 1 THEN ss[i] ELSE g[i - 1] \o ss[i]
    <3>0. F[i] = F[i - 1] \o ss[i] /\ <<>> \o ss[i] = ss[i]
      BY <2>1, <1>0
    <3>1. CASE i = 1
      <4>1. F[i - 1] = <<>>
        BY <3>1, <2>1
      <4>2. F[i] = ss[i]
        BY <3>0, <4>1
      <4> QED
        BY <3>1, <4>2
    <3>2. CASE i # 1
      <4>1. i - 1 \in 1..N
        BY <1>0, <3>2
      <4>2. g[i - 1] = F[i - 1]
        BY <4>1
      <4> QED
        BY <4>2, <3>2, <2>1
    <3> QED
      BY <3>1, <3>2
  <2>3. E(g)
    BY <2>2
  <2>4. E(fl)
    <3> HIDE DEF E, g
    <3> QED
      BY <2>3
  <2> HIDE DEF fl
  <2>5. ASSUME NEW i \in 1..N PROVE fl[i] = IF i = 1 THEN ss[i] ELSE fl[i - 1] \o ss[i]
    BY <2>4
  <2> DEFINE T == {n \in 0..N : n # 0 => fl[n] = F[n]}
  <2>6. 0 \in T
    BY <1>0
  <2>7. ASSUME NEW i \in 1..N, i - 1 \in T PROVE i \in T
    <3>0. F[i] = F[i - 1] \o ss[i] /\ <<>> \o ss[i] = ss[i]
      BY <2>1, <1>0
    <3>1. CASE i = 1
      <4>1. F[i - 1] = <<>>
        BY <3>1, <2>1
      <4>2. F[i] = ss[i]
        BY <3>0, <4>1
      <4>3. fl[i] = ss[i]
        BY <3>1, <2>5
      <4>4. fl[i] = F[i]
        BY <4>2, <4>3
      <4> QED
        BY <4>4, <1>0
    <3>2. CASE i # 1
      <4>1. fl[i - 1] = F[i - 1]
        BY <2>7, <3>2
      <4>2. fl[i] = fl[i - 1] \o ss[i] /\ F[i] = F[i - 1] \o ss[i]
        BY <3>2, <2>1, <2>5
      <4>3. fl[i] = F[i]
        BY <4>1, <4>2
      <4> QED
        BY <4>3, <1>0
    <3> QED
      BY <3>1, <3>2
  <2>8. N \in T
    <3> HIDE DEF T
    <3>1. N \in 0..N
      BY <1>0
    <3> QED
      BY <2>6, <2>7, <1>0, <3>1, Induct
  <2>9. fl[N] = F[N]
    BY <2>8, <1>3
  <2> QED
    BY <1>1, <2>0, <2>9 DEF N
<1> QED
  BY <1>2, <1>3

\* The type and the length of a concatenation.
LEMMA CatSeq ==
  ASSUME NEW S, NEW a \in Seq(S), NEW b \in Seq(S)
  PROVE  a \o b \in Seq(S) /\ Len(a \o b) = Len(a) + Len(b)
OBVIOUS

\* Sequence s lies in d from position p on.
At(d, p, s) ==
    /\ p \in Nat \ {0}
    /\ p + Len(s) <= Len(d) + 1
    /\ \A j \in 1..Len(s) : d[p + j - 1] = s[j]

\* Both parts of a concatenation lie in it.
LEMMA AtJoin ==
  ASSUME NEW S, NEW a \in Seq(S), NEW b \in Seq(S)
  PROVE  a \o b \in Seq(S) /\ At(a \o b, 1, a) /\ At(a \o b, Len(a) + 1, b)
BY DEF At

\* What lies in a part lies in the whole.
LEMMA AtTrans ==
  ASSUME NEW S, NEW d \in Seq(S), NEW x \in Seq(S), NEW y \in Seq(S),
         NEW p, NEW q, At(d, p, x), At(x, q, y)
  PROVE  At(d, p + q - 1, y)
<1>1. p \in Nat \ {0} /\ q \in Nat \ {0} /\ Len(d) \in Nat /\ Len(x) \in Nat /\ Len(y) \in Nat
  BY DEF At
<1>2. p + q - 1 \in Nat \ {0} /\ p + q - 1 + Len(y) <= Len(d) + 1
  BY <1>1 DEF At
<1>3. ASSUME NEW j \in 1..Len(y) PROVE d[p + q - 1 + j - 1] = y[j]
  <2>1. x[q + j - 1] = y[j] /\ q + j - 1 \in 1..Len(x)
    BY <1>1 DEF At
  <2>2. d[p + (q + j - 1) - 1] = x[q + j - 1]
    BY <2>1 DEF At
  <2>3. p + (q + j - 1) - 1 = p + q - 1 + j - 1
    BY <1>1
  <2> QED
    BY <2>1, <2>2, <2>3
<1> QED
  BY <1>2, <1>3 DEF At

\* Every sequence lies in the concatenation, after the ones before it.
LEMMA JoinedAt ==
  ASSUME NEW S, NEW ss \in Seq(Seq(S)), NEW F, Joined(S, ss, F)
  PROVE  /\ F[Len(ss)] \in Seq(S)
         /\ \A i \in 1..Len(ss) : /\ F[i - 1] \in Seq(S)
                                  /\ Len(F[i]) = Len(F[i - 1]) + Len(ss[i])
                                  /\ At(F[Len(ss)], Len(F[i - 1]) + 1, ss[i])
<1> DEFINE N == Len(ss)
           T == {n \in 0..N : \A i \in 1..n : At(F[n], Len(F[i - 1]) + 1, ss[i])}
<1>0. N \in Nat /\ (\A i \in 1..N : ss[i] \in Seq(S)) /\ F \in [0..N -> Seq(S)]
      /\ \A i \in 1..N : F[i] = F[i - 1] \o ss[i]
  <2>1. N \in Nat /\ \A i \in 1..N : ss[i] \in Seq(S)
    OBVIOUS
  <2> HIDE DEF N
  <2>2. F \in [0..N -> Seq(S)] /\ \A i \in 1..N : F[i] = F[i - 1] \o ss[i]
    BY DEF Joined, N
  <2> QED
    BY <2>1, <2>2
<1> HIDE DEF N
<1>00. ASSUME NEW i \in 1..N PROVE F[i - 1] \in Seq(S) /\ ss[i] \in Seq(S) /\ F[i] \in Seq(S)
  BY <1>0
<1>1. 0 \in T
  BY <1>0
<1>2. ASSUME NEW n \in 1..N, n - 1 \in T PROVE n \in T
  <2>0. F[n] = F[n - 1] \o ss[n] /\ F[n - 1] \in Seq(S) /\ ss[n] \in Seq(S) /\ F[n] \in Seq(S)
    BY <1>0, <1>00
  <2>1. At(F[n], 1, F[n - 1]) /\ At(F[n], Len(F[n - 1]) + 1, ss[n])
    BY <2>0, AtJoin
  <2>2. ASSUME NEW i \in 1..n PROVE At(F[n], Len(F[i - 1]) + 1, ss[i])
    <3>1. CASE i = n
      BY <3>1, <2>1
    <3>2. CASE i # n
      <4>1. i \in 1..(n - 1) /\ i \in 1..N
        BY <3>2, <1>0
      <4>2. At(F[n - 1], Len(F[i - 1]) + 1, ss[i]) /\ ss[i] \in Seq(S) /\ Len(F[i - 1]) \in Nat
        BY <4>1, <1>2, <1>00
      <4>3. At(F[n], 1 + (Len(F[i - 1]) + 1) - 1, ss[i])
        BY <2>0, <2>1, <4>2, AtTrans
      <4>4. 1 + (Len(F[i - 1]) + 1) - 1 = Len(F[i - 1]) + 1
        BY <4>2
      <4> QED
        BY <4>3, <4>4
    <3> QED
      BY <3>1, <3>2
  <2> QED
    BY <2>2, <1>0
<1>3. N \in T
  <2> HIDE DEF T
  <2>1. N \in 0..N
    BY <1>0
  <2> QED
    BY <1>0, <1>1, <1>2, <2>1, Induct
<1>4. ASSUME NEW i \in 1..N PROVE Len(F[i]) = Len(F[i - 1]) + Len(ss[i])
  <2>1. F[i - 1] \in Seq(S) /\ ss[i] \in Seq(S)
    BY <1>00
  <2>2. F[i] = F[i - 1] \o ss[i]
    BY <1>0
  <2>3. Len(F[i - 1] \o ss[i]) = Len(F[i - 1]) + Len(ss[i])
    BY <2>1
  <2> QED
    BY <2>2, <2>3
<1>5. F[N] \in Seq(S)
  BY <1>0
<1> QED
  BY <1>00, <1>3, <1>4, <1>5 DEF N

----------------------------------------------------------------------------
(* Words and fields.                                                        *)

\* A word with its sign.
LEMMA WordBounds == \A v \in Word : v \in Int /\ -32768 <= v /\ v <= 32767
<1>1. \A a, b \in Int : \A v \in a..b : v \in Int /\ a <= v /\ v <= b
  OBVIOUS
<1> DEFINE lo == -32768
           hi == 32767
<1>2. lo \in Int /\ hi \in Int
  OBVIOUS
<1>3. Word = lo..hi
  BY DEF Word
<1> HIDE DEF lo, hi
<1>4. \A v \in Word : v \in Int /\ lo <= v /\ v <= hi
  BY <1>1, <1>2, <1>3
<1> QED
  BY <1>4 DEF lo, hi

\* A word is two bytes, whatever it is, and comes back with its sign.
LEMMA WordBytes ==
  ASSUME NEW v \in Int
  PROVE  tonb16(v) \in Seq(Bytes) /\ Len(tonb16(v)) = 2
BY DEF tonb16, Bytes

\* nbto16 undoes tonb16 on words with a sign.
LEMMA WordBack ==
  ASSUME NEW v \in Word, NEW b, b[1] = tonb16(v)[1], b[2] = tonb16(v)[2]
  PROVE  nbto16(b) = v
<1> DEFINE h == v \div 256
           l == v % 256
<1>1. h \in -128..127 /\ l \in 0..255 /\ v = 256 * h + l
  <2>0. v \in Int /\ -32768 <= v /\ v <= 32767
    BY WordBounds
  <2>1. l \in 0..255 /\ h \in Int
    BY <2>0
  <2>2. v = 256 * h + l
    BY <2>0
  <2>3. -128 <= h /\ h <= 127
    <3> HIDE DEF h, l
    <3> QED
      BY <2>0, <2>1, <2>2
  <2> QED
    BY <2>1, <2>2, <2>3
<1>2. b[1] = h % 256 /\ b[2] = l
  BY DEF tonb16
<1>3. h % 256 = IF h >= 0 THEN h ELSE h + 256
  BY <1>1
<1> HIDE DEF h, l
<1> QED
  BY <1>1, <1>2, <1>3 DEF nbto16

\* A concatenation of sequences of one length.
LEMMA FlattenEven ==
  ASSUME NEW S, NEW ss \in Seq(Seq(S)), NEW w \in Nat,
         \A i \in 1..Len(ss) : Len(ss[i]) = w
  PROVE  /\ FlattenSeq(ss) \in Seq(S)
         /\ Len(FlattenSeq(ss)) = w * Len(ss)
         /\ \A i \in 1..Len(ss) : At(FlattenSeq(ss), w * (i - 1) + 1, ss[i])
<1>1. PICK F : Joined(S, ss, F) /\ FlattenSeq(ss) = F[Len(ss)]
  BY FlattenJoined
<1>2. /\ F[Len(ss)] \in Seq(S)
      /\ \A i \in 1..Len(ss) : /\ F[i - 1] \in Seq(S)
                               /\ Len(F[i]) = Len(F[i - 1]) + Len(ss[i])
                               /\ At(F[Len(ss)], Len(F[i - 1]) + 1, ss[i])
  BY <1>1, JoinedAt
<1>3. F[0] = <<>>
  BY <1>1 DEF Joined
<1> DEFINE N == Len(ss)
           T == {n \in 0..N : Len(F[n]) = w * n}
<1>4. N \in Nat
  OBVIOUS
<1>5. \A i \in 1..N : Len(F[i]) = Len(F[i - 1]) + w
  BY <1>2
<1> HIDE DEF N
<1>6. 0 \in T
  BY <1>3, <1>4
<1>7. ASSUME NEW i \in 1..N, i - 1 \in T PROVE i \in T
  <2>1. Len(F[i]) = w * (i - 1) + w
    BY <1>5, <1>7
  <2>2. w * (i - 1) + w = w * i
    BY <1>4
  <2> QED
    BY <2>1, <2>2, <1>4
<1>8. \A i \in 0..N : i \in T
  <2> HIDE DEF T
  <2> QED
    BY <1>4, <1>6, <1>7, Induct
<1>9. N \in 0..N /\ \A i \in 1..N : i - 1 \in 0..N
  BY <1>4
<1>10. Len(F[N]) = w * N /\ \A i \in 1..N : Len(F[i - 1]) = w * (i - 1)
  BY <1>8, <1>9
<1>11. ASSUME NEW i \in 1..N PROVE At(F[N], w * (i - 1) + 1, ss[i])
  BY <1>2, <1>10 DEF N
<1> QED
  BY <1>1, <1>2, <1>10, <1>11 DEF N

\* A concatenation is a sequence of the same elements.
LEMMA FlattenType ==
  ASSUME NEW S, NEW ss \in Seq(Seq(S))
  PROVE  FlattenSeq(ss) \in Seq(S)
<1>1. PICK F : Joined(S, ss, F) /\ FlattenSeq(ss) = F[Len(ss)]
  BY FlattenJoined
<1> QED
  BY <1>1, JoinedAt, ZenonT(30)

\* The points of a polygon.
Points(v) == [k \in DOMAIN v |-> tonb16(v[k][1]) \o tonb16(v[k][2])]

\* One point: its two words.
LEMMA PointsElt ==
  ASSUME NEW v, NEW k \in DOMAIN v
  PROVE  Points(v)[k] = tonb16(v[k][1]) \o tonb16(v[k][2])
BY DEF Points

\* The points of a polygon take four bytes each, one after the other.
LEMMA PointsBytes ==
  ASSUME NEW v \in Seq(Int \X Int)
  PROVE  /\ Points(v) \in Seq(Seq(Bytes)) /\ Len(Points(v)) = Len(v)
         /\ \A k \in 1..Len(v) : Len(Points(v)[k]) = 4
         /\ FlattenSeq(Points(v)) \in Seq(Bytes)
         /\ Len(FlattenSeq(Points(v))) = 4 * Len(v)
         /\ \A k \in 1..Len(v) : At(FlattenSeq(Points(v)), 4 * (k - 1) + 1, Points(v)[k])
<1>1. ASSUME NEW k \in DOMAIN v
      PROVE  tonb16(v[k][1]) \o tonb16(v[k][2]) \in Seq(Bytes)
             /\ Len(tonb16(v[k][1]) \o tonb16(v[k][2])) = 4
  <2>1. v[k][1] \in Int /\ v[k][2] \in Int
    OBVIOUS
  <2> DEFINE a == tonb16(v[k][1])
             b == tonb16(v[k][2])
  <2>2. a \in Seq(Bytes) /\ Len(a) = 2 /\ b \in Seq(Bytes) /\ Len(b) = 2
    BY <2>1, WordBytes
  <2> HIDE DEF a, b
  <2>3. a \o b \in Seq(Bytes) /\ Len(a \o b) = Len(a) + Len(b)
    BY <2>2, CatSeq
  <2>5. Len(a \o b) = 4
    BY <2>2, <2>3
  <2> QED
    BY <2>3, <2>5 DEF a, b
<1>2. DOMAIN v = 1..Len(v) /\ Len(v) \in Nat
  OBVIOUS
<1>3. Points(v) \in Seq(Seq(Bytes)) /\ Len(Points(v)) = Len(v)
  BY <1>1, <1>2 DEF Points
<1>4. \A k \in 1..Len(v) : Len(Points(v)[k]) = 4
  BY <1>1, <1>2 DEF Points
<1> QED
  BY <1>3, <1>4, FlattenEven

\* Words are integers ...
LEMMA WordInt == \A v \in Word : v \in Int
BY WordBounds

\* ... and so are the coordinates of points.
LEMMA WordPairs ==
  ASSUME NEW v \in Seq(Word \X Word)
  PROVE  v \in Seq(Int \X Int) /\ \A k \in 1..Len(v) : v[k][1] \in Word /\ v[k][2] \in Word
<1>1. Word \subseteq Int
  BY WordInt
<1>2. ASSUME NEW k \in 1..Len(v) PROVE v[k][1] \in Word /\ v[k][2] \in Word /\ v[k] \in Int \X Int
  <2>1. v[k] \in Word \X Word
    OBVIOUS
  <2> QED
    BY <2>1, <1>1
<1>3. Len(v) \in Nat /\ v = [k \in 1..Len(v) |-> v[k]]
  OBVIOUS
<1>4. v \in Seq(Int \X Int)
  BY <1>2, <1>3
<1> QED
  BY <1>2, <1>4

\* Every field of a request is bytes.
LEMMA OneByte == \A n \in Nat : n <= 255 => <<n>> \in Seq(Bytes) /\ Len(<<n>>) = 1
BY DEF Bytes

\* The length of a list of at most 255 bytes is a byte.
LEMMA ByteSeq ==
  ASSUME NEW v \in Seq(Bytes), Len(v) <= 255
  PROVE  Len(v) \in Nat /\ <<Len(v)>> \in Seq(Bytes) /\ Len(<<Len(v)>>) = 1
BY OneByte

\* Names are padded to NameField bytes, longer ones cut.
LEMMA PadBytes ==
  ASSUME NEW v \in Seq(Bytes)
  PROVE  Pad(v) \in Seq(Bytes) /\ Len(Pad(v)) = NameField
<1>1. ASSUME NEW k \in 1..NameField PROVE (IF k <= Len(v) THEN v[k] ELSE 0) \in Bytes
  <2>1. k \in Nat \ {0} /\ Len(v) \in Nat /\ 0 \in Bytes
    BY DEF Bytes, NameField
  <2>2. k <= Len(v) => v[k] \in Bytes
    BY <2>1
  <2> QED
    BY <2>1, <2>2
<1>2. Pad(v) \in [1..NameField -> Bytes] /\ NameField \in Nat
  BY <1>1 DEF Pad, NameField
<1> QED
  BY <1>2

\* A field that fits its kind is sent in bytes, at least one.
LEMMA FieldBytes ==
  ASSUME NEW f, NEW v, FieldOK(f, v)
  PROVE  RequestField(f, v) \in Seq(Bytes) /\ Len(RequestField(f, v)) \in Nat \ {0}
<1>1. CASE f \in Words
  <2>1. v \in Word /\ RequestField(f, v) = tonb16(v)
    BY <1>1 DEF FieldOK, RequestField, Words, Coordinates
  <2> QED
    BY <2>1, WordInt, WordBytes, SMTT(30)
<1>2. CASE f \notin Words /\ f = "polygon"
  <2>1. v \in Seq(Word \X Word) /\ Len(v) \in Nat /\ Len(v) <= 255
    BY <1>2 DEF FieldOK
  <2>2. v \in Seq(Int \X Int)
    BY <2>1, WordPairs
  <2>3. RequestField(f, v) = <<Len(v)>> \o FlattenSeq(Points(v))
    BY <1>2 DEF RequestField, Points
  <2>4. FlattenSeq(Points(v)) \in Seq(Bytes)
    BY <2>2, PointsBytes
  <2>5. <<Len(v)>> \in Seq(Bytes) /\ Len(<<Len(v)>>) = 1
    BY <2>1, OneByte
  <2> QED
    BY <2>3, <2>4, <2>5, CatSeq
<1>3. CASE f \notin Words /\ f = "rooms"
  <2>1. v \in Seq(Bytes) /\ Len(v) \in Nat /\ <<Len(v)>> \in Seq(Bytes)
    BY <1>3, ByteSeq DEF FieldOK
  <2>2. RequestField(f, v) = <<Len(v)>> \o v
    BY <1>3 DEF RequestField
  <2> QED
    BY <2>1, <2>2, CatSeq
<1>4. CASE f \notin Words /\ f = "name"
  <2>1. v \in Seq(Bytes) /\ Len(v) \in Nat /\ <<Len(v)>> \in Seq(Bytes)
    BY <1>4, ByteSeq DEF FieldOK, NameField
  <2>2. RequestField(f, v) = <<Len(v)>> \o Pad(v)
    BY <1>4 DEF RequestField
  <2>3. Pad(v) \in Seq(Bytes) /\ Len(Pad(v)) = NameField /\ NameField \in Nat
    BY <2>1, PadBytes DEF NameField
  <2> QED
    BY <2>1, <2>2, <2>3, CatSeq
<1>5. CASE f \notin Words \cup {"polygon", "rooms", "name"}
  <2>1. v \in Bytes /\ RequestField(f, v) = <<v>>
    BY <1>5 DEF FieldOK, RequestField, Bytes
  <2> QED
    BY <2>1
<1> QED
  BY <1>1, <1>2, <1>3, <1>4, <1>5

\* Both parts lie where the concatenation lies.
LEMMA AtCat ==
  ASSUME NEW S, NEW d \in Seq(S), NEW a \in Seq(S), NEW b \in Seq(S), NEW p,
         At(d, p, a \o b)
  PROVE  p \in Nat \ {0} /\ At(d, p, a) /\ At(d, p + Len(a), b)
<1>1. p \in Nat \ {0} /\ Len(a) \in Nat
  BY DEF At
<1>2. At(a \o b, 1, a) /\ At(a \o b, Len(a) + 1, b) /\ a \o b \in Seq(S)
  BY AtJoin
<1>3. At(d, p + 1 - 1, a) /\ At(d, p + (Len(a) + 1) - 1, b)
  BY <1>2, AtTrans
<1>4. p + 1 - 1 = p /\ p + (Len(a) + 1) - 1 = p + Len(a)
  BY <1>1
<1> QED
  BY <1>1, <1>3, <1>4

\* What lies at p is what SubSeq cuts out there.
LEMMA AtSubSeq ==
  ASSUME NEW S, NEW d \in Seq(S), NEW v \in Seq(S), NEW p, At(d, p, v)
  PROVE  SubSeq(d, p, p + Len(v) - 1) = v
<1>1. p \in Nat \ {0} /\ Len(v) \in Nat /\ Len(d) \in Nat /\ p + Len(v) <= Len(d) + 1
  BY DEF At
<1> DEFINE t == SubSeq(d, p, p + Len(v) - 1)
           n == p + Len(v) - 1
<1>2. n \in Int /\ n <= Len(d) /\ n - p + 1 = Len(v)
  BY <1>1
<1>3. t \in Seq(S) /\ Len(t) = Len(v) /\ \A j \in 1..Len(v) : t[j] = d[p + j - 1]
  BY <1>1, <1>2, SMTT(30)
<1>4. \A j \in 1..Len(v) : t[j] = v[j]
  BY <1>3 DEF At
<1> HIDE DEF t
<1>5. t = v
  BY <1>3, <1>4, SeqEqual
<1> QED
  BY <1>5 DEF t

\* A word read where it lies.
LEMMA WordAt ==
  ASSUME NEW v \in Word, NEW d \in Seq(Bytes), NEW p, At(d, p, tonb16(v))
  PROVE  nbto16(SubSeq(d, p, p + 1)) = v
<1>1. tonb16(v) \in Seq(Bytes) /\ Len(tonb16(v)) = 2
  BY WordInt, WordBytes
<1>2. SubSeq(d, p, p + Len(tonb16(v)) - 1) = tonb16(v)
  BY <1>1, AtSubSeq
<1>3. p \in Nat
  BY DEF At
<1>4. p + Len(tonb16(v)) - 1 = p + 1
  BY <1>1, <1>3
<1>5. SubSeq(d, p, p + 1) = tonb16(v)
  BY <1>2, <1>4
<1> QED
  BY <1>5, WordBack

----------------------------------------------------------------------------
(* Reading a field where it lies gives the value the phone wrote.           *)

\* Field f with value v in metres, when byte n of the field is read at resolution
\* u[n] (counted from 0).
Metres(u, f, v) ==
    CASE f \in Coordinates -> v * u[0]
      [] f = "polygon" ->
            [j \in DOMAIN v |-> <<v[j][1] * u[4*j - 3], v[j][2] * u[4*j - 1]>>]
      [] f = "name" -> v \o <<0>>
      [] OTHER -> v

\* The resolutions from byte p of a request on, while maps ms come in.
From(ms, p) == [n \in Nat |-> ResAt(ms, p + n)]

\* All are in force during that request.
LEMMA FromInForce ==
  ASSUME NEW ms \in Arrivals, NEW p
  PROVE  From(ms, p) \in [Nat -> InForce(ms)]
<1>1. ms \in Seq([cut : Nat, res : Resolutions])
  <2>1. Arrivals \subseteq Seq([cut : Nat, res : Resolutions])
    BY RawAssumption
  <2> QED
    BY <2>1, ZenonT(30)
<1>2. DOMAIN ms = 1..Len(ms) /\ Len(ms) \in Nat
  BY <1>1
<1>3. ASSUME NEW q PROVE ResAt(ms, q) \in InForce(ms)
  <2> DEFINE P == {j \in DOMAIN ms : ms[j].cut <= q}
  <2>1. IsFiniteSet(1..Len(ms)) /\ Cardinality(1..Len(ms)) = Len(ms)
    <3>1. Len(ms) \in Int /\ 1 \in Int /\ (IF 1 > Len(ms) THEN 0 ELSE Len(ms) - 1 + 1) = Len(ms)
      BY <1>2
    <3>2. /\ IsFiniteSet(1..Len(ms))
          /\ Cardinality(1..Len(ms)) = IF 1 > Len(ms) THEN 0 ELSE Len(ms) - 1 + 1
      BY <3>1, FS_Interval, Zenon
    <3> QED
      BY <3>1, <3>2
  <2>2. P \in SUBSET (1..Len(ms))
    BY <1>2
  <2> HIDE DEF P
  <2>3. Cardinality(P) \in Nat /\ Cardinality(P) <= Len(ms)
    BY <2>1, <2>2, FS_Subset, FS_CardinalityType
  <2>4. ResAt(ms, q) = IF Cardinality(P) = 0 THEN res ELSE ms[Cardinality(P)].res
    BY DEF ResAt, P
  <2>5. Cardinality(P) # 0 => Cardinality(P) \in DOMAIN ms
    BY <1>2, <2>3
  <2> QED
    BY <2>4, <2>5 DEF InForce
<1> QED
  BY <1>3 DEF From

FieldReads(d, p, f, v) ==
    /\ FieldWidth(d, p, f) = Len(RequestField(f, v))
    /\ \A ms : FieldValue(d, p, f, ms) = Metres(From(ms, p), f, v)

\* A word.
LEMMA ReadWord ==
  ASSUME NEW d \in Seq(Bytes), NEW p, NEW f \in Words, NEW v, FieldOK(f, v),
         At(d, p, RequestField(f, v))
  PROVE  FieldReads(d, p, f, v)
<1>1. v \in Word /\ RequestField(f, v) = tonb16(v)
  BY DEF FieldOK, RequestField, Words, Coordinates
<1>2. Len(tonb16(v)) = 2
  BY <1>1, WordInt, WordBytes
<1>3. nbto16(SubSeq(d, p, p + 1)) = v
  BY <1>1, WordAt
<1>4. FieldWidth(d, p, f) = 2
  BY DEF FieldWidth, Words, Coordinates
<1>5. CASE f \in Coordinates
  <2>1. \A ms : FieldValue(d, p, f, ms) = ToMars(ms, p, nbto16(SubSeq(d, p, p + 1)))
    BY <1>5 DEF FieldValue, Words, Coordinates
  <2>2. \A u : Metres(u, f, v) = v * u[0]
    BY <1>5 DEF Metres, Coordinates
  <2>3. p + 0 = p
    BY DEF At
  <2>4. \A ms : From(ms, p)[0] = ResAt(ms, p)
    BY <2>3 DEF From
  <2> QED
    BY <1>1, <1>2, <1>3, <1>4, <2>1, <2>2, <2>4 DEF FieldReads, ToMars
<1>6. CASE f \notin Coordinates
  <2>1. \A ms : FieldValue(d, p, f, ms) = nbto16(SubSeq(d, p, p + 1))
    BY <1>6 DEF FieldValue, Words, Coordinates
  <2>2. \A u : Metres(u, f, v) = v
    BY <1>6 DEF Metres, Words, Coordinates
  <2> QED
    BY <1>1, <1>2, <1>3, <1>4, <2>1, <2>2 DEF FieldReads
<1> QED
  BY <1>5, <1>6

\* Point j of a polygon that lies at p.
LEMMA ReadPoint ==
  ASSUME NEW d \in Seq(Bytes), NEW p, NEW v \in Seq(Word \X Word), NEW j \in 1..Len(v),
         p \in Nat \ {0}, At(d, p + 1, FlattenSeq(Points(v)))
  PROVE  /\ nbto16(SubSeq(d, p + 4*j - 3, p + 4*j - 2)) = v[j][1]
         /\ nbto16(SubSeq(d, p + 4*j - 1, p + 4*j)) = v[j][2]
<1> DEFINE a == tonb16(v[j][1])
           b == tonb16(v[j][2])
           q == p + 4*j - 3
<1>1. v \in Seq(Int \X Int) /\ v[j][1] \in Word /\ v[j][2] \in Word
  BY WordPairs
<1>2. /\ At(FlattenSeq(Points(v)), 4 * (j - 1) + 1, Points(v)[j])
      /\ FlattenSeq(Points(v)) \in Seq(Bytes) /\ Points(v)[j] = a \o b
  <2>0. j \in DOMAIN v
    OBVIOUS
  <2>1. Points(v)[j] = a \o b
    BY <2>0, PointsElt
  <2>2. At(FlattenSeq(Points(v)), 4 * (j - 1) + 1, Points(v)[j]) /\ FlattenSeq(Points(v)) \in Seq(Bytes)
    BY <1>1, PointsBytes
  <2> QED
    BY <2>1, <2>2
<1>3. a \in Seq(Bytes) /\ Len(a) = 2 /\ b \in Seq(Bytes) /\ Len(b) = 2
  BY <1>1, WordInt, WordBytes
<1>4. j \in Nat /\ q = (p + 1) + (4 * (j - 1) + 1) - 1 /\ q \in Nat \ {0}
  OBVIOUS
<1> HIDE DEF a, b, q
<1>5. a \o b \in Seq(Bytes)
  BY <1>3, CatSeq
<1>6. At(d, q, a \o b)
  <2>1. At(d, (p + 1) + (4 * (j - 1) + 1) - 1, a \o b)
    <3> DEFINE x == FlattenSeq(Points(v))
               y == a \o b
               m == 4 * (j - 1) + 1
               n == p + 1
    <3>1. x \in Seq(Bytes) /\ y \in Seq(Bytes) /\ At(d, n, x) /\ At(x, m, y)
      BY <1>2, <1>5
    <3> HIDE DEF x, y, m, n
    <3>2. At(d, n + m - 1, y)
      BY <3>1, AtTrans
    <3> QED
      BY <3>2 DEF y, m, n
  <2> QED
    BY <1>4, <2>1
<1>7. At(d, q, a) /\ At(d, q + 2, b)
  BY <1>3, <1>6, AtCat
<1>8. nbto16(SubSeq(d, q, q + 1)) = v[j][1] /\ nbto16(SubSeq(d, q + 2, q + 2 + 1)) = v[j][2]
  BY <1>1, <1>7, WordAt DEF a, b
<1>9. q = p + 4*j - 3 /\ q + 1 = p + 4*j - 2 /\ q + 2 = p + 4*j - 1 /\ q + 2 + 1 = p + 4*j
  BY <1>4 DEF q
<1> QED
  BY <1>8, <1>9

\* A polygon: its number of corners and all of them.
LEMMA ReadPolygon ==
  ASSUME NEW d \in Seq(Bytes), NEW p, NEW v, FieldOK("polygon", v),
         At(d, p, RequestField("polygon", v))
  PROVE  FieldReads(d, p, "polygon", v)
<1>1. v \in Seq(Word \X Word) /\ Len(v) \in Nat /\ Len(v) <= 255 /\ DOMAIN v = 1..Len(v)
  BY DEF FieldOK
<1>2. RequestField("polygon", v) = <<Len(v)>> \o FlattenSeq(Points(v))
  BY DEF RequestField, Points, Words, Coordinates
<1>3. FlattenSeq(Points(v)) \in Seq(Bytes) /\ Len(FlattenSeq(Points(v))) = 4 * Len(v)
  BY <1>1, WordPairs, PointsBytes
<1>4. <<Len(v)>> \in Seq(Bytes) /\ Len(<<Len(v)>>) = 1
  BY <1>1, OneByte
<1>5. p \in Nat \ {0} /\ At(d, p, <<Len(v)>>) /\ At(d, p + 1, FlattenSeq(Points(v)))
  <2> DEFINE a == <<Len(v)>>
             b == FlattenSeq(Points(v))
  <2>1. a \in Seq(Bytes) /\ b \in Seq(Bytes) /\ Len(a) = 1
    BY <1>3, <1>4
  <2>2. At(d, p, a \o b)
    BY <1>2
  <2> HIDE DEF a, b
  <2>3. p \in Nat \ {0} /\ At(d, p, a) /\ At(d, p + 1, b)
    BY <2>1, <2>2, AtCat
  <2> QED
    BY <2>3 DEF a, b
<1>6. d[p] = Len(v)
  <2>1. d[p + 1 - 1] = <<Len(v)>>[1]
    BY <1>5, <1>4 DEF At
  <2> QED
    BY <2>1, <1>5
<1>7. Len(RequestField("polygon", v)) = 1 + 4 * Len(v)
  BY <1>2, <1>3, <1>4, CatSeq
<1>8. FieldWidth(d, p, "polygon") = 1 + 4 * d[p]
  BY DEF FieldWidth, Words, Coordinates
<1>9. \A ms : FieldValue(d, p, "polygon", ms) =
        [j \in 1..d[p] |->
            <<ToMars(ms, p + 4*j - 3, nbto16(SubSeq(d, p + 4*j - 3, p + 4*j - 2))),
              ToMars(ms, p + 4*j - 1, nbto16(SubSeq(d, p + 4*j - 1, p + 4*j)))>>]
  BY DEF FieldValue, Words, Coordinates
<1>10. \A j \in 1..Len(v) :
          /\ nbto16(SubSeq(d, p + 4*j - 3, p + 4*j - 2)) = v[j][1]
          /\ nbto16(SubSeq(d, p + 4*j - 1, p + 4*j)) = v[j][2]
  BY <1>1, <1>5, ReadPoint
<1>11. ASSUME NEW ms
       PROVE  FieldValue(d, p, "polygon", ms)
                = [j \in 1..Len(v) |-> <<v[j][1] * From(ms, p)[4*j - 3],
                                         v[j][2] * From(ms, p)[4*j - 1]>>]
  <2>1. ASSUME NEW j \in 1..Len(v)
        PROVE  From(ms, p)[4*j - 3] = ResAt(ms, p + 4*j - 3)
               /\ From(ms, p)[4*j - 1] = ResAt(ms, p + 4*j - 1)
    <3>1. /\ 4*j - 3 \in Nat /\ p + (4*j - 3) = p + 4*j - 3
          /\ 4*j - 1 \in Nat /\ p + (4*j - 1) = p + 4*j - 1
      BY <1>5
    <3>2. From(ms, p)[4*j - 3] = ResAt(ms, p + (4*j - 3))
          /\ From(ms, p)[4*j - 1] = ResAt(ms, p + (4*j - 1))
      BY <3>1 DEF From
    <3> QED
      BY <3>1, <3>2
  <2> QED
    BY <1>6, <1>9, <1>10, <2>1 DEF ToMars
<1>12. \A u : Metres(u, "polygon", v)
               = [j \in DOMAIN v |-> <<v[j][1] * u[4*j - 3], v[j][2] * u[4*j - 1]>>]
  BY DEF Metres, Coordinates
<1> QED
  <2>1. FieldWidth(d, p, "polygon") = Len(RequestField("polygon", v))
    BY <1>6, <1>7, <1>8
  <2>2. ASSUME NEW ms
        PROVE  FieldValue(d, p, "polygon", ms) = Metres(From(ms, p), "polygon", v)
    <3>1. Metres(From(ms, p), "polygon", v)
            = [j \in 1..Len(v) |-> <<v[j][1] * From(ms, p)[4*j - 3],
                                     v[j][2] * From(ms, p)[4*j - 1]>>]
      BY <1>1, <1>12
    <3> QED
      BY <3>1, <1>11
  <2> QED
    BY <2>1, <2>2 DEF FieldReads

\* A list of rooms.
LEMMA ReadRooms ==
  ASSUME NEW d \in Seq(Bytes), NEW p, NEW v, FieldOK("rooms", v),
         At(d, p, RequestField("rooms", v))
  PROVE  FieldReads(d, p, "rooms", v)
<1>1. v \in Seq(Bytes) /\ Len(v) \in Nat /\ <<Len(v)>> \in Seq(Bytes) /\ Len(<<Len(v)>>) = 1
  BY ByteSeq DEF FieldOK
<1>2. RequestField("rooms", v) = <<Len(v)>> \o v
  BY DEF RequestField, Words, Coordinates
<1>3. p \in Nat \ {0} /\ At(d, p, <<Len(v)>>) /\ At(d, p + 1, v)
  <2> DEFINE a == <<Len(v)>>
             b == v
  <2>1. a \in Seq(Bytes) /\ b \in Seq(Bytes) /\ Len(a) = 1
    BY <1>1
  <2>2. At(d, p, a \o b)
    BY <1>2
  <2> HIDE DEF a, b
  <2>3. p \in Nat \ {0} /\ At(d, p, a) /\ At(d, p + 1, b)
    BY <2>1, <2>2, AtCat
  <2> QED
    BY <2>3 DEF a, b
<1>4. d[p] = Len(v)
  <2>1. d[p + 1 - 1] = <<Len(v)>>[1]
    BY <1>1, <1>3 DEF At
  <2> QED
    BY <2>1, <1>3
<1>5. Len(RequestField("rooms", v)) = 1 + Len(v)
  BY <1>1, <1>2, CatSeq
<1>6. SubSeq(d, p + 1, p + 1 + Len(v) - 1) = v
  BY <1>1, <1>3, AtSubSeq
<1>7. p + 1 + Len(v) - 1 = p + d[p]
  BY <1>1, <1>3, <1>4
<1>8. FieldWidth(d, p, "rooms") = 1 + d[p] /\ \A ms : FieldValue(d, p, "rooms", ms) = SubSeq(d, p + 1, p + d[p])
  BY DEF FieldWidth, FieldValue, Words, Coordinates
<1>9. \A u : Metres(u, "rooms", v) = v
  BY DEF Metres, Coordinates
<1> QED
  BY <1>4, <1>5, <1>6, <1>7, <1>8, <1>9 DEF FieldReads

\* A name: the padding is skipped, a NUL appended.
LEMMA ReadName ==
  ASSUME NEW d \in Seq(Bytes), NEW p, NEW v, FieldOK("name", v),
         At(d, p, RequestField("name", v))
  PROVE  FieldReads(d, p, "name", v)
<1>0. v \in Seq(Bytes) /\ Len(v) \in Nat /\ Len(v) <= NameField /\ NameField = 19
  BY DEF FieldOK, NameField
<1>1. <<Len(v)>> \in Seq(Bytes) /\ Len(<<Len(v)>>) = 1
  BY <1>0, ByteSeq
<1>2. RequestField("name", v) = <<Len(v)>> \o Pad(v)
  BY DEF RequestField, Words, Coordinates
<1>3. Pad(v) \in Seq(Bytes) /\ Len(Pad(v)) = NameField
  BY <1>0, PadBytes
<1>4. p \in Nat \ {0} /\ At(d, p, <<Len(v)>>) /\ At(d, p + 1, Pad(v))
  <2> DEFINE a == <<Len(v)>>
             b == Pad(v)
  <2>1. a \in Seq(Bytes) /\ b \in Seq(Bytes) /\ Len(a) = 1
    BY <1>1, <1>3
  <2>2. At(d, p, a \o b)
    BY <1>2
  <2> HIDE DEF a, b
  <2>3. p \in Nat \ {0} /\ At(d, p, a) /\ At(d, p + 1, b)
    BY <2>1, <2>2, AtCat
  <2> QED
    BY <2>3 DEF a, b
<1>5. d[p] = Len(v)
  <2>1. d[p + 1 - 1] = <<Len(v)>>[1]
    BY <1>1, <1>4 DEF At
  <2> QED
    BY <2>1, <1>4
<1>6. At(Pad(v), 1, v)
  <2>1. \A j \in 1..Len(v) : Pad(v)[1 + j - 1] = v[j]
    BY <1>0 DEF Pad
  <2> QED
    BY <1>0, <1>3, <2>1 DEF At
<1>7. At(d, p + 1, v)
  <2>1. At(d, (p + 1) + 1 - 1, v)
    BY <1>0, <1>3, <1>4, <1>6, AtTrans
  <2>2. (p + 1) + 1 - 1 = p + 1
    BY <1>4
  <2> QED
    BY <2>1, <2>2
<1>8. SubSeq(d, p + 1, p + 1 + Len(v) - 1) = v
  BY <1>0, <1>7, AtSubSeq
<1>9. p + 1 + Len(v) - 1 = p + d[p]
  BY <1>0, <1>4, <1>5
<1>10. FieldWidth(d, p, "name") = 1 + NameField
       /\ \A ms : FieldValue(d, p, "name", ms) = SubSeq(d, p + 1, p + d[p]) \o <<0>>
  BY DEF FieldWidth, FieldValue, Words, Coordinates
<1>11. \A u : Metres(u, "name", v) = v \o <<0>>
  BY DEF Metres, Coordinates
<1>12. Len(RequestField("name", v)) = 1 + NameField
  BY <1>1, <1>2, <1>3, CatSeq
<1> QED
  BY <1>8, <1>9, <1>10, <1>11, <1>12 DEF FieldReads

\* Every field.
LEMMA ReadField ==
  ASSUME NEW d \in Seq(Bytes), NEW p, NEW f, NEW v, FieldOK(f, v),
         At(d, p, RequestField(f, v))
  PROVE  FieldReads(d, p, f, v)
<1>1. CASE f \notin Words \cup {"polygon", "rooms", "name"}
  <2>1. RequestField(f, v) = <<v>> /\ FieldWidth(d, p, f) = 1
        /\ (\A ms : FieldValue(d, p, f, ms) = d[p]) /\ \A u : Metres(u, f, v) = v
    BY <1>1 DEF RequestField, FieldWidth, FieldValue, Metres, Words
  <2>2. p \in Nat /\ Len(<<v>>) = 1 /\ <<v>>[1] = v
    BY DEF At
  <2>3. d[p + 1 - 1] = <<v>>[1]
    BY <2>1, <2>2 DEF At
  <2>4. d[p] = v
    BY <2>2, <2>3
  <2> QED
    BY <2>1, <2>2, <2>4 DEF FieldReads
<1> QED
  BY <1>1, ReadWord, ReadPolygon, ReadRooms, ReadName

----------------------------------------------------------------------------
(* Reading the fields of a layout, and the items of a setting.              *)

FieldNames ==
    {"count", "version", "repeat", "x", "y", "x0", "y0", "x1", "y1", "mode", "suction",
     "cistern", "zone", "start", "startDay", "end", "endDay", "onoff", "polygon", "name",
     "type", "id", "valid", "days", "time", "rooms", "fan", "water", "ymop"}

\* The fields of record r in the order of layout, as a request has them.
Encoded(layout, r) == [j \in DOMAIN layout |-> RequestField(layout[j], r[layout[j]])]

FieldsOK(layout, r) == \A j \in DOMAIN layout : FieldOK(layout[j], r[layout[j]])

\* The fields of a record are bytes, one sequence for each place of the layout.
LEMMA EncodedBytes ==
  ASSUME NEW layout \in Seq(FieldNames), NEW r, FieldsOK(layout, r)
  PROVE  /\ Encoded(layout, r) \in Seq(Seq(Bytes))
         /\ Len(Encoded(layout, r)) = Len(layout)
         /\ FlattenSeq(Encoded(layout, r)) \in Seq(Bytes)
         /\ \A j \in 1..Len(layout) :
               Encoded(layout, r)[j] = RequestField(layout[j], r[layout[j]])
<1>1. Len(layout) \in Nat /\ DOMAIN layout = 1..Len(layout)
  OBVIOUS
<1>2. \A j \in DOMAIN layout : RequestField(layout[j], r[layout[j]]) \in Seq(Bytes)
  BY FieldBytes DEF FieldsOK
<1>3. Encoded(layout, r) \in Seq(Seq(Bytes)) /\ Len(Encoded(layout, r)) = Len(layout)
  BY <1>1, <1>2 DEF Encoded
<1>4. \A j \in 1..Len(layout) : Encoded(layout, r)[j] = RequestField(layout[j], r[layout[j]])
  BY <1>1 DEF Encoded
<1> QED
  BY <1>3, <1>4, FlattenType

\* For rewriting positions.
LEMMA PlusAssoc == \A a, b, c \in Nat : a + b + c = a + (b + c)
OBVIOUS

\* A cursor g that goes through the sequences of ss where they lie in d.
Walks(d, p, ss, g) ==
    /\ g \in [1..(Len(ss) + 1) -> Nat]
    /\ g[1] = p /\ g[Len(ss) + 1] = p + Len(FlattenSeq(ss))
    /\ \A i \in 1..Len(ss) : At(d, g[i], ss[i]) /\ g[i + 1] = g[i] + Len(ss[i])

\* The handler's cursor stops at every field, and then behind the last.
LEMMA WalkExists ==
  ASSUME NEW ss \in Seq(Seq(Bytes)), NEW d \in Seq(Bytes), NEW p,
         At(d, p, FlattenSeq(ss))
  PROVE  \E g : Walks(d, p, ss, g)
<1> DEFINE N == Len(ss)
<1>1. N \in Nat /\ \A i \in 1..N : ss[i] \in Seq(Bytes) /\ Len(ss[i]) \in Nat
  OBVIOUS
<1>2. PICK F : Joined(Bytes, ss, F) /\ FlattenSeq(ss) = F[N]
  BY FlattenJoined
<1> DEFINE g == [j \in 1..(N + 1) |-> p + Len(F[j - 1])]
<1>3. /\ F[N] \in Seq(Bytes)
      /\ \A i \in 1..N : /\ F[i - 1] \in Seq(Bytes)
                         /\ Len(F[i]) = Len(F[i - 1]) + Len(ss[i])
                         /\ At(F[N], Len(F[i - 1]) + 1, ss[i])
  BY <1>2, JoinedAt
<1> HIDE DEF N
<1>4. F[0] = <<>> /\ Len(F[0]) = 0 /\ F \in [0..N -> Seq(Bytes)]
  BY <1>2 DEF Joined, N
<1>5. p \in Nat \ {0} /\ At(d, p, F[N])
  BY <1>2 DEF At
<1>6. ASSUME NEW j \in 1..(N + 1) PROVE Len(F[j - 1]) \in Nat
  <2>1. j - 1 \in 0..N
    BY <1>1
  <2>2. F[j - 1] \in Seq(Bytes)
    BY <2>1, <1>4
  <2> QED
    BY <2>2, LenProperties
<1>7. ASSUME NEW i \in 1..N PROVE At(d, p + Len(F[i - 1]), ss[i])
  <2> DEFINE m == Len(F[i - 1]) + 1
             e == ss[i]
             x == F[N]
  <2>0. i \in 1..(N + 1)
    BY <1>1
  <2>1. At(d, p, x) /\ At(x, m, e) /\ x \in Seq(Bytes) /\ e \in Seq(Bytes) /\ Len(F[i - 1]) \in Nat
    BY <1>1, <1>3, <1>5, <1>6, <2>0
  <2>2. At(d, p + m - 1, e)
    <3> HIDE DEF m, e, x
    <3> QED
      BY <2>1, AtTrans
  <2>3. p + m - 1 = p + Len(F[i - 1])
    BY <2>1, <1>5
  <2> QED
    BY <2>2, <2>3
<1>8. g \in [1..(N + 1) -> Nat]
  BY <1>5, <1>6
<1>9. g[1] = p /\ g[N + 1] = p + Len(F[N])
  <2>1. 1 \in 1..(N + 1) /\ N + 1 \in 1..(N + 1) /\ 0 = 1 - 1 /\ N = N + 1 - 1
    BY <1>1, <1>5
  <2>2. \A j \in 1..(N + 1) : \A k : k = j - 1 => g[j] = p + Len(F[k])
    OBVIOUS
  <2> HIDE DEF g
  <2>3. g[1] = p + Len(F[0])
    BY <2>1, <2>2, Zenon
  <2>5. g[N + 1] = p + Len(F[N])
    <3> DEFINE M == N + 1
    <3>1. M \in 1..(N + 1) /\ N = M - 1
      BY <1>1
    <3> HIDE DEF M
    <3>2. g[M] = p + Len(F[N])
      BY <3>1, <2>2
    <3> QED
      BY <3>2 DEF M
  <2>4. p + Len(F[0]) = p
    BY <1>4, <1>5
  <2> QED
    BY <2>3, <2>4, <2>5
<1>10. ASSUME NEW i \in 1..N PROVE g[i] = p + Len(F[i - 1]) /\ g[i + 1] = g[i] + Len(ss[i])
  <2>1. i \in 1..(N + 1) /\ i + 1 \in 1..(N + 1) /\ i + 1 - 1 = i
    BY <1>1
  <2>2. g[i] = p + Len(F[i - 1]) /\ g[i + 1] = p + Len(F[i])
    BY <2>1
  <2>3. p \in Nat /\ Len(F[i - 1]) \in Nat /\ Len(ss[i]) \in Nat
    BY <1>1, <1>5, <1>6, <2>1
  <2>4. p + Len(F[i - 1]) + Len(ss[i]) = p + (Len(F[i - 1]) + Len(ss[i]))
    BY <2>3, PlusAssoc, Zenon
  <2> QED
    BY <2>2, <2>4, <1>3
<1> HIDE DEF g
<1>11. \A i \in 1..N : At(d, g[i], ss[i]) /\ g[i + 1] = g[i] + Len(ss[i])
  BY <1>7, <1>10
<1>12. Walks(d, p, ss, g)
  BY <1>2, <1>8, <1>9, <1>11 DEF Walks, N
<1> QED
  BY <1>12

\* What makes a function the cursor of a layout.
IsCursor(d, p, layout, c) ==
    c = [j \in 1..Len(layout) + 1 |->
            IF j = 1 THEN p ELSE c[j - 1] + FieldWidth(d, c[j - 1], layout[j - 1])]

\* Cursor is that walk: it gives the place of every field.
LEMMA CursorReads ==
  ASSUME NEW layout \in Seq(FieldNames), NEW r, FieldsOK(layout, r),
         NEW d \in Seq(Bytes), NEW p, At(d, p, FlattenSeq(Encoded(layout, r)))
  PROVE  /\ EndOf(d, p, layout) = p + Len(FlattenSeq(Encoded(layout, r)))
         /\ \A j \in DOMAIN layout :
               \A ms : FieldValue(d, Cursor(d, p, layout)[j], layout[j], ms)
                  = Metres(From(ms, Cursor(d, p, layout)[j]), layout[j], r[layout[j]])
<1> DEFINE enc == Encoded(layout, r)
           N == Len(layout)
           c == Cursor(d, p, layout)
<1>1. /\ enc \in Seq(Seq(Bytes)) /\ Len(enc) = N /\ N \in Nat /\ DOMAIN layout = 1..N
      /\ \A j \in 1..N : enc[j] = RequestField(layout[j], r[layout[j]])
  <2>1. N \in Nat /\ DOMAIN layout = 1..N
    OBVIOUS
  <2>2. /\ enc \in Seq(Seq(Bytes)) /\ Len(enc) = N
        /\ \A j \in 1..N : enc[j] = RequestField(layout[j], r[layout[j]])
    BY EncodedBytes
  <2> QED
    BY <2>1, <2>2
<1>2. PICK g : Walks(d, p, enc, g)
  BY <1>1, WalkExists
<1> HIDE DEF enc, N, c
<1>3. g \in [1..(N + 1) -> Nat] /\ g[1] = p /\ g[N + 1] = p + Len(FlattenSeq(enc))
      /\ \A i \in 1..N : At(d, g[i], enc[i]) /\ g[i + 1] = g[i] + Len(enc[i])
  BY <1>1, <1>2 DEF Walks
<1>4. ASSUME NEW i \in 1..N
      PROVE  /\ FieldWidth(d, g[i], layout[i]) = Len(enc[i])
             /\ \A ms : FieldValue(d, g[i], layout[i], ms)
                           = Metres(From(ms, g[i]), layout[i], r[layout[i]])
  <2>1. At(d, g[i], RequestField(layout[i], r[layout[i]]))
    BY <1>1, <1>3
  <2>2. FieldOK(layout[i], r[layout[i]])
    BY <1>1 DEF FieldsOK
  <2>3. FieldReads(d, g[i], layout[i], r[layout[i]])
    BY <2>1, <2>2, ReadField
  <2> QED
    BY <2>3, <1>1 DEF FieldReads
<1>5. ASSUME NEW i \in 1..N PROVE g[i + 1] = g[i] + FieldWidth(d, g[i], layout[i])
  BY <1>3, <1>4
<1>6. IsCursor(d, p, layout, g)
  <2>1. ASSUME NEW j \in 1..(N + 1)
        PROVE  g[j] = IF j = 1 THEN p ELSE g[j - 1] + FieldWidth(d, g[j - 1], layout[j - 1])
    <3>1. CASE j = 1
      BY <3>1, <1>3
    <3>2. CASE j # 1
      <4>1. j - 1 \in 1..N /\ j - 1 + 1 = j
        BY <3>2, <1>1
      <4> QED
        BY <4>1, <3>2, <1>5
    <3> QED
      BY <3>1, <3>2
  <2> QED
    BY <2>1, <1>3 DEF IsCursor, N
<1>7. IsCursor(d, p, layout, c)
  <2>1. c = CHOOSE f : IsCursor(d, p, layout, f)
    BY DEF c, Cursor, IsCursor
  <2> QED
    BY <1>6, <2>1
<1>8. \A j \in 1..(N + 1) :
         c[j] = IF j = 1 THEN p ELSE c[j - 1] + FieldWidth(d, c[j - 1], layout[j - 1])
  BY <1>7 DEF IsCursor, N
<1> DEFINE T == {n \in 0..N : c[n + 1] = g[n + 1]}
<1>9. 0 \in T
  <2>1. 1 \in 1..(N + 1) /\ 0 \in 0..N /\ 0 + 1 = 1
    BY <1>1
  <2> QED
    BY <2>1, <1>3, <1>8
<1>10. ASSUME NEW i \in 1..N, i - 1 \in T PROVE i \in T
  <2>0. i - 1 + 1 = i /\ i + 1 - 1 = i /\ i + 1 # 1 /\ i + 1 \in 1..(N + 1) /\ i \in 0..N
    BY <1>1
  <2>1. c[i] = g[i]
    BY <1>10, <2>0
  <2>2. c[i + 1] = c[i] + FieldWidth(d, c[i], layout[i])
    BY <1>8, <2>0
  <2>3. c[i + 1] = g[i + 1]
    BY <2>1, <2>2, <1>5
  <2> QED
    BY <2>3, <2>0
<1>11. \A i \in 0..N : i \in T
  <2> HIDE DEF T
  <2> QED
    BY <1>1, <1>9, <1>10, Induct
<1>12. c[N + 1] = g[N + 1]
  BY <1>1, <1>11
<1>13. ASSUME NEW j \in 1..N
       PROVE  \A ms : FieldValue(d, c[j], layout[j], ms)
                        = Metres(From(ms, c[j]), layout[j], r[layout[j]])
  <2>1. j - 1 \in 0..N /\ j - 1 + 1 = j
    BY <1>1
  <2>2. c[j] = g[j]
    BY <1>11, <2>1
  <2> QED
    BY <2>2, <1>4
<1>14. EndOf(d, p, layout) = p + Len(FlattenSeq(enc))
  BY <1>3, <1>12 DEF EndOf, c, N
<1> QED
  BY <1>1, <1>13, <1>14 DEF enc, c

\* The resolutions at which the fields of one record are read, if those in S are
\* in force.
Readings(S) == [FieldNames -> [Nat -> S]]

\* Some resolution is in force at every byte.
LEMMA SomeReading ==
  ASSUME NEW ms \in Arrivals
  PROVE  From(ms, 0) \in [Nat -> InForce(ms)] /\ [f \in FieldNames |-> From(ms, 0)] \in Readings(InForce(ms))
BY FromInForce DEF Readings

\* The record that lies in d at p, as the handler reads it.
LEMMA RecordRead ==
  ASSUME NEW layout \in Seq(FieldNames), NEW r, FieldsOK(layout, r),
         NEW d \in Seq(Bytes), NEW p, At(d, p, FlattenSeq(Encoded(layout, r))),
         NEW ms \in Arrivals
  PROVE  /\ EndOf(d, p, layout) = p + Len(FlattenSeq(Encoded(layout, r)))
         /\ \E u \in Readings(InForce(ms)) :
               ReadFields(d, p, layout, ms) = [f \in Range(layout) |-> Metres(u[f], f, r[f])]
<1> DEFINE c == Cursor(d, p, layout)
           g == [f \in Range(layout) |-> From(ms, c[Place(layout, f)])]
<1>1. /\ EndOf(d, p, layout) = p + Len(FlattenSeq(Encoded(layout, r)))
      /\ \A j \in DOMAIN layout :
            FieldValue(d, c[j], layout[j], ms) = Metres(From(ms, c[j]), layout[j], r[layout[j]])
  BY CursorReads
<1>2. ASSUME NEW f \in Range(layout)
      PROVE  Place(layout, f) \in DOMAIN layout /\ layout[Place(layout, f)] = f
  BY DEF Range, Place
<1>4. ReadFields(d, p, layout, ms)
        = [f \in Range(layout) |-> FieldValue(d, c[Place(layout, f)], f, ms)]
  BY DEF ReadFields
<1> HIDE DEF c
<1>3. ASSUME NEW f \in Range(layout)
      PROVE  FieldValue(d, c[Place(layout, f)], f, ms) = Metres(g[f], f, r[f])
  BY <1>1, <1>2
<1>5. ReadFields(d, p, layout, ms) = [f \in Range(layout) |-> Metres(g[f], f, r[f])]
  BY <1>3, <1>4
<1>6. \A f \in FieldNames \cap Range(layout) : g[f] \in [Nat -> InForce(ms)]
  BY FromInForce
<1> DEFINE u == [f \in FieldNames |-> IF f \in Range(layout) THEN g[f] ELSE From(ms, 0)]
<1> HIDE DEF g
<1>8. u \in Readings(InForce(ms)) /\ \A f \in FieldNames \cap Range(layout) : u[f] = g[f]
  BY <1>6, SomeReading DEF Readings
<1>9. Range(layout) \subseteq FieldNames
  BY DEF Range
<1> HIDE DEF u
<1>10. ReadFields(d, p, layout, ms) = [f \in Range(layout) |-> Metres(u[f], f, r[f])]
  BY <1>5, <1>8, <1>9
<1> QED
  BY <1>1, <1>8, <1>10

\* The bytes of each item.
ItemsEncoded(layout, items) == [i \in DOMAIN items |-> FlattenSeq(Encoded(layout, items[i]))]

IsStart(d, p, n, layout, c) ==
    c = [i \in 1..(n + 1) |-> IF i = 1 THEN p ELSE EndOf(d, c[i - 1], layout)]

\* The items of a setting are bytes.
LEMMA ItemsBytes ==
  ASSUME NEW layout \in Seq(FieldNames), NEW items, items \in Seq(Range(items)),
         \A i \in DOMAIN items : FieldsOK(layout, items[i])
  PROVE  /\ ItemsEncoded(layout, items) \in Seq(Seq(Bytes))
         /\ Len(ItemsEncoded(layout, items)) = Len(items)
         /\ \A i \in 1..Len(items) :
               ItemsEncoded(layout, items)[i] = FlattenSeq(Encoded(layout, items[i]))
<1>1. Len(items) \in Nat /\ DOMAIN items = 1..Len(items)
  BY LenProperties
<1>2. \A i \in DOMAIN items : FlattenSeq(Encoded(layout, items[i])) \in Seq(Bytes)
  BY EncodedBytes
<1> QED
  BY <1>1, <1>2 DEF ItemsEncoded

\* The items that lie in d at p, as the handler reads them at resolutions u.
ItemsReadAs(u, d, p, layout, items, ms) ==
    ReadItems(d, p, Len(items), layout, ms)
      = [i \in 1..Len(items) |-> [f \in Range(layout) |-> Metres(u[i][f], f, items[i][f])]]

\* They are the items the phone sent.
LEMMA ItemsRead ==
  ASSUME NEW layout \in Seq(FieldNames), NEW items, items \in Seq(Range(items)),
         \A i \in DOMAIN items : FieldsOK(layout, items[i]),
         NEW d \in Seq(Bytes), NEW p, At(d, p, FlattenSeq(ItemsEncoded(layout, items))),
         NEW ms \in Arrivals
  PROVE  \E u \in [Nat -> Readings(InForce(ms))] : ItemsReadAs(u, d, p, layout, items, ms)
<1> DEFINE enc == ItemsEncoded(layout, items)
           N == Len(items)
           c == CHOOSE f : IsStart(d, p, N, layout, f)
<1>1. /\ enc \in Seq(Seq(Bytes)) /\ Len(enc) = N
      /\ \A i \in 1..N : enc[i] = FlattenSeq(Encoded(layout, items[i]))
  BY ItemsBytes
<1>0. N \in Nat /\ DOMAIN items = 1..N
  BY LenProperties
<1>2. PICK g : Walks(d, p, enc, g)
  BY <1>1, WalkExists
<1>00. ReadItems(d, p, N, layout, ms) = [i \in 1..N |-> ReadFields(d, c[i], layout, ms)]
  BY DEF ReadItems, IsStart
<1> HIDE DEF enc, N, c
<1>3. /\ g \in [1..(N + 1) -> Nat] /\ g[1] = p
      /\ \A i \in 1..N : At(d, g[i], enc[i]) /\ g[i + 1] = g[i] + Len(enc[i])
  BY <1>1, <1>2 DEF Walks
<1>4. ASSUME NEW i \in 1..N
      PROVE  /\ EndOf(d, g[i], layout) = g[i + 1]
             /\ \E u \in Readings(InForce(ms)) :
                   ReadFields(d, g[i], layout, ms) = [f \in Range(layout) |-> Metres(u[f], f, items[i][f])]
  <2>1. At(d, g[i], FlattenSeq(Encoded(layout, items[i]))) /\ FieldsOK(layout, items[i])
    BY <1>0, <1>1, <1>3
  <2>2. /\ EndOf(d, g[i], layout) = g[i] + Len(FlattenSeq(Encoded(layout, items[i])))
        /\ \E u \in Readings(InForce(ms)) :
              ReadFields(d, g[i], layout, ms) = [f \in Range(layout) |-> Metres(u[f], f, items[i][f])]
    <3> DEFINE q == g[i]
               r == items[i]
    <3>1. At(d, q, FlattenSeq(Encoded(layout, r))) /\ FieldsOK(layout, r)
      BY <2>1
    <3> HIDE DEF q, r
    <3>2. /\ EndOf(d, q, layout) = q + Len(FlattenSeq(Encoded(layout, r)))
          /\ \E u \in Readings(InForce(ms)) :
                ReadFields(d, q, layout, ms) = [f \in Range(layout) |-> Metres(u[f], f, r[f])]
      BY <3>1, RecordRead
    <3> QED
      BY <3>2 DEF q, r
  <2> QED
    BY <2>2, <1>1, <1>3
<1>5. IsStart(d, p, N, layout, g)
  <2>1. ASSUME NEW j \in 1..(N + 1)
        PROVE  g[j] = IF j = 1 THEN p ELSE EndOf(d, g[j - 1], layout)
    <3>1. CASE j = 1
      BY <3>1, <1>3
    <3>2. CASE j # 1
      <4>1. j - 1 \in 1..N /\ j - 1 + 1 = j
        BY <3>2, <1>0
      <4> QED
        BY <4>1, <3>2, <1>4
    <3> QED
      BY <3>1, <3>2
  <2> QED
    BY <2>1, <1>3 DEF IsStart
<1>6. IsStart(d, p, N, layout, c)
  BY <1>5 DEF c
<1>7. \A j \in 1..(N + 1) : c[j] = IF j = 1 THEN p ELSE EndOf(d, c[j - 1], layout)
  BY <1>6 DEF IsStart
<1> DEFINE T == {n \in 0..N : c[n + 1] = g[n + 1]}
<1>8. 0 \in T
  <2>1. 1 \in 1..(N + 1) /\ 0 \in 0..N /\ 0 + 1 = 1
    BY <1>0
  <2> QED
    BY <2>1, <1>3, <1>7
<1>9. ASSUME NEW i \in 1..N, i - 1 \in T PROVE i \in T
  <2>0. i - 1 + 1 = i /\ i + 1 - 1 = i /\ i + 1 # 1 /\ i + 1 \in 1..(N + 1) /\ i \in 0..N
    BY <1>0
  <2>1. c[i] = g[i]
    BY <1>9, <2>0
  <2>2. c[i + 1] = EndOf(d, c[i], layout)
    BY <1>7, <2>0
  <2>3. c[i + 1] = g[i + 1]
    BY <2>1, <2>2, <1>4
  <2> QED
    BY <2>3, <2>0
<1>10. \A i \in 0..N : i \in T
  <2> HIDE DEF T
  <2> QED
    BY <1>0, <1>8, <1>9, Induct
<1>11. ASSUME NEW i \in 1..N
       PROVE  \E u \in Readings(InForce(ms)) :
                 ReadFields(d, c[i], layout, ms) = [f \in Range(layout) |-> Metres(u[f], f, items[i][f])]
  <2>1. i - 1 \in 0..N /\ i - 1 + 1 = i
    BY <1>0
  <2>2. c[i] = g[i]
    BY <1>10, <2>1
  <2> QED
    BY <2>2, <1>4
<1> DEFINE w == [i \in 1..N |-> CHOOSE u \in Readings(InForce(ms)) :
                    ReadFields(d, c[i], layout, ms) = [f \in Range(layout) |-> Metres(u[f], f, items[i][f])]]
<1>12. ASSUME NEW i \in 1..N
       PROVE  /\ w[i] \in Readings(InForce(ms))
              /\ ReadFields(d, c[i], layout, ms) = [f \in Range(layout) |-> Metres(w[i][f], f, items[i][f])]
  BY <1>11
<1> HIDE DEF w
<1>13. \A i \in Nat \cap (1..N) : w[i] \in Readings(InForce(ms))
  BY <1>12
<1> DEFINE u == [i \in Nat |-> IF i \in 1..N THEN w[i] ELSE [f \in FieldNames |-> From(ms, 0)]]
<1>14. u \in [Nat -> Readings(InForce(ms))] /\ \A i \in Nat \cap (1..N) : u[i] = w[i]
  BY <1>13, SomeReading
<1> HIDE DEF u
<1>15. 1..N \subseteq Nat
  BY <1>0
<1>16. ReadItems(d, p, N, layout, ms)
         = [i \in 1..N |-> [f \in Range(layout) |-> Metres(u[i][f], f, items[i][f])]]
  <2>1. ASSUME NEW i \in 1..N
        PROVE  ReadFields(d, c[i], layout, ms) = [f \in Range(layout) |-> Metres(u[i][f], f, items[i][f])]
    <3>1. u[i] = w[i]
      BY <1>14, <1>15
    <3> QED
      BY <3>1, <1>12
  <2> QED
    BY <2>1, <1>00
<1> QED
  BY <1>14, <1>16 DEF N, ItemsReadAs

----------------------------------------------------------------------------
(* A whole setting.                                                         *)

\* The layouts of the headers, kind by kind ...
LEMMA HeadLayout ==
  ASSUME NEW k \in Kinds
  PROVE  PhoneHead[k] \in Seq(FieldNames)
<1>1. CASE k \in {"wall", "area", "order", "props", "names"}
  <2>1. PhoneHead[k] = <<"count">>
    BY <1>1 DEF PhoneHead, Kinds
  <2>2. <<"count">> \in Seq(FieldNames)
    BY DEF FieldNames
  <2> QED
    BY <2>1, <2>2
<1>2. CASE k \in {"areaNamed", "areaTyped"}
  <2>1. PhoneHead[k] = <<"version", "count">>
    BY <1>2 DEF PhoneHead, Kinds
  <2>2. <<"version", "count">> \in Seq(FieldNames)
    BY DEF FieldNames
  <2> QED
    BY <2>1, <2>2
<1>3. CASE k \in {"zone", "room"}
  <2>1. PhoneHead[k] = <<"repeat", "count">>
    BY <1>3 DEF PhoneHead, Kinds
  <2>2. <<"repeat", "count">> \in Seq(FieldNames)
    BY DEF FieldNames
  <2> QED
    BY <2>1, <2>2
<1>4. CASE k \in {"zoneNamed"}
  <2>1. PhoneHead[k] = <<"version", "repeat", "count">>
    BY <1>4 DEF PhoneHead, Kinds
  <2>2. <<"version", "repeat", "count">> \in Seq(FieldNames)
    BY DEF FieldNames
  <2> QED
    BY <2>1, <2>2
<1>5. CASE k \in {"spot"}
  <2>1. PhoneHead[k] = <<"x", "y">>
    BY <1>5 DEF PhoneHead, Kinds
  <2>2. <<"x", "y">> \in Seq(FieldNames)
    BY DEF FieldNames
  <2> QED
    BY <2>1, <2>2
<1>6. CASE k \in {"spot1"}
  <2>1. PhoneHead[k] = <<"version", "mode", "suction", "cistern", "repeat", "x", "y">>
    BY <1>6 DEF PhoneHead, Kinds
  <2>2. <<"version", "mode", "suction", "cistern", "repeat", "x", "y">> \in Seq(FieldNames)
    BY DEF FieldNames
  <2> QED
    BY <2>1, <2>2
<1>7. CASE k \in {"alert"}
  <2>1. PhoneHead[k] = <<"zone", "count">>
    BY <1>7 DEF PhoneHead, Kinds
  <2>2. <<"zone", "count">> \in Seq(FieldNames)
    BY DEF FieldNames
  <2> QED
    BY <2>1, <2>2
<1>8. CASE k \in {"dnd"}
  <2>1. PhoneHead[k] = <<"zone", "start", "startDay", "end", "endDay">>
    BY <1>8 DEF PhoneHead, Kinds
  <2>2. <<"zone", "start", "startDay", "end", "endDay">> \in Seq(FieldNames)
    BY DEF FieldNames
  <2> QED
    BY <2>1, <2>2
<1>9. CASE k \in {"dnd1"}
  <2>1. PhoneHead[k] = <<"version", "onoff", "zone", "start", "startDay", "end", "endDay">>
    BY <1>9 DEF PhoneHead, Kinds
  <2>2. <<"version", "onoff", "zone", "start", "startDay", "end", "endDay">> \in Seq(FieldNames)
    BY DEF FieldNames
  <2> QED
    BY <2>1, <2>2
<1> QED
  BY <1>1, <1>2, <1>3, <1>4, <1>5, <1>6, <1>7, <1>8, <1>9 DEF Kinds

\* ... and of the items.
LEMMA ItemLayout ==
  ASSUME NEW k \in Kinds
  PROVE  PhoneItems[k] \in Seq(FieldNames)
<1>1. CASE k \in {"wall"}
  <2>1. PhoneItems[k] = <<"x0", "y0", "x1", "y1">>
    BY <1>1 DEF PhoneItems, Kinds
  <2>2. <<"x0", "y0", "x1", "y1">> \in Seq(FieldNames)
    BY DEF FieldNames
  <2> QED
    BY <2>1, <2>2
<1>2. CASE k \in {"area"}
  <2>1. PhoneItems[k] = <<"mode", "polygon">>
    BY <1>2 DEF PhoneItems, Kinds
  <2>2. <<"mode", "polygon">> \in Seq(FieldNames)
    BY DEF FieldNames
  <2> QED
    BY <2>1, <2>2
<1>3. CASE k \in {"areaNamed"}
  <2>1. PhoneItems[k] = <<"mode", "polygon", "name">>
    BY <1>3 DEF PhoneItems, Kinds
  <2>2. <<"mode", "polygon", "name">> \in Seq(FieldNames)
    BY DEF FieldNames
  <2> QED
    BY <2>1, <2>2
<1>4. CASE k \in {"areaTyped"}
  <2>1. PhoneItems[k] = <<"mode", "type", "polygon", "name">>
    BY <1>4 DEF PhoneItems, Kinds
  <2>2. <<"mode", "type", "polygon", "name">> \in Seq(FieldNames)
    BY DEF FieldNames
  <2> QED
    BY <2>1, <2>2
<1>5. CASE k \in {"zone"}
  <2>1. PhoneItems[k] = <<"polygon">>
    BY <1>5 DEF PhoneItems, Kinds
  <2>2. <<"polygon">> \in Seq(FieldNames)
    BY DEF FieldNames
  <2> QED
    BY <2>1, <2>2
<1>6. CASE k \in {"zoneNamed"}
  <2>1. PhoneItems[k] = <<"polygon", "name">>
    BY <1>6 DEF PhoneItems, Kinds
  <2>2. <<"polygon", "name">> \in Seq(FieldNames)
    BY DEF FieldNames
  <2> QED
    BY <2>1, <2>2
<1>7. CASE k \in {"room", "order"}
  <2>1. PhoneItems[k] = <<"id">>
    BY <1>7 DEF PhoneItems, Kinds
  <2>2. <<"id">> \in Seq(FieldNames)
    BY DEF FieldNames
  <2> QED
    BY <2>1, <2>2
<1>8. CASE k \in {"spot", "spot1", "dnd", "dnd1"}
  <2>1. PhoneItems[k] = <<>>
    BY <1>8 DEF PhoneItems, Kinds
  <2>2. <<>> \in Seq(FieldNames)
    BY DEF FieldNames
  <2> QED
    BY <2>1, <2>2
<1>9. CASE k \in {"alert"}
  <2>1. PhoneItems[k] = <<"valid", "days", "time", "rooms", "mode", "fan", "water", "repeat">>
    BY <1>9 DEF PhoneItems, Kinds
  <2>2. <<"valid", "days", "time", "rooms", "mode", "fan", "water", "repeat">> \in Seq(FieldNames)
    BY DEF FieldNames
  <2> QED
    BY <2>1, <2>2
<1>10. CASE k \in {"props"}
  <2>1. PhoneItems[k] = <<"id", "fan", "water", "ymop", "repeat">>
    BY <1>10 DEF PhoneItems, Kinds
  <2>2. <<"id", "fan", "water", "ymop", "repeat">> \in Seq(FieldNames)
    BY DEF FieldNames
  <2> QED
    BY <2>1, <2>2
<1>11. CASE k \in {"names"}
  <2>1. PhoneItems[k] = <<"id", "name">>
    BY <1>11 DEF PhoneItems, Kinds
  <2>2. <<"id", "name">> \in Seq(FieldNames)
    BY DEF FieldNames
  <2> QED
    BY <2>1, <2>2
<1> QED
  BY <1>1, <1>2, <1>3, <1>4, <1>5, <1>6, <1>7, <1>8, <1>9, <1>10, <1>11 DEF Kinds

\* The header of s as a record that holds the number of items too.
HeadRecord(s, layout) == [f \in Range(layout) |-> HeadValue(s, f)]

\* The header of a request is the fields of that record ...
LEMMA HeadBytes ==
  ASSUME NEW s, NEW layout \in Seq(FieldNames)
  PROVE  Head1(s, layout, RequestField) = FlattenSeq(Encoded(layout, HeadRecord(s, layout)))
<1>1. \A j \in DOMAIN layout : HeadRecord(s, layout)[layout[j]] = HeadValue(s, layout[j])
  BY DEF HeadRecord, Range
<1>2. Encoded(layout, HeadRecord(s, layout))
        = [j \in DOMAIN layout |-> RequestField(layout[j], HeadValue(s, layout[j]))]
  BY <1>1 DEF Encoded
<1> QED
  BY <1>2 DEF Head1

\* ... and its items are the fields of theirs.
LEMMA ItemBytes ==
  ASSUME NEW s, NEW layout
  PROVE  ByItem(s, layout, RequestField) = FlattenSeq(ItemsEncoded(layout, s.items))
BY DEF ByItem, ItemsEncoded, Encoded

\* What a setting the phone may send has in its fields.
LEMMA SettingFields ==
  ASSUME NEW k \in Kinds, NEW s, SettingOK(k, s)
  PROVE  /\ FieldsOK(PhoneHead[k], HeadRecord(s, PhoneHead[k]))
         /\ s.items \in Seq(Range(s.items)) /\ Len(s.items) \in 0..255
         /\ DOMAIN s.items = 1..Len(s.items)
         /\ \A i \in DOMAIN s.items : FieldsOK(PhoneItems[k], s.items[i])
<1> DEFINE layout == PhoneHead[k]
           V == HeadRecord(s, layout)
<1>1. s.items \in Seq(Range(s.items)) /\ Len(s.items) <= 255
  BY DEF SettingOK
<1>2. Len(s.items) \in 0..255 /\ DOMAIN s.items = 1..Len(s.items)
  <2>1. Len(s.items) \in Nat /\ DOMAIN s.items = 1..Len(s.items)
    BY <1>1, LenProperties
  <2>2. \A n \in Nat : n <= 255 => n \in 0..255
    OBVIOUS
  <2> QED
    BY <2>1, <2>2, <1>1
<1>3. ASSUME NEW j \in DOMAIN layout PROVE FieldOK(layout[j], V[layout[j]])
  <2>1. layout[j] \in Range(layout) /\ V[layout[j]] = HeadValue(s, layout[j])
    BY DEF HeadRecord, Range
  <2>2. CASE layout[j] = "count"
    BY <1>2, <2>1, <2>2 DEF HeadValue, FieldOK, Bytes, Words, Coordinates
  <2>3. CASE layout[j] # "count"
    <3>1. layout[j] \in Range(PhoneHead[k]) \ {"count"}
      BY <2>1, <2>3
    <3>2. FieldOK(layout[j], s.head[layout[j]])
      BY <3>1 DEF SettingOK, RecordOK
    <3> QED
      BY <3>2, <2>1, <2>3 DEF HeadValue
  <2> QED
    BY <2>2, <2>3
<1>4. ASSUME NEW i \in DOMAIN s.items PROVE FieldsOK(PhoneItems[k], s.items[i])
  <2>1. RecordOK(s.items[i], Range(PhoneItems[k]))
    BY DEF SettingOK
  <2> QED
    BY <2>1 DEF RecordOK, FieldsOK, Range
<1> QED
  BY <1>1, <1>2, <1>3, <1>4 DEF FieldsOK

\* The handler and the report take the items' fields in the phone's order.
LEMMA SameItems == ItemFields = PhoneItems /\ ReportItems = PhoneItems
BY DEF ItemFields, PhoneItems, ReportItems

\* A field of a header is a word or a byte.
HeadWidth(f) == IF f \in Words THEN 2 ELSE 1
HeadNames == FieldNames \ {"polygon", "rooms", "name"}

\* ... and takes as many bytes in a request.
LEMMA HeadFieldLen ==
  ASSUME NEW f \in HeadNames, NEW v, FieldOK(f, v)
  PROVE  Len(RequestField(f, v)) = HeadWidth(f)
<1>1. CASE f \in Words
  <2>1. v \in Word /\ RequestField(f, v) = tonb16(v)
    BY <1>1 DEF FieldOK, RequestField, Words, Coordinates
  <2> QED
    BY <1>1, <2>1, WordInt, WordBytes DEF HeadWidth
<1>2. CASE f \notin Words
  <2>1. RequestField(f, v) = <<v>>
    BY <1>2 DEF RequestField, HeadNames
  <2> QED
    BY <1>2, <2>1 DEF HeadWidth
<1> QED
  BY <1>1, <1>2

\* The handler's table of a header has the phone's layout: fields f lie at at[f]
\* (an index into the frame), one behind the other from 4 on, and end before e.
Tallies(layout, at, e) ==
    /\ DOMAIN at = Range(layout)
    /\ \A j \in 1..Len(layout) : layout[j] \in HeadNames
    /\ \E c \in [1..(Len(layout) + 1) -> Nat] :
          /\ c[1] = 4 /\ c[Len(layout) + 1] = e
          /\ \A j \in 1..Len(layout) : c[j + 1] = c[j] + HeadWidth(layout[j])
          /\ \A j \in 1..Len(layout) : at[layout[j]] = c[j]

\* It has for every kind, and the items begin where the header ends.
LEMMA HeadTallies ==
  ASSUME NEW k \in Kinds
  PROVE  \E e \in Nat : /\ Tallies(PhoneHead[k], HeadAt[k], e)
                        /\ "count" \in Range(PhoneHead[k]) => ItemsAt[k] = e
<1>0. HeadWidth("x") = 2 /\ HeadWidth("y") = 2 /\ HeadWidth("start") = 2 /\ HeadWidth("end") = 2
      /\ \A f \in {"count", "version", "repeat", "mode", "suction", "cistern", "zone", "startDay",
                   "endDay", "onoff"} : HeadWidth(f) = 1
  BY DEF HeadWidth, Words, Coordinates
<1>1. CASE k \in {"wall", "area", "order", "props", "names"}
  <2> DEFINE L == <<"count">>
             at == [count |-> 4]
             c == <<4, 5>>
  <2>1. PhoneHead[k] = L /\ HeadAt[k] = at
    BY <1>1 DEF PhoneHead, HeadAt, Kinds
  <2>2. ItemsAt[k] = 5
    BY <1>1 DEF ItemsAt, Kinds
  <2>3. c \in [1..2 -> Nat] /\ Len(L) = 1 /\ DOMAIN at = Range(L)
    BY DEF Range
  <2>4. /\ c[1] = 4 /\ c[2] = 5
        /\ L[1] = "count"
        /\ at["count"] = 4
    OBVIOUS
  <2> HIDE DEF c, L, at
  <2>5. \A j \in 1..1 : j = 1
    OBVIOUS
  <2>6. \A j \in 1..1 : L[j] \in HeadNames
    BY <2>4, <2>5 DEF HeadNames, FieldNames
  <2>7. \A j \in 1..1 : at[L[j]] = c[j]
    BY <2>4, <2>5
  <2>8. \A j \in 1..1 : c[j + 1] = c[j] + HeadWidth(L[j])
    BY <1>0, <2>4, <2>5
  <2>9. Tallies(L, at, 5)
    BY <2>3, <2>4, <2>6, <2>7, <2>8 DEF Tallies
  <2> QED
    BY <2>1, <2>2, <2>9
<1>2. CASE k \in {"areaNamed", "areaTyped"}
  <2> DEFINE L == <<"version", "count">>
             at == [version |-> 4, count |-> 5]
             c == <<4, 5, 6>>
  <2>1. PhoneHead[k] = L /\ HeadAt[k] = at
    BY <1>2 DEF PhoneHead, HeadAt, Kinds
  <2>2. ItemsAt[k] = 6
    BY <1>2 DEF ItemsAt, Kinds
  <2>3. c \in [1..3 -> Nat] /\ Len(L) = 2 /\ DOMAIN at = Range(L)
    BY DEF Range
  <2>4. /\ c[1] = 4 /\ c[2] = 5 /\ c[3] = 6
        /\ L[1] = "version" /\ L[2] = "count"
        /\ at["version"] = 4 /\ at["count"] = 5
    OBVIOUS
  <2> HIDE DEF c, L, at
  <2>5. \A j \in 1..2 : j = 1 \/ j = 2
    OBVIOUS
  <2>6. \A j \in 1..2 : L[j] \in HeadNames
    BY <2>4, <2>5 DEF HeadNames, FieldNames
  <2>7. \A j \in 1..2 : at[L[j]] = c[j]
    BY <2>4, <2>5
  <2>8. \A j \in 1..2 : c[j + 1] = c[j] + HeadWidth(L[j])
    BY <1>0, <2>4, <2>5
  <2>9. Tallies(L, at, 6)
    BY <2>3, <2>4, <2>6, <2>7, <2>8 DEF Tallies
  <2> QED
    BY <2>1, <2>2, <2>9
<1>3. CASE k \in {"zone", "room"}
  <2> DEFINE L == <<"repeat", "count">>
             at == [repeat |-> 4, count |-> 5]
             c == <<4, 5, 6>>
  <2>1. PhoneHead[k] = L /\ HeadAt[k] = at
    BY <1>3 DEF PhoneHead, HeadAt, Kinds
  <2>2. ItemsAt[k] = 6
    BY <1>3 DEF ItemsAt, Kinds
  <2>3. c \in [1..3 -> Nat] /\ Len(L) = 2 /\ DOMAIN at = Range(L)
    BY DEF Range
  <2>4. /\ c[1] = 4 /\ c[2] = 5 /\ c[3] = 6
        /\ L[1] = "repeat" /\ L[2] = "count"
        /\ at["repeat"] = 4 /\ at["count"] = 5
    OBVIOUS
  <2> HIDE DEF c, L, at
  <2>5. \A j \in 1..2 : j = 1 \/ j = 2
    OBVIOUS
  <2>6. \A j \in 1..2 : L[j] \in HeadNames
    BY <2>4, <2>5 DEF HeadNames, FieldNames
  <2>7. \A j \in 1..2 : at[L[j]] = c[j]
    BY <2>4, <2>5
  <2>8. \A j \in 1..2 : c[j + 1] = c[j] + HeadWidth(L[j])
    BY <1>0, <2>4, <2>5
  <2>9. Tallies(L, at, 6)
    BY <2>3, <2>4, <2>6, <2>7, <2>8 DEF Tallies
  <2> QED
    BY <2>1, <2>2, <2>9
<1>4. CASE k \in {"zoneNamed"}
  <2> DEFINE L == <<"version", "repeat", "count">>
             at == [version |-> 4, repeat |-> 5, count |-> 6]
             c == <<4, 5, 6, 7>>
  <2>1. PhoneHead[k] = L /\ HeadAt[k] = at
    BY <1>4 DEF PhoneHead, HeadAt, Kinds
  <2>2. ItemsAt[k] = 7
    BY <1>4 DEF ItemsAt, Kinds
  <2>3. c \in [1..4 -> Nat] /\ Len(L) = 3 /\ DOMAIN at = Range(L)
    BY DEF Range
  <2>4. /\ c[1] = 4 /\ c[2] = 5 /\ c[3] = 6 /\ c[4] = 7
        /\ L[1] = "version" /\ L[2] = "repeat" /\ L[3] = "count"
        /\ at["version"] = 4 /\ at["repeat"] = 5 /\ at["count"] = 6
    OBVIOUS
  <2> HIDE DEF c, L, at
  <2>5. \A j \in 1..3 : j = 1 \/ j = 2 \/ j = 3
    OBVIOUS
  <2>6. \A j \in 1..3 : L[j] \in HeadNames
    BY <2>4, <2>5 DEF HeadNames, FieldNames
  <2>7. \A j \in 1..3 : at[L[j]] = c[j]
    BY <2>4, <2>5
  <2>8. \A j \in 1..3 : c[j + 1] = c[j] + HeadWidth(L[j])
    BY <1>0, <2>4, <2>5
  <2>9. Tallies(L, at, 7)
    BY <2>3, <2>4, <2>6, <2>7, <2>8 DEF Tallies
  <2> QED
    BY <2>1, <2>2, <2>9
<1>5. CASE k \in {"spot"}
  <2> DEFINE L == <<"x", "y">>
             at == [x |-> 4, y |-> 6]
             c == <<4, 6, 8>>
  <2>1. PhoneHead[k] = L /\ HeadAt[k] = at
    BY <1>5 DEF PhoneHead, HeadAt, Kinds
  <2>2. "count" \notin Range(L)
    BY DEF Range
  <2>3. c \in [1..3 -> Nat] /\ Len(L) = 2 /\ DOMAIN at = Range(L)
    BY DEF Range
  <2>4. /\ c[1] = 4 /\ c[2] = 6 /\ c[3] = 8
        /\ L[1] = "x" /\ L[2] = "y"
        /\ at["x"] = 4 /\ at["y"] = 6
    OBVIOUS
  <2> HIDE DEF c, L, at
  <2>5. \A j \in 1..2 : j = 1 \/ j = 2
    OBVIOUS
  <2>6. \A j \in 1..2 : L[j] \in HeadNames
    BY <2>4, <2>5 DEF HeadNames, FieldNames
  <2>7. \A j \in 1..2 : at[L[j]] = c[j]
    BY <2>4, <2>5
  <2>8. \A j \in 1..2 : c[j + 1] = c[j] + HeadWidth(L[j])
    BY <1>0, <2>4, <2>5
  <2>9. Tallies(L, at, 8)
    BY <2>3, <2>4, <2>6, <2>7, <2>8 DEF Tallies
  <2> QED
    BY <2>1, <2>2, <2>9
<1>6. CASE k \in {"spot1"}
  <2> DEFINE L == <<"version", "mode", "suction", "cistern", "repeat", "x", "y">>
             at == [version |-> 4, mode |-> 5, suction |-> 6, cistern |-> 7, repeat |-> 8, x |-> 9, y |-> 11]
             c == <<4, 5, 6, 7, 8, 9, 11, 13>>
  <2>1. PhoneHead[k] = L /\ HeadAt[k] = at
    BY <1>6 DEF PhoneHead, HeadAt, Kinds
  <2>2. "count" \notin Range(L)
    BY DEF Range
  <2>3. c \in [1..8 -> Nat] /\ Len(L) = 7 /\ DOMAIN at = Range(L)
    BY DEF Range
  <2>4. /\ c[1] = 4 /\ c[2] = 5 /\ c[3] = 6 /\ c[4] = 7 /\ c[5] = 8 /\ c[6] = 9 /\ c[7] = 11 /\ c[8] = 13
        /\ L[1] = "version" /\ L[2] = "mode" /\ L[3] = "suction" /\ L[4] = "cistern" /\ L[5] = "repeat" /\ L[6] = "x" /\ L[7] = "y"
        /\ at["version"] = 4 /\ at["mode"] = 5 /\ at["suction"] = 6 /\ at["cistern"] = 7 /\ at["repeat"] = 8 /\ at["x"] = 9 /\ at["y"] = 11
    OBVIOUS
  <2> HIDE DEF c, L, at
  <2>5. \A j \in 1..7 : j = 1 \/ j = 2 \/ j = 3 \/ j = 4 \/ j = 5 \/ j = 6 \/ j = 7
    OBVIOUS
  <2>6. \A j \in 1..7 : L[j] \in HeadNames
    BY <2>4, <2>5 DEF HeadNames, FieldNames
  <2>7. \A j \in 1..7 : at[L[j]] = c[j]
    BY <2>4, <2>5
  <2>8. \A j \in 1..7 : c[j + 1] = c[j] + HeadWidth(L[j])
    BY <1>0, <2>4, <2>5
  <2>9. Tallies(L, at, 13)
    BY <2>3, <2>4, <2>6, <2>7, <2>8 DEF Tallies
  <2> QED
    BY <2>1, <2>2, <2>9
<1>7. CASE k \in {"alert"}
  <2> DEFINE L == <<"zone", "count">>
             at == [zone |-> 4, count |-> 5]
             c == <<4, 5, 6>>
  <2>1. PhoneHead[k] = L /\ HeadAt[k] = at
    BY <1>7 DEF PhoneHead, HeadAt, Kinds
  <2>2. ItemsAt[k] = 6
    BY <1>7 DEF ItemsAt, Kinds
  <2>3. c \in [1..3 -> Nat] /\ Len(L) = 2 /\ DOMAIN at = Range(L)
    BY DEF Range
  <2>4. /\ c[1] = 4 /\ c[2] = 5 /\ c[3] = 6
        /\ L[1] = "zone" /\ L[2] = "count"
        /\ at["zone"] = 4 /\ at["count"] = 5
    OBVIOUS
  <2> HIDE DEF c, L, at
  <2>5. \A j \in 1..2 : j = 1 \/ j = 2
    OBVIOUS
  <2>6. \A j \in 1..2 : L[j] \in HeadNames
    BY <2>4, <2>5 DEF HeadNames, FieldNames
  <2>7. \A j \in 1..2 : at[L[j]] = c[j]
    BY <2>4, <2>5
  <2>8. \A j \in 1..2 : c[j + 1] = c[j] + HeadWidth(L[j])
    BY <1>0, <2>4, <2>5
  <2>9. Tallies(L, at, 6)
    BY <2>3, <2>4, <2>6, <2>7, <2>8 DEF Tallies
  <2> QED
    BY <2>1, <2>2, <2>9
<1>8. CASE k \in {"dnd"}
  <2> DEFINE L == <<"zone", "start", "startDay", "end", "endDay">>
             at == [zone |-> 4, start |-> 5, startDay |-> 7, end |-> 8, endDay |-> 10]
             c == <<4, 5, 7, 8, 10, 11>>
  <2>1. PhoneHead[k] = L /\ HeadAt[k] = at
    BY <1>8 DEF PhoneHead, HeadAt, Kinds
  <2>2. "count" \notin Range(L)
    BY DEF Range
  <2>3. c \in [1..6 -> Nat] /\ Len(L) = 5 /\ DOMAIN at = Range(L)
    BY DEF Range
  <2>4. /\ c[1] = 4 /\ c[2] = 5 /\ c[3] = 7 /\ c[4] = 8 /\ c[5] = 10 /\ c[6] = 11
        /\ L[1] = "zone" /\ L[2] = "start" /\ L[3] = "startDay" /\ L[4] = "end" /\ L[5] = "endDay"
        /\ at["zone"] = 4 /\ at["start"] = 5 /\ at["startDay"] = 7 /\ at["end"] = 8 /\ at["endDay"] = 10
    OBVIOUS
  <2> HIDE DEF c, L, at
  <2>5. \A j \in 1..5 : j = 1 \/ j = 2 \/ j = 3 \/ j = 4 \/ j = 5
    OBVIOUS
  <2>6. \A j \in 1..5 : L[j] \in HeadNames
    BY <2>4, <2>5 DEF HeadNames, FieldNames
  <2>7. \A j \in 1..5 : at[L[j]] = c[j]
    BY <2>4, <2>5
  <2>8. \A j \in 1..5 : c[j + 1] = c[j] + HeadWidth(L[j])
    BY <1>0, <2>4, <2>5
  <2>9. Tallies(L, at, 11)
    BY <2>3, <2>4, <2>6, <2>7, <2>8 DEF Tallies
  <2> QED
    BY <2>1, <2>2, <2>9
<1>9. CASE k \in {"dnd1"}
  <2> DEFINE L == <<"version", "onoff", "zone", "start", "startDay", "end", "endDay">>
             at == [version |-> 4, onoff |-> 5, zone |-> 6, start |-> 7, startDay |-> 9, end |-> 10, endDay |-> 12]
             c == <<4, 5, 6, 7, 9, 10, 12, 13>>
  <2>1. PhoneHead[k] = L /\ HeadAt[k] = at
    BY <1>9 DEF PhoneHead, HeadAt, Kinds
  <2>2. "count" \notin Range(L)
    BY DEF Range
  <2>3. c \in [1..8 -> Nat] /\ Len(L) = 7 /\ DOMAIN at = Range(L)
    BY DEF Range
  <2>4. /\ c[1] = 4 /\ c[2] = 5 /\ c[3] = 6 /\ c[4] = 7 /\ c[5] = 9 /\ c[6] = 10 /\ c[7] = 12 /\ c[8] = 13
        /\ L[1] = "version" /\ L[2] = "onoff" /\ L[3] = "zone" /\ L[4] = "start" /\ L[5] = "startDay" /\ L[6] = "end" /\ L[7] = "endDay"
        /\ at["version"] = 4 /\ at["onoff"] = 5 /\ at["zone"] = 6 /\ at["start"] = 7 /\ at["startDay"] = 9 /\ at["end"] = 10 /\ at["endDay"] = 12
    OBVIOUS
  <2> HIDE DEF c, L, at
  <2>5. \A j \in 1..7 : j = 1 \/ j = 2 \/ j = 3 \/ j = 4 \/ j = 5 \/ j = 6 \/ j = 7
    OBVIOUS
  <2>6. \A j \in 1..7 : L[j] \in HeadNames
    BY <2>4, <2>5 DEF HeadNames, FieldNames
  <2>7. \A j \in 1..7 : at[L[j]] = c[j]
    BY <2>4, <2>5
  <2>8. \A j \in 1..7 : c[j + 1] = c[j] + HeadWidth(L[j])
    BY <1>0, <2>4, <2>5
  <2>9. Tallies(L, at, 13)
    BY <2>3, <2>4, <2>6, <2>7, <2>8 DEF Tallies
  <2> QED
    BY <2>1, <2>2, <2>9
<1> QED
  BY <1>1, <1>2, <1>3, <1>4, <1>5, <1>6, <1>7, <1>8, <1>9 DEF Kinds

\* The handler finds the fields of the header where the phone put them.
LEMMA HeadRead ==
  ASSUME NEW k \in Kinds, NEW r, FieldsOK(PhoneHead[k], r),
         NEW d \in Seq(Bytes), At(d, 1, FlattenSeq(Encoded(PhoneHead[k], r))),
         NEW ms \in Arrivals
  PROVE  /\ "count" \in Range(PhoneHead[k]) =>
               ItemsAt[k] - 3 = 1 + Len(FlattenSeq(Encoded(PhoneHead[k], r)))
         /\ \E u \in Readings(InForce(ms)) :
               ReadHead(d, k, ms) = [f \in Range(PhoneHead[k]) |-> Metres(u[f], f, r[f])]
<1> DEFINE layout == PhoneHead[k]
           enc == Encoded(layout, r)
           N == Len(layout)
           at == HeadAt[k]
<1>1. layout \in Seq(FieldNames)
  BY HeadLayout
<1>2. PICK e \in Nat : Tallies(layout, at, e) /\ ("count" \in Range(layout) => ItemsAt[k] = e)
  BY HeadTallies
<1>00. ReadHead(d, k, ms) = [f \in DOMAIN at |-> FieldValue(d, at[f] - 3, f, ms)]
  BY DEF ReadHead
<1> HIDE DEF layout, at
<1>3. /\ enc \in Seq(Seq(Bytes)) /\ Len(enc) = N /\ N \in Nat /\ DOMAIN layout = 1..N
      /\ \A j \in 1..N : enc[j] = RequestField(layout[j], r[layout[j]])
  <2>1. N \in Nat /\ DOMAIN layout = 1..N
    BY <1>1
  <2>2. /\ enc \in Seq(Seq(Bytes)) /\ Len(enc) = N
        /\ \A j \in 1..N : enc[j] = RequestField(layout[j], r[layout[j]])
    BY <1>1, EncodedBytes DEF layout
  <2> QED
    BY <2>1, <2>2
<1>4. PICK g : Walks(d, 1, enc, g)
  BY <1>3, WalkExists DEF layout
<1> HIDE DEF enc, N
<1>5. /\ g \in [1..(N + 1) -> Nat] /\ g[1] = 1 /\ g[N + 1] = 1 + Len(FlattenSeq(enc))
      /\ \A i \in 1..N : At(d, g[i], enc[i]) /\ g[i + 1] = g[i] + Len(enc[i])
  BY <1>3, <1>4 DEF Walks
<1>6. PICK c \in [1..(N + 1) -> Nat] :
          /\ c[1] = 4 /\ c[N + 1] = e
          /\ \A j \in 1..N : c[j + 1] = c[j] + HeadWidth(layout[j])
          /\ \A j \in 1..N : at[layout[j]] = c[j]
  BY <1>2 DEF Tallies, N
<1>7. DOMAIN at = Range(layout) /\ \A j \in 1..N : layout[j] \in HeadNames
  BY <1>2 DEF Tallies, N
<1>8. ASSUME NEW j \in 1..N
      PROVE  /\ FieldOK(layout[j], r[layout[j]]) /\ Len(enc[j]) = HeadWidth(layout[j])
             /\ HeadWidth(layout[j]) \in Nat
             /\ FieldReads(d, g[j], layout[j], r[layout[j]])
  <2>1. FieldOK(layout[j], r[layout[j]])
    BY <1>3 DEF FieldsOK, layout
  <2>2. At(d, g[j], RequestField(layout[j], r[layout[j]]))
    BY <1>3, <1>5
  <2>3. FieldReads(d, g[j], layout[j], r[layout[j]])
    BY <2>1, <2>2, ReadField
  <2> QED
    BY <2>1, <2>3, <1>3, <1>7, HeadFieldLen DEF HeadWidth
<1> DEFINE T == {n \in 0..N : c[n + 1] = g[n + 1] + 3}
<1>9. 0 \in T
  <2>1. 0 \in 0..N /\ 0 + 1 = 1
    BY <1>3
  <2> QED
    BY <2>1, <1>5, <1>6
<1>10. ASSUME NEW i \in 1..N, i - 1 \in T PROVE i \in T
  <2>0. i - 1 + 1 = i /\ i \in 0..N /\ i \in 1..(N + 1)
    BY <1>3
  <2>1. c[i] = g[i] + 3 /\ g[i] \in Nat
    BY <1>10, <2>0, <1>5
  <2>2. c[i + 1] = c[i] + HeadWidth(layout[i]) /\ g[i + 1] = g[i] + HeadWidth(layout[i])
        /\ HeadWidth(layout[i]) \in Nat
    BY <1>5, <1>6, <1>8
  <2>3. c[i + 1] = g[i + 1] + 3
    BY <2>1, <2>2
  <2> QED
    BY <2>0, <2>3
<1>11. \A i \in 0..N : i \in T
  <2> HIDE DEF T
  <2> QED
    BY <1>3, <1>9, <1>10, Induct
<1>12. \A j \in 1..(N + 1) : c[j] - 3 = g[j]
  <2>1. ASSUME NEW j \in 1..(N + 1) PROVE c[j] - 3 = g[j]
    <3>1. j - 1 \in 0..N /\ j - 1 + 1 = j
      BY <1>3
    <3>2. c[j] = g[j] + 3 /\ g[j] \in Nat
      BY <3>1, <1>5, <1>11
    <3> QED
      BY <3>2
  <2> QED
    BY <2>1
<1>13. e - 3 = 1 + Len(FlattenSeq(enc))
  <2>1. N + 1 \in 1..(N + 1)
    BY <1>3
  <2> QED
    BY <2>1, <1>5, <1>6, <1>12
<1>14. ASSUME NEW f \in Range(layout)
       PROVE  FieldValue(d, at[f] - 3, f, ms) = Metres(From(ms, at[f] - 3), f, r[f])
  <2>1. PICK j \in DOMAIN layout : f = layout[j]
    BY DEF Range
  <2>2. j \in 1..N /\ j \in 1..(N + 1)
    BY <2>1, <1>3
  <2>3. at[f] - 3 = g[j]
    BY <2>1, <2>2, <1>6, <1>12
  <2> QED
    BY <2>1, <2>2, <2>3, <1>8 DEF FieldReads
<1> DEFINE w == [f \in Range(layout) |-> From(ms, at[f] - 3)]
<1>15. ReadHead(d, k, ms) = [f \in Range(layout) |-> Metres(w[f], f, r[f])]
  BY <1>00, <1>7, <1>14
<1>16. \A f \in FieldNames \cap Range(layout) : w[f] \in [Nat -> InForce(ms)]
  BY FromInForce
<1> HIDE DEF w
<1> DEFINE u == [f \in FieldNames |-> IF f \in Range(layout) THEN w[f] ELSE From(ms, 0)]
<1>17. u \in Readings(InForce(ms)) /\ \A f \in FieldNames \cap Range(layout) : u[f] = w[f]
  BY <1>16, SomeReading DEF Readings
<1> HIDE DEF u
<1>18. Range(layout) \subseteq FieldNames
  BY <1>1 DEF Range
<1>19. ReadHead(d, k, ms) = [f \in Range(layout) |-> Metres(u[f], f, r[f])]
  BY <1>15, <1>17, <1>18
<1> QED
  BY <1>2, <1>13, <1>17, <1>19 DEF enc, layout

\* The resolutions at which a setting is read: those of its header (0) and of
\* each item.
Measures(S) == [Nat -> Readings(S)]

\* What the phone means by s when its coordinates are read so.
Meant(u, k, s) ==
    [head  |-> Clamped(k, [f \in Range(PhoneHead[k]) \ {"count"} |-> Metres(u[0][f], f, s.head[f])]),
     items |-> [i \in 1..Len(s.items) |->
                  [f \in Range(PhoneItems[k]) |-> Metres(u[i][f], f, s.items[i][f])]]]

\* The body of a request: the header, then the items.
LEMMA RequestParts ==
  ASSUME NEW k \in Kinds, NEW s, SettingOK(k, s)
  PROVE  LET A == FlattenSeq(Encoded(PhoneHead[k], HeadRecord(s, PhoneHead[k])))
             B == FlattenSeq(ItemsEncoded(PhoneItems[k], s.items))
         IN  /\ A \in Seq(Bytes) /\ B \in Seq(Bytes) /\ RequestBody(k, s) = A \o B
             /\ RequestBody(k, s) \in Seq(Bytes)
             /\ At(RequestBody(k, s), 1, A) /\ At(RequestBody(k, s), Len(A) + 1, B)
<1> DEFINE layout == PhoneHead[k]
           V == HeadRecord(s, layout)
           A == FlattenSeq(Encoded(layout, V))
           B == FlattenSeq(ItemsEncoded(PhoneItems[k], s.items))
<1>1. layout \in Seq(FieldNames) /\ PhoneItems[k] \in Seq(FieldNames)
  BY HeadLayout, ItemLayout
<1>2. /\ FieldsOK(layout, V) /\ s.items \in Seq(Range(s.items))
      /\ \A i \in DOMAIN s.items : FieldsOK(PhoneItems[k], s.items[i])
  BY SettingFields
<1>3. A \in Seq(Bytes)
  BY <1>1, <1>2, EncodedBytes
<1>4. B \in Seq(Bytes)
  BY <1>1, <1>2, ItemsBytes, FlattenType
<1>5. RequestBody(k, s) = A \o B
  BY <1>1, HeadBytes, ItemBytes DEF RequestBody
<1> HIDE DEF A, B
<1>6. A \o B \in Seq(Bytes) /\ At(A \o B, 1, A) /\ At(A \o B, Len(A) + 1, B)
  BY <1>3, <1>4, AtJoin
<1> QED
  BY <1>3, <1>4, <1>5, <1>6 DEF A, B

\* The handler takes out of the request what the phone means.
LEMMA DecodeMeant ==
  ASSUME NEW k \in Kinds, NEW s, SettingOK(k, s), NEW ms \in Arrivals
  PROVE  \E u \in Measures(InForce(ms)) : Decode(k, RequestBody(k, s), ms) = Meant(u, k, s)
<1> DEFINE layout == PhoneHead[k]
           V == HeadRecord(s, layout)
           A == FlattenSeq(Encoded(layout, V))
           B == FlattenSeq(ItemsEncoded(PhoneItems[k], s.items))
           d == RequestBody(k, s)
           N == Len(s.items)
           h == ReadHead(d, k, ms)
           n == IF "count" \in DOMAIN h THEN h["count"] ELSE 0
           p == ItemsAt[k] - 3
<1>1. layout \in Seq(FieldNames) /\ PhoneItems[k] \in Seq(FieldNames)
  BY HeadLayout, ItemLayout
<1>2. /\ FieldsOK(layout, V) /\ s.items \in Seq(Range(s.items)) /\ N \in 0..255
      /\ \A i \in DOMAIN s.items : FieldsOK(PhoneItems[k], s.items[i])
  BY SettingFields
<1>00. "count" \notin Range(layout) => N = 0
  BY DEF SettingOK
<1>000. V = [f \in Range(layout) |-> HeadValue(s, f)]
  BY DEF HeadRecord
<1>0. Decode(k, d, ms) = [head  |-> Clamped(k, Restrict(h, DOMAIN h \ {"count"})),
                          items |-> ReadItems(d, p, n, PhoneItems[k], ms)]
  BY SameItems DEF Decode
<1>6. A \in Seq(Bytes) /\ d \in Seq(Bytes) /\ At(d, 1, A) /\ At(d, Len(A) + 1, B)
  BY RequestParts
<1>7. /\ "count" \in Range(layout) => p = 1 + Len(A)
      /\ \E u \in Readings(InForce(ms)) : h = [f \in Range(layout) |-> Metres(u[f], f, V[f])]
  BY <1>2, <1>6, HeadRead
<1>70. PICK hu \in Readings(InForce(ms)) : h = [f \in Range(layout) |-> Metres(hu[f], f, V[f])]
  BY <1>7
<1> HIDE DEF layout, V, d, n, h, p
<1>8. n = N
  <2>1. CASE "count" \in Range(layout)
    <3>1. Metres(hu["count"], "count", V["count"]) = V["count"] /\ V["count"] = N
      BY <2>1, <1>000 DEF Metres, HeadValue, Coordinates
    <3> QED
      BY <2>1, <3>1, <1>70 DEF n
  <2>2. CASE "count" \notin Range(layout)
    BY <2>2, <1>00, <1>70 DEF n
  <2> QED
    BY <2>1, <2>2
<1>9. Restrict(h, DOMAIN h \ {"count"})
        = [f \in Range(layout) \ {"count"} |-> Metres(hu[f], f, s.head[f])]
  <2>1. \A f \in Range(layout) \ {"count"} : V[f] = s.head[f]
    BY <1>000 DEF HeadValue
  <2> QED
    BY <2>1, <1>70 DEF Restrict
<1>10. 1 + Len(A) = Len(A) + 1
  <2>1. Len(A) \in Nat
    <3> HIDE DEF A
    <3> QED
      BY <1>6
  <2> HIDE DEF A
  <2> QED
    BY <2>1
<1>11. \E u \in [Nat -> Readings(InForce(ms))] :
         ReadItems(d, p, N, PhoneItems[k], ms)
           = [i \in 1..N |-> [f \in Range(PhoneItems[k]) |-> Metres(u[i][f], f, s.items[i][f])]]
  <2> DEFINE its == s.items
             fs == PhoneItems[k]
  <2>1. /\ fs \in Seq(FieldNames) /\ its \in Seq(Range(its)) /\ N = Len(its)
        /\ \A i \in DOMAIN its : FieldsOK(fs, its[i])
    BY <1>1, <1>2
  <2>2. CASE "count" \in Range(layout)
    <3>1. At(d, p, FlattenSeq(ItemsEncoded(fs, its)))
      <4>1. p = Len(A) + 1
        <5> HIDE DEF A
        <5> QED
          BY <2>2, <1>7, <1>10
      <4> HIDE DEF A
      <4> QED
        BY <4>1, <1>6
    <3>2. \E u \in [Nat -> Readings(InForce(ms))] : ItemsReadAs(u, d, p, fs, its, ms)
      <4>1. d \in Seq(Bytes)
        BY <1>6
      <4> HIDE DEF its, fs
      <4> QED
        BY <4>1, <2>1, <3>1, ItemsRead, Zenon
    <3>3. PICK u \in [Nat -> Readings(InForce(ms))] : ItemsReadAs(u, d, p, fs, its, ms)
      BY <3>2
    <3> QED
      BY <3>3 DEF ItemsReadAs
  <2>3. CASE "count" \notin Range(layout)
    <3>1. N = 0 /\ 1..N = {}
      BY <2>3, <1>00
    <3>2. ReadItems(d, p, N, fs, ms) = <<>>
      BY <3>1 DEF ReadItems
    <3> DEFINE u == [i \in Nat |-> hu]
    <3>4. u \in [Nat -> Readings(InForce(ms))]
      OBVIOUS
    <3> HIDE DEF u
    <3>3. [i \in 1..N |-> [f \in Range(fs) |-> Metres(u[i][f], f, its[i][f])]] = <<>>
      BY <3>1
    <3> QED
      BY <3>2, <3>3, <3>4
  <2> QED
    BY <2>2, <2>3
<1>12. PICK iu \in [Nat -> Readings(InForce(ms))] :
         ReadItems(d, p, N, PhoneItems[k], ms)
           = [i \in 1..N |-> [f \in Range(PhoneItems[k]) |-> Metres(iu[i][f], f, s.items[i][f])]]
  BY <1>11
<1> DEFINE u == [i \in Nat |-> IF i = 0 THEN hu ELSE iu[i]]
<1>13. u \in Measures(InForce(ms)) /\ u[0] = hu /\ \A i \in 1..N : u[i] = iu[i]
  BY <1>2 DEF Measures
<1> HIDE DEF u
<1>14. [i \in 1..N |-> [f \in Range(PhoneItems[k]) |-> Metres(iu[i][f], f, s.items[i][f])]]
         = [i \in 1..N |-> [f \in Range(PhoneItems[k]) |-> Metres(u[i][f], f, s.items[i][f])]]
  BY <1>13
<1>15. Decode(k, d, ms) =
         [head  |-> Clamped(k, [f \in Range(layout) \ {"count"} |-> Metres(u[0][f], f, s.head[f])]),
          items |-> [i \in 1..N |-> [f \in Range(PhoneItems[k]) |-> Metres(u[i][f], f, s.items[i][f])]]]
  BY <1>0, <1>8, <1>9, <1>12, <1>13, <1>14
<1>16. Decode(k, d, ms) = Meant(u, k, s)
  BY <1>15 DEF Meant, layout
<1> QED
  BY <1>13, <1>16 DEF d

----------------------------------------------------------------------------
(* What the handler holds while it waits.                                   *)

\* The inductive invariant behind the properties. MeantInv: the setting taken is
\* the one meant, each point at a resolution of that time; HeldInv: what the robot
\* holds was taken so once; WaitInv: nothing is reported while the handler waits.
MeantInv ==
    \/ taken = NoSetting /\ waits # "set"
    \/ kind \in Kinds /\ asked \in Settings[kind]
       /\ \E u \in Measures(scale) : taken = Meant(u, kind, asked)

HeldFrom(ks, h) ==
    \/ h = NoSetting
    \/ \E k \in ks : \E s \in Settings[k] : \E u \in Measures(Resolutions) : h = Meant(u, k, s)

HeldInv ==
    /\ held = [spot |-> held["spot"], room |-> held["room"]]
    /\ HeldFrom({"spot", "spot1"}, held["spot"])
    /\ HeldFrom({"room"}, held["room"])

WaitInv ==
    /\ res \in Resolutions /\ scale \subseteq Resolutions
    /\ waits \in {"idle", "set", "command", "query"}
    /\ waits # "idle" => frame = <<>>
    /\ waits = "command" => kind \in Commands
    /\ waits = "query" => kind \in {"room", "spot", "spot1"}
    /\ waits \in {"command", "query"} => asked = NoSetting

RawInv == MeantInv /\ HeldInv /\ WaitInv

\* The maps of a request are maps of the robot.
LEMMA ArrivedMaps ==
  ASSUME NEW ms \in Arrivals, res \in Resolutions
  PROVE  /\ InForce(ms) \subseteq Resolutions /\ Len(ms) \in Nat
         /\ (IF ms = <<>> THEN res ELSE ms[Len(ms)].res) \in Resolutions
<1>1. ms \in Seq([cut : Nat, res : Resolutions])
  BY RawAssumption
<1>2. ASSUME NEW j \in DOMAIN ms PROVE ms[j].res \in Resolutions
  <2> DEFINE M == [cut : Nat, res : Resolutions]
  <2>1. ms \in Seq(M)
    BY <1>1
  <2> HIDE DEF M
  <2>2. ms[j] \in M
    BY <2>1
  <2> QED
    BY <2>2 DEF M
<1>3. ms # <<>> => Len(ms) \in DOMAIN ms
  BY <1>1
<1> QED
  BY <1>1, <1>2, <1>3 DEF InForce

\* More resolutions allow more readings.
LEMMA MeasuresGrow ==
  ASSUME NEW S, NEW T, S \subseteq T
  PROVE  Measures(S) \subseteq Measures(T)
<1>1. [Nat -> S] \subseteq [Nat -> T]
  OBVIOUS
<1>2. Readings(S) \subseteq Readings(T)
  BY <1>1 DEF Readings
<1> QED
  BY <1>2 DEF Measures

\* Set takes what is meant, at the resolutions in force meanwhile.
LEMMA SetTakes ==
  ASSUME NEW k \in Kinds, NEW s \in Settings[k], NEW ms \in Arrivals, Set(k, s, ms), WaitInv
  PROVE  /\ \E u \in Measures(scale') : taken' = Meant(u, k, s)
         /\ kind' = k /\ asked' = s /\ scale' \subseteq Resolutions /\ res' \in Resolutions
<1>1. SettingOK(k, s)
  BY SettingsAssumption
<1>2. \E u \in Measures(InForce(ms)) : Decode(k, RequestBody(k, s), ms) = Meant(u, k, s)
  BY <1>1, DecodeMeant
<1>3. scale' = InForce(ms) /\ taken' = Decode(k, RequestBody(k, s), ms) /\ kind' = k /\ asked' = s
      /\ res' = IF ms = <<>> THEN res ELSE ms[Len(ms)].res
  BY DEF Set, NewRequest
<1>4. InForce(ms) \subseteq Resolutions /\ (IF ms = <<>> THEN res ELSE ms[Len(ms)].res) \in Resolutions
  BY ArrivedMaps DEF WaitInv
<1> QED
  BY <1>2, <1>3, <1>4

\* What the robot holds after it took a setting was meant too.
LEMMA HoldsHeld ==
  ASSUME RawInv, waits = "set"
  PROVE  /\ Holds(kind, taken) = [spot |-> Holds(kind, taken)["spot"],
                                  room |-> Holds(kind, taken)["room"]]
         /\ HeldFrom({"spot", "spot1"}, Holds(kind, taken)["spot"])
         /\ HeldFrom({"room"}, Holds(kind, taken)["room"])
<1> USE DEF RawInv
<1>1. kind \in Kinds /\ asked \in Settings[kind]
      /\ \E u \in Measures(Resolutions) : taken = Meant(u, kind, asked)
  BY MeasuresGrow DEF MeantInv, WaitInv
<1>2. DOMAIN held = {"spot", "room"}
  BY DEF HeldInv
<1>3. CASE kind \in {"spot", "spot1"}
  <2>1. Holds(kind, taken) = [held EXCEPT !["spot"] = taken]
    BY <1>2, <1>3 DEF Holds, Slot
  <2>2. Holds(kind, taken)["spot"] = taken /\ Holds(kind, taken)["room"] = held["room"]
        /\ DOMAIN Holds(kind, taken) = {"spot", "room"}
    BY <2>1, <1>2
  <2>3. HeldFrom({"spot", "spot1"}, taken)
    BY <1>1, <1>3 DEF HeldFrom
  <2>4. Holds(kind, taken) = [spot |-> taken, room |-> held["room"]]
    BY <2>1 DEF HeldInv
  <2> QED
    BY <2>2, <2>3, <2>4 DEF HeldInv
<1>4. CASE kind = "room"
  <2>1. Holds(kind, taken) = [held EXCEPT !["room"] = taken]
    BY <1>2, <1>4 DEF Holds, Slot
  <2>2. Holds(kind, taken)["room"] = taken /\ Holds(kind, taken)["spot"] = held["spot"]
    BY <2>1, <1>2
  <2>3. HeldFrom({"room"}, taken)
    BY <1>1, <1>4 DEF HeldFrom
  <2>4. Holds(kind, taken) = [spot |-> held["spot"], room |-> taken]
    BY <2>1 DEF HeldInv
  <2> QED
    BY <2>2, <2>3, <2>4 DEF HeldInv
<1>5. CASE kind \notin {"spot", "spot1", "room"}
  <2>1. Holds(kind, taken) = held
    BY <1>2, <1>5 DEF Holds, Slot
  <2> QED
    BY <2>1 DEF HeldInv
<1> QED
  BY <1>3, <1>4, <1>5

\* RawInv holds at the start ...
LEMMA RawInvInit == RawInit => RawInv
BY DEF RawInit, RawInv, MeantInv, HeldInv, HeldFrom, WaitInv

\* ... every action keeps it ...
LEMMA RawInvNext == RawInv /\ [RawNext]_rawVars => RawInv'
<1> SUFFICES ASSUME RawInv, [RawNext]_rawVars PROVE RawInv'
  OBVIOUS
<1> USE DEF RawInv
<1>1. ASSUME NEW k \in Kinds, NEW s \in Settings[k], NEW ms \in Arrivals, Set(k, s, ms) PROVE RawInv'
  <2>1. /\ \E u \in Measures(scale') : taken' = Meant(u, k, s)
        /\ kind' = k /\ asked' = s /\ scale' \subseteq Resolutions /\ res' \in Resolutions
    BY <1>1, SetTakes
  <2>2. MeantInv'
    BY <2>1 DEF MeantInv
  <2>3. HeldInv'
    BY <1>1 DEF Set, NewRequest, HeldInv
  <2>4. WaitInv'
    BY <1>1, <2>1 DEF Set, NewRequest, WaitInv
  <2> QED
    BY <2>2, <2>3, <2>4
<1>2. ASSUME NEW c \in Commands, Command(c) PROVE RawInv'
  <2>0. res' = res /\ scale' = {res}
    BY <1>2, RawAssumption DEF Command, NewRequest, InForce
  <2>1. MeantInv' /\ WaitInv'
    BY <1>2, <2>0 DEF Command, NewRequest, MeantInv, WaitInv
  <2>2. HeldInv'
    BY <1>2 DEF Command, NewRequest, HeldInv
  <2> QED
    BY <2>1, <2>2
<1>3. ASSUME NEW k \in {"room", "spot", "spot1"}, Query(k) PROVE RawInv'
  <2>0. res' = res /\ scale' = {res}
    BY <1>3, RawAssumption DEF Query, NewRequest, InForce
  <2>1. MeantInv' /\ WaitInv'
    BY <1>3, <2>0 DEF Query, NewRequest, MeantInv, WaitInv
  <2>2. HeldInv'
    BY <1>3 DEF Query, NewRequest, HeldInv
  <2> QED
    BY <2>1, <2>2
<1>4. CASE AnswerSet
  <2>1. MeantInv' /\ WaitInv'
    BY <1>4 DEF AnswerSet, MeantInv, WaitInv
  <2>2. HeldInv'
    BY <1>4, HoldsHeld DEF AnswerSet, HeldInv
  <2> QED
    BY <2>1, <2>2
<1>5. CASE AnswerCommand
  <2>1. MeantInv' /\ WaitInv'
    BY <1>5 DEF AnswerCommand, MeantInv, WaitInv
  <2>2. HeldInv'
    BY <1>5 DEF AnswerCommand, HeldInv
  <2> QED
    BY <2>1, <2>2
<1>6. CASE AnswerQuery
  <2>1. MeantInv' /\ WaitInv'
    BY <1>6 DEF AnswerQuery, MeantInv, WaitInv
  <2>2. HeldInv'
    BY <1>6 DEF AnswerQuery, HeldInv
  <2> QED
    BY <2>1, <2>2
<1>7. CASE RobotSilent
  <2>1. MeantInv' /\ WaitInv'
    BY <1>7 DEF RobotSilent, MeantInv, WaitInv
  <2>2. held' = held \/ (waits = "set" /\ held' = Holds(kind, taken))
    BY <1>7 DEF RobotSilent
  <2>3. HeldInv'
    BY <2>2, HoldsHeld DEF HeldInv
  <2> QED
    BY <2>1, <2>3
<1>8. ASSUME NEW r \in Resolutions, OnMap(r) PROVE RawInv'
  <2>1. MeantInv' /\ WaitInv'
    BY <1>8 DEF OnMap, MeantInv, WaitInv
  <2>2. HeldInv'
    BY <1>8 DEF OnMap, HeldInv
  <2> QED
    BY <2>1, <2>2
<1>9. CASE UNCHANGED rawVars
  BY <1>9 DEF rawVars, MeantInv, HeldInv, WaitInv
<1> QED
  BY <1>1, <1>2, <1>3, <1>4, <1>5, <1>6, <1>7, <1>8, <1>9 DEF RawNext

\* ... so it holds always.
LEMMA RawInvariant == RawSpec => []RawInv
BY RawInvInit, RawInvNext, PTL DEF RawSpec

\* The fields of a layout have names, and every field a reading.
LEMMA LayoutNames ==
  ASSUME NEW k \in Kinds
  PROVE  Range(PhoneHead[k]) \subseteq FieldNames /\ Range(PhoneItems[k]) \subseteq FieldNames
<1>1. PhoneHead[k] \in Seq(FieldNames) /\ PhoneItems[k] \in Seq(FieldNames)
  BY HeadLayout, ItemLayout
<1> QED
  BY <1>1 DEF Range

\* The reading of one field.
LEMMA ReadingAt ==
  ASSUME NEW S, NEW u \in Measures(S), NEW i \in Nat, NEW f \in FieldNames
  PROVE  u[i][f] \in [Nat -> S]
BY DEF Measures, Readings

\* What Metres gives is what TakenIsMeant allows.
LEMMA InMetresIs ==
  ASSUME NEW f, NEW v, FieldOK(f, v), NEW u \in [Nat -> scale]
  PROVE  InMetres(f, v, Metres(u, f, v))
<1>1. CASE f \in Coordinates
  BY <1>1 DEF InMetres, Metres, Coordinates
<1>2. CASE f = "polygon"
  <2> DEFINE w == [j \in DOMAIN v |-> <<v[j][1] * u[4*j - 3], v[j][2] * u[4*j - 1]>>]
  <2>1. Metres(u, f, v) = w
    BY <1>2 DEF Metres, Coordinates
  <2>2. DOMAIN v = 1..Len(v) /\ Len(v) \in Nat
    BY <1>2 DEF FieldOK
  <2>3. Len(w) = Len(v)
    BY <2>2
  <2>4. ASSUME NEW j \in DOMAIN v PROVE \E a, b \in scale : w[j] = <<v[j][1] * a, v[j][2] * b>>
    <3>1. 4*j - 3 \in Nat /\ 4*j - 1 \in Nat
      BY <2>2
    <3>2. u[4*j - 3] \in scale /\ u[4*j - 1] \in scale
      BY <3>1
    <3>3. w[j] = <<v[j][1] * u[4*j - 3], v[j][2] * u[4*j - 1]>>
      OBVIOUS
    <3> HIDE DEF w
    <3> QED
      BY <3>2, <3>3
  <2> HIDE DEF w
  <2>5. InMetres(f, v, w)
    BY <1>2, <2>3, <2>4 DEF InMetres, Coordinates
  <2> QED
    BY <2>1, <2>5
<1>3. CASE f \notin Coordinates /\ f # "polygon"
  BY <1>3 DEF InMetres, Metres
<1> QED
  BY <1>1, <1>2, <1>3

\* What is taken differs from what was sent only as TakenIsMeant allows.
LEMMA MeantIsTakenIsMeant == RawInv => TakenIsMeant
<1> SUFFICES ASSUME RawInv, taken # NoSetting
             PROVE  /\ \A f \in DOMAIN asked.head :
                          \/ InMetres(f, asked.head[f], taken.head[f])
                          \/ kind = "room" /\ f = "repeat" /\ asked.head[f] > 2 /\ taken.head[f] = 1
                    /\ Len(taken.items) = Len(asked.items)
                    /\ \A i \in DOMAIN asked.items : \A f \in DOMAIN asked.items[i] :
                          InMetres(f, asked.items[i][f], taken.items[i][f])
  BY DEF TakenIsMeant
<1>0. kind \in Kinds /\ asked \in Settings[kind] /\ \E u \in Measures(scale) : taken = Meant(u, kind, asked)
  BY DEF RawInv, MeantInv
<1>1. PICK u \in Measures(scale) : taken = Meant(u, kind, asked)
  BY <1>0
<1>2. SettingOK(kind, asked)
  BY <1>0, SettingsAssumption
<1>3. Len(asked.items) \in Nat /\ DOMAIN asked.items = 1..Len(asked.items)
  BY <1>0, <1>2, SettingFields
<1> DEFINE H == [f \in Range(PhoneHead[kind]) \ {"count"} |-> Metres(u[0][f], f, asked.head[f])]
<1>4. taken.head = Clamped(kind, H)
  BY <1>1 DEF Meant
<1>5. taken.items = [i \in 1..Len(asked.items) |->
                       [f \in Range(PhoneItems[kind]) |-> Metres(u[i][f], f, asked.items[i][f])]]
  BY <1>1 DEF Meant
<1>6. DOMAIN asked.head = Range(PhoneHead[kind]) \ {"count"}
      /\ \A f \in DOMAIN asked.head : FieldOK(f, asked.head[f]) /\ f \in FieldNames
  BY <1>0, <1>2, LayoutNames DEF SettingOK, RecordOK
<1>7. \A i \in DOMAIN asked.items :
         /\ DOMAIN asked.items[i] = Range(PhoneItems[kind])
         /\ \A f \in DOMAIN asked.items[i] : FieldOK(f, asked.items[i][f]) /\ f \in FieldNames
  BY <1>0, <1>2, LayoutNames DEF SettingOK, RecordOK
<1>8. ASSUME NEW f \in DOMAIN asked.head
      PROVE  \/ InMetres(f, asked.head[f], taken.head[f])
             \/ kind = "room" /\ f = "repeat" /\ asked.head[f] > 2 /\ taken.head[f] = 1
  <2>1. H[f] = Metres(u[0][f], f, asked.head[f]) /\ InMetres(f, asked.head[f], H[f])
    <3>1. u[0][f] \in [Nat -> scale]
      BY <1>6, ReadingAt
    <3>2. H[f] = Metres(u[0][f], f, asked.head[f])
      BY <1>6
    <3>3. InMetres(f, asked.head[f], Metres(u[0][f], f, asked.head[f]))
      BY <1>6, <3>1, InMetresIs
    <3> QED
      BY <3>2, <3>3
  <2>2. CASE kind = "room" /\ H["repeat"] > 2 /\ f = "repeat"
    <3>1. taken.head = [H EXCEPT !["repeat"] = 1]
      BY <1>4, <2>2 DEF Clamped
    <3>2. H["repeat"] = asked.head["repeat"]
      BY <2>2, <1>6 DEF Metres, Coordinates
    <3>3. taken.head["repeat"] = 1
      BY <3>1, <2>2, <1>6
    <3> QED
      BY <2>2, <3>2, <3>3
  <2>3. CASE kind = "room" /\ H["repeat"] > 2 /\ f # "repeat"
    <3>1. taken.head = [H EXCEPT !["repeat"] = 1]
      BY <1>4, <2>3 DEF Clamped
    <3>2. taken.head[f] = H[f]
      BY <3>1, <2>3, <1>6
    <3> HIDE DEF H
    <3> QED
      BY <3>2, <2>1
  <2>4. CASE ~(kind = "room" /\ H["repeat"] > 2)
    <3>1. taken.head = H
      BY <1>4, <2>4 DEF Clamped
    <3> HIDE DEF H
    <3> QED
      BY <3>1, <2>1
  <2> QED
    BY <2>2, <2>3, <2>4
<1>9. Len(taken.items) = Len(asked.items)
  BY <1>3, <1>5
<1>10. ASSUME NEW i \in DOMAIN asked.items, NEW f \in DOMAIN asked.items[i]
       PROVE  InMetres(f, asked.items[i][f], taken.items[i][f])
  <2>1. taken.items[i][f] = Metres(u[i][f], f, asked.items[i][f])
    BY <1>3, <1>5, <1>7
  <2>2. u[i][f] \in [Nat -> scale]
    BY <1>3, <1>7, ReadingAt
  <2> QED
    BY <2>1, <2>2, <1>7, InMetresIs
<1> QED
  BY <1>8, <1>9, <1>10

\* Whatever the settings, the resolutions and the maps that come in while a
\* request is read, the robot is asked for what the phone meant, each length at
\* a resolution in force at that time.
THEOREM TakenMeant == RawSpec => []TakenIsMeant
BY RawInvariant, MeantIsTakenIsMeant, PTL

----------------------------------------------------------------------------
(* Reports.                                                                 *)

\* A quotient lies between two multiples.
LEMMA DivBounds ==
  ASSUME NEW x \in Int, NEW n \in Nat \ {0}
  PROVE  (x \div n) \in Int /\ (x \div n) * n <= x /\ x < (x \div n) * n + n
BY Z3

\* The quotient of a number between two multiples.
LEMMA DivIs ==
  ASSUME NEW x \in Int, NEW n \in Nat \ {0}, NEW q \in Int, q * n <= x, x < q * n + n
  PROVE  x \div n = q
<1> DEFINE e == x \div n
<1>1. e \in Int /\ e * n <= x /\ x < e * n + n
  BY DivBounds
<1> HIDE DEF e
<1>2. CASE e > q
  <2>1. e >= q + 1
    BY <1>1, <1>2
  <2>2. e * n >= (q + 1) * n
    BY <1>1, <2>1
  <2> QED
    BY <1>1, <2>2
<1>3. CASE e < q
  <2>1. e + 1 <= q
    BY <1>1, <1>3
  <2>2. (e + 1) * n <= q * n
    BY <1>1, <2>1
  <2> QED
    BY <1>1, <2>2
<1>4. e = q
  BY <1>1, <1>2, <1>3
<1> QED
  BY <1>4 DEF e

\* A resolution has an exact half.
LEMMA ResolutionEven ==
  ASSUME NEW u \in Resolutions
  PROVE  u \in Nat /\ u \div 2 \in Nat /\ 2 * (u \div 2) = u
<1>1. PICK n \in 0..1000 : u = 2 * n
  <2>1. Resolutions \subseteq {2 * n : n \in 0..1000}
    BY RawAssumption
  <2> QED
    BY <2>1
<1>2. n \in Int /\ 2 \in Nat \ {0} /\ u \in Int /\ n * 2 <= u /\ u < n * 2 + 2
  BY <1>1
<1>3. u \div 2 = n
  BY <1>2, DivIs
<1> QED
  BY <1>1, <1>3

\* Scaling up and down again gives the coordinate back.
LEMMA ScaleBack ==
  ASSUME NEW v \in Int, res \in Resolutions, res # 0
  PROVE  ToTuya(v * res) = v
<1>1. res \in Nat \ {0} /\ res \div 2 \in Nat /\ 2 * (res \div 2) = res
  BY ResolutionEven
<1> DEFINE h == res \div 2
<1>2. h \in Nat /\ h < res /\ 0 <= h
  BY <1>1
<1> HIDE DEF h
<1>3. CASE v >= 0
  <2>1. v * res >= 0 /\ v * res \in Int
    BY <1>1, <1>3
  <2>2. (v * res + h) \div res = v
    <3>1. v * res + h \in Int /\ v * res <= v * res + h /\ v * res + h < v * res + res
      BY <1>1, <1>2, <2>1
    <3> QED
      BY <3>1, <1>1, DivIs
  <2> QED
    BY <2>1, <2>2 DEF ToTuya, h
<1>4. CASE v < 0
  <2>1. v * res < 0 /\ v * res \in Int /\ -(v * res) = (-v) * res /\ -v \in Int
    BY <1>1, <1>4
  <2>2. ((-v) * res + h) \div res = -v
    <3>1. (-v) * res \in Int
      BY <2>1
    <3>2. (-v) * res + h \in Int /\ (-v) * res <= (-v) * res + h /\ (-v) * res + h < (-v) * res + res
      BY <1>1, <1>2, <3>1
    <3> QED
      BY <2>1, <3>2, <1>1, DivIs
  <2>3. ToTuya(v * res) = -((-(v * res) + h) \div res)
    BY <2>1 DEF ToTuya, h
  <2> QED
    BY <2>1, <2>2, <2>3
<1> QED
  BY <1>3, <1>4

\* A field whose lengths, if it has any, were read at the present resolution.
Faithful(u, f) ==
    f \in Coordinates \cup {"polygon"} =>
        res \in Resolutions \ {0} /\ \A n \in Nat : u[n] = res

\* A field is reported as it was requested.
LEMMA FieldMirrors ==
  ASSUME NEW k, NEW f, NEW v, FieldOK(f, v), f # "name", NEW u, Faithful(u, f)
  PROVE  ReportField(k, f, Metres(u, f, v)) = RequestField(f, v)
<1>1. CASE f \in Coordinates
  <2>0. res \in Resolutions /\ res # 0 /\ u[0] = res
    BY <1>1 DEF Faithful
  <2>1. v \in Int
    BY <1>1, WordInt DEF FieldOK, Words
  <2>2. Metres(u, f, v) = v * u[0]
    BY <1>1 DEF Metres, Coordinates
  <2>3. ReportField(k, f, v * res) = RequestField(f, ToTuya(v * res))
    BY <1>1 DEF ReportField, Coordinates
  <2> QED
    BY <2>0, <2>1, <2>2, <2>3, ScaleBack
<1>2. CASE f = "polygon"
  <2>0. res \in Resolutions /\ res # 0 /\ \A n \in Nat : u[n] = res
    BY <1>2 DEF Faithful
  <2>1. v \in Seq(Word \X Word) /\ DOMAIN v = 1..Len(v) /\ Len(v) \in Nat
    BY <1>2 DEF FieldOK
  <2> DEFINE M == [j \in DOMAIN v |-> <<v[j][1] * u[4*j - 3], v[j][2] * u[4*j - 1]>>]
             R == [j \in DOMAIN M |-> <<ToTuya(M[j][1]), ToTuya(M[j][2])>>]
  <2>2. Metres(u, f, v) = M
    BY <1>2 DEF Metres, Coordinates
  <2>3. ReportField(k, f, M) = RequestField(f, R)
    BY <1>2 DEF ReportField, Coordinates
  <2>4. ASSUME NEW j \in DOMAIN v
        PROVE  <<ToTuya(v[j][1] * u[4*j - 3]), ToTuya(v[j][2] * u[4*j - 1])>> = v[j]
    <3>0. 4*j - 3 \in Nat /\ 4*j - 1 \in Nat
      BY <2>1
    <3>1. v[j] \in Word \X Word /\ v[j][1] \in Word /\ v[j][2] \in Word
      BY <2>1
    <3>2. v[j][1] \in Int /\ v[j][2] \in Int /\ v[j] = <<v[j][1], v[j][2]>>
      BY <3>1, WordInt
    <3>3. ToTuya(v[j][1] * res) = v[j][1] /\ ToTuya(v[j][2] * res) = v[j][2]
      BY <2>0, <3>2, ScaleBack
    <3>4. u[4*j - 3] = res /\ u[4*j - 1] = res
      BY <2>0, <3>0
    <3> QED
      BY <3>2, <3>3, <3>4
  <2>5. R = [j \in DOMAIN v |-> <<ToTuya(v[j][1] * u[4*j - 3]), ToTuya(v[j][2] * u[4*j - 1])>>]
    OBVIOUS
  <2>6. v = [j \in DOMAIN v |-> v[j]]
    BY <2>1
  <2>7. R = v
    <3> HIDE DEF R
    <3> QED
      BY <2>4, <2>5, <2>6
  <2> QED
    BY <2>2, <2>3, <2>7
<1>3. CASE f \notin Coordinates /\ f # "polygon"
  BY <1>3 DEF ReportField, Metres
<1> QED
  BY <1>1, <1>2, <1>3

\* A setting in metres, as it is when nothing is clamped.
Plain(u, k, t) ==
    [head  |-> [f \in Range(PhoneHead[k]) \ {"count"} |-> Metres(u[0][f], f, t.head[f])],
     items |-> [i \in 1..Len(t.items) |->
                  [f \in Range(PhoneItems[k]) |-> Metres(u[i][f], f, t.items[i][f])]]]

ClampedSetting(k, s) == [head |-> Clamped(k, s.head), items |-> s.items]

\* Clamping before or after the conversion to metres is the same.
LEMMA MeantPlain ==
  ASSUME NEW k \in Kinds, NEW s, SettingOK(k, s), NEW u
  PROVE  /\ SettingOK(k, ClampedSetting(k, s))
         /\ Meant(u, k, s) = Plain(u, k, ClampedSetting(k, s))
<1> DEFINE D == Range(PhoneHead[k]) \ {"count"}
           h == s.head
           c == Clamped(k, h)
           M == [f \in D |-> Metres(u[0][f], f, h[f])]
           t == ClampedSetting(k, s)
<1>1. h = [f \in D |-> h[f]] /\ \A f \in D : FieldOK(f, h[f])
  BY DEF SettingOK, RecordOK
<1>2. t.head = c /\ t.items = s.items
  BY DEF ClampedSetting
<1>3. k = "room" => "repeat" \in D
  <2>1. k = "room" => PhoneHead[k] = <<"repeat", "count">>
    BY DEF PhoneHead, Kinds
  <2> QED
    BY <2>1 DEF Range
<1>4. "repeat" \in D => M["repeat"] = h["repeat"]
  BY DEF Metres, Coordinates
<1>5. c = [f \in D |-> c[f]] /\ (\A f \in D : FieldOK(f, c[f]))
      /\ Clamped(k, M) = [f \in D |-> Metres(u[0][f], f, c[f])]
  <2>1. CASE k = "room" /\ h["repeat"] > 2
    <3>1. c = [h EXCEPT !["repeat"] = 1] /\ Clamped(k, M) = [M EXCEPT !["repeat"] = 1]
      BY <2>1, <1>3, <1>4 DEF Clamped
    <3>2. DOMAIN c = D /\ c["repeat"] = 1 /\ \A f \in D \ {"repeat"} : c[f] = h[f]
      BY <3>1, <1>1, <1>3, <2>1
    <3>3. FieldOK("repeat", 1)
      BY DEF FieldOK, Words, Coordinates, Bytes
    <3>4. Metres(u[0]["repeat"], "repeat", 1) = 1
      BY DEF Metres, Coordinates
    <3>5. c = [f \in D |-> c[f]]
      BY <3>1, <1>1
    <3>6. \A f \in D : FieldOK(f, c[f])
      BY <3>2, <3>3, <1>1
    <3>7. ASSUME NEW f \in D PROVE [M EXCEPT !["repeat"] = 1][f] = Metres(u[0][f], f, c[f])
      BY <3>2, <3>4
    <3> HIDE DEF c
    <3>8. Clamped(k, M) = [f \in D |-> Metres(u[0][f], f, c[f])]
      BY <3>1, <3>7
    <3> QED
      BY <3>5, <3>6, <3>8
  <2>2. CASE ~(k = "room" /\ h["repeat"] > 2)
    <3>1. c = h /\ Clamped(k, M) = M
      BY <2>2, <1>3, <1>4 DEF Clamped
    <3> QED
      BY <3>1, <1>1
  <2> QED
    BY <2>1, <2>2
<1>6. SettingOK(k, t)
  BY <1>2, <1>5, ZenonT(30) DEF SettingOK, RecordOK
<1>7. Meant(u, k, s) = Plain(u, k, t)
  BY <1>2, <1>5 DEF Meant, Plain
<1> QED
  BY <1>6, <1>7

\* What is reported of a setting in metres is what is reported of the setting.
LEMMA ReportablePlain ==
  ASSUME NEW k \in Kinds, NEW t, SettingOK(k, t), NEW u,
         t = [head |-> t.head, items |-> t.items]
  PROVE  /\ Reportable(k, Plain(u, k, t)) = Plain(u, k, Reportable(k, t))
         /\ SettingOK(k, Reportable(k, t))
         /\ Reportable(k, t) = [head |-> t.head, items |-> Reportable(k, t).items]
         /\ k = "wall" => Len(Reportable(k, t).items) <= 10
         /\ k # "wall" => Reportable(k, t) = t
<1>0. Len(t.items) \in Nat
  BY SettingFields
<1>1. Len(Plain(u, k, t).items) = Len(t.items)
  BY <1>0 DEF Plain
<1>2. CASE k = "wall" /\ Len(t.items) > 10
  <2>1. Reportable(k, t) = [t EXCEPT !.items = <<>>]
        /\ Reportable(k, Plain(u, k, t)) = [Plain(u, k, t) EXCEPT !.items = <<>>]
    BY <1>1, <1>2 DEF Reportable
  <2>2. Reportable(k, t) = [head |-> t.head, items |-> <<>>]
    BY <2>1
  <2>3. Reportable(k, Plain(u, k, t)) = [head |-> Plain(u, k, t).head, items |-> <<>>]
    BY <2>1 DEF Plain
  <2>4. Plain(u, k, Reportable(k, t)) = [head |-> Plain(u, k, t).head, items |-> <<>>]
    BY <2>2 DEF Plain
  <2>5. SettingOK(k, Reportable(k, t))
    BY <2>2 DEF SettingOK
  <2>6. Len(Reportable(k, t).items) <= 10
    BY <2>2
  <2>7. Reportable(k, t) = [head |-> t.head, items |-> Reportable(k, t).items]
    BY <2>2
  <2> QED
    BY <2>3, <2>4, <2>5, <2>6, <2>7, <1>2
<1>3. CASE ~(k = "wall" /\ Len(t.items) > 10)
  BY <1>0, <1>1, <1>3 DEF Reportable
<1> QED
  BY <1>2, <1>3

\* No header holds a name, nor do the items of the kinds named in Mirrored.
LEMMA HeadNoName ==
  ASSUME NEW k \in Kinds, NEW j \in DOMAIN PhoneHead[k]
  PROVE  PhoneHead[k][j] # "name"
<1>1. CASE k \in {"wall", "area", "order", "props", "names"}
  <2>1. PhoneHead[k] = <<"count">>
    BY <1>1 DEF PhoneHead, Kinds
  <2> QED
    BY <2>1
<1>2. CASE k \in {"areaNamed", "areaTyped"}
  <2>1. PhoneHead[k] = <<"version", "count">>
    BY <1>2 DEF PhoneHead, Kinds
  <2> QED
    BY <2>1
<1>3. CASE k \in {"zone", "room"}
  <2>1. PhoneHead[k] = <<"repeat", "count">>
    BY <1>3 DEF PhoneHead, Kinds
  <2> QED
    BY <2>1
<1>4. CASE k \in {"zoneNamed"}
  <2>1. PhoneHead[k] = <<"version", "repeat", "count">>
    BY <1>4 DEF PhoneHead, Kinds
  <2> QED
    BY <2>1
<1>5. CASE k \in {"spot"}
  <2>1. PhoneHead[k] = <<"x", "y">>
    BY <1>5 DEF PhoneHead, Kinds
  <2> QED
    BY <2>1
<1>6. CASE k \in {"spot1"}
  <2>1. PhoneHead[k] = <<"version", "mode", "suction", "cistern", "repeat", "x", "y">>
    BY <1>6 DEF PhoneHead, Kinds
  <2> QED
    BY <2>1
<1>7. CASE k \in {"alert"}
  <2>1. PhoneHead[k] = <<"zone", "count">>
    BY <1>7 DEF PhoneHead, Kinds
  <2> QED
    BY <2>1
<1>8. CASE k \in {"dnd"}
  <2>1. PhoneHead[k] = <<"zone", "start", "startDay", "end", "endDay">>
    BY <1>8 DEF PhoneHead, Kinds
  <2> QED
    BY <2>1
<1>9. CASE k \in {"dnd1"}
  <2>1. PhoneHead[k] = <<"version", "onoff", "zone", "start", "startDay", "end", "endDay">>
    BY <1>9 DEF PhoneHead, Kinds
  <2> QED
    BY <2>1
<1> QED
  BY <1>1, <1>2, <1>3, <1>4, <1>5, <1>6, <1>7, <1>8, <1>9 DEF Kinds

\* The items of the kinds in Mirrored.
LEMMA ItemNoName ==
  ASSUME NEW k \in Mirrored, NEW j \in DOMAIN PhoneItems[k]
  PROVE  PhoneItems[k][j] # "name"
<1>1. CASE k \in {"wall"}
  <2>1. PhoneItems[k] = <<"x0", "y0", "x1", "y1">>
    BY <1>1 DEF PhoneItems, Kinds
  <2> QED
    BY <2>1
<1>2. CASE k \in {"area"}
  <2>1. PhoneItems[k] = <<"mode", "polygon">>
    BY <1>2 DEF PhoneItems, Kinds
  <2> QED
    BY <2>1
<1>3. CASE k \in {"zone"}
  <2>1. PhoneItems[k] = <<"polygon">>
    BY <1>3 DEF PhoneItems, Kinds
  <2> QED
    BY <2>1
<1>4. CASE k \in {"room", "order"}
  <2>1. PhoneItems[k] = <<"id">>
    BY <1>4 DEF PhoneItems, Kinds
  <2> QED
    BY <2>1
<1>5. CASE k \in {"spot", "spot1", "dnd"}
  <2>1. PhoneItems[k] = <<>>
    BY <1>5 DEF PhoneItems, Kinds
  <2> QED
    BY <2>1
<1>6. CASE k \in {"alert"}
  <2>1. PhoneItems[k] = <<"valid", "days", "time", "rooms", "mode", "fan", "water", "repeat">>
    BY <1>6 DEF PhoneItems, Kinds
  <2> QED
    BY <2>1
<1> QED
  BY <1>1, <1>2, <1>3, <1>4, <1>5, <1>6 DEF Mirrored

\* The body of the report of a setting of which everything is reported.
WholeBody(k, r) ==
    Head1(r, ReportHead[k], LAMBDA f, v : ReportField(k, f, v)) \o Items(k, r)

\* The report's header is the request's, but for one kind.
LEMMA SameHead ==
  ASSUME NEW k \in Kinds, k # "dnd1"
  PROVE  ReportHead[k] = PhoneHead[k]
<1>1. CASE k \in {"wall", "area", "order", "props", "names", "areaNamed", "areaTyped", "zone", "room"}
  BY <1>1 DEF ReportHead, PhoneHead, Kinds
<1>2. CASE k \in {"zoneNamed", "spot", "spot1", "alert", "dnd"}
  BY <1>2 DEF ReportHead, PhoneHead, Kinds
<1> QED
  BY <1>1, <1>2 DEF Kinds

\* All lengths of a setting of kind k were read at the present resolution.
FaithfulRead(u, k) ==
    /\ \A f \in Range(PhoneHead[k]) : Faithful(u[0][f], f)
    /\ \A i \in Nat : \A f \in Range(PhoneItems[k]) : Faithful(u[i][f], f)

\* Without names, the body of the report is the body of the request.
LEMMA BodyMirrors ==
  ASSUME NEW k \in Mirrored, NEW t, SettingOK(k, t), NEW u, FaithfulRead(u, k)
  PROVE  WholeBody(k, Plain(u, k, t)) = RequestBody(k, t)
<1> DEFINE P == Plain(u, k, t)
           L == PhoneHead[k]
           G == PhoneItems[k]
<1>1. k \in Kinds /\ k # "dnd1" /\ k # "props"
  BY DEF Mirrored, Kinds
<1>2. ReportHead[k] = L /\ Items(k, P) = ByItem(P, G, LAMBDA f, v : ReportField(k, f, v))
  BY <1>1, SameHead, SameItems DEF Items
<1>3. Len(t.items) \in Nat /\ DOMAIN t.items = 1..Len(t.items)
  BY <1>1, SettingFields
<1>4. P.head = [f \in Range(L) \ {"count"} |-> Metres(u[0][f], f, t.head[f])]
  BY DEF Plain
<1>5. P.items = [i \in 1..Len(t.items) |-> [f \in Range(G) |-> Metres(u[i][f], f, t.items[i][f])]]
  BY DEF Plain
<1>6. Len(P.items) = Len(t.items) /\ DOMAIN P.items = DOMAIN t.items
  BY <1>3, <1>5
<1>7. (\A f \in Range(L) \ {"count"} : FieldOK(f, t.head[f]))
      /\ \A i \in DOMAIN t.items : \A f \in Range(G) : FieldOK(f, t.items[i][f])
  BY DEF SettingOK, RecordOK
<1>8. (\A j \in DOMAIN L : L[j] # "name" /\ L[j] \in Range(L))
      /\ \A j \in DOMAIN G : G[j] # "name" /\ G[j] \in Range(G)
  BY <1>1, HeadNoName, ItemNoName DEF Range
<1>80. (\A f \in Range(L) : Faithful(u[0][f], f))
       /\ \A i \in Nat : \A f \in Range(G) : Faithful(u[i][f], f)
  BY DEF FaithfulRead
<1> HIDE DEF P, L, G
<1>9. ASSUME NEW j \in DOMAIN L
      PROVE  ReportField(k, L[j], HeadValue(P, L[j])) = RequestField(L[j], HeadValue(t, L[j]))
  <2>1. CASE L[j] = "count"
    <3>1. HeadValue(P, L[j]) = HeadValue(t, L[j])
      BY <2>1, <1>6 DEF HeadValue
    <3>2. \A v : ReportField(k, L[j], v) = RequestField(L[j], v)
      BY <2>1 DEF ReportField, Coordinates
    <3> QED
      BY <3>1, <3>2
  <2>2. CASE L[j] # "count"
    <3>1. HeadValue(P, L[j]) = Metres(u[0][L[j]], L[j], t.head[L[j]]) /\ HeadValue(t, L[j]) = t.head[L[j]]
      BY <2>2, <1>4, <1>8 DEF HeadValue
    <3>2. FieldOK(L[j], t.head[L[j]])
      BY <2>2, <1>7, <1>8
    <3>3. Faithful(u[0][L[j]], L[j])
      BY <1>8, <1>80
    <3> QED
      BY <3>1, <3>2, <3>3, <1>8, FieldMirrors
  <2> QED
    BY <2>1, <2>2
<1>10. Head1(P, L, LAMBDA f, v : ReportField(k, f, v)) = Head1(t, L, RequestField)
  BY <1>9 DEF Head1
<1>11. ASSUME NEW i \in DOMAIN t.items, NEW j \in DOMAIN G
       PROVE  ReportField(k, G[j], P.items[i][G[j]]) = RequestField(G[j], t.items[i][G[j]])
  <2>1. P.items[i][G[j]] = Metres(u[i][G[j]], G[j], t.items[i][G[j]])
    BY <1>3, <1>5, <1>8
  <2>2. FieldOK(G[j], t.items[i][G[j]])
    BY <1>7, <1>8
  <2>3. Faithful(u[i][G[j]], G[j])
    BY <1>3, <1>8, <1>80
  <2> QED
    BY <2>1, <2>2, <2>3, <1>8, FieldMirrors
<1>12. ByItem(P, G, LAMBDA f, v : ReportField(k, f, v)) = ByItem(t, G, RequestField)
  <2>1. ASSUME NEW i \in DOMAIN t.items
        PROVE  [j \in DOMAIN G |-> ReportField(k, G[j], P.items[i][G[j]])]
                = [j \in DOMAIN G |-> RequestField(G[j], t.items[i][G[j]])]
    BY <1>11
  <2>2. [i \in DOMAIN P.items |-> FlattenSeq([j \in DOMAIN G |-> ReportField(k, G[j], P.items[i][G[j]])])]
         = [i \in DOMAIN t.items |-> FlattenSeq([j \in DOMAIN G |-> RequestField(G[j], t.items[i][G[j]])])]
    BY <2>1, <1>6
  <2> QED
    BY <2>2 DEF ByItem
<1> QED
  BY <1>2, <1>10, <1>12 DEF WholeBody, RequestBody, P, L, G

\* What ReportBody leaves out is left out before.
LEMMA ReportWhole ==
  ASSUME NEW k, NEW s
  PROVE  ReportBody(k, s) = WholeBody(k, Reportable(k, s))
BY DEF ReportBody, WholeBody

\* The parts of a frame lie where the phone looks for them.
LEMMA FrameParts ==
  ASSUME NEW cmd, NEW body \in Seq(Bytes)
  PROVE  /\ Len(Frame(cmd, body)) = Len(body) + 5
         /\ Frame(cmd, body)[1] = 170 /\ Frame(cmd, body)[2] = 0
         /\ Frame(cmd, body)[3] = LengthByte(body) /\ Frame(cmd, body)[4] = cmd
         /\ Frame(cmd, body)[Len(body) + 5] = Checksum(cmd, body)
         /\ \A j \in 1..Len(body) : Frame(cmd, body)[j + 4] = body[j]
         /\ BodyOf(Frame(cmd, body)) = body
         /\ SubSeq(Frame(cmd, body), 4, Len(body) + 4) = <<cmd>> \o body
<1> DEFINE lb == LengthByte(body)
           ck == Checksum(cmd, body)
           S == Bytes \cup {lb, ck, cmd, 170, 0}
           h == <<170, 0, lb, cmd>>
           fr == h \o body \o <<ck>>
<1>1. Frame(cmd, body) = fr
  BY DEF Frame
<1> HIDE DEF lb, ck
<1>2. body \in Seq(S)
  BY SeqMonotonic
<1>3. h \in Seq(S) /\ Len(h) = 4 /\ h[1] = 170 /\ h[2] = 0 /\ h[3] = lb /\ h[4] = cmd
  OBVIOUS
<1>4. <<ck>> \in Seq(S) /\ Len(<<ck>>) = 1 /\ <<ck>>[1] = ck /\ <<cmd>> \in Seq(S)
  OBVIOUS
<1>5. Len(body) \in Nat
  OBVIOUS
<1> DEFINE e == <<ck>>
           g == h \o body
<1> HIDE DEF S, h, e, g, fr
<1>6. g \in Seq(S) /\ Len(g) = Len(body) + 4 /\ At(g, 1, h) /\ At(g, 5, body)
  <2>1. g \in Seq(S) /\ At(g, 1, h) /\ At(g, Len(h) + 1, body)
    BY <1>2, <1>3, AtJoin DEF g
  <2>2. Len(h \o body) = Len(h) + Len(body)
    <3> DEFINE b == body
    <3>1. h \in Seq(S) /\ b \in Seq(S)
      BY <1>2, <1>3
    <3> HIDE DEF b
    <3>2. Len(h \o b) = Len(h) + Len(b)
      BY <3>1, CatSeq
    <3> QED
      BY <3>2 DEF b
  <2> QED
    BY <2>1, <2>2, <1>3, <1>5 DEF g
<1>7. fr \in Seq(S) /\ Len(fr) = Len(body) + 5 /\ At(fr, 1, g) /\ At(fr, Len(body) + 5, e)
  <2>0. fr = g \o e /\ e \in Seq(S) /\ Len(e) = 1
    BY <1>4 DEF fr, g, e
  <2>1. fr \in Seq(S) /\ At(fr, 1, g) /\ At(fr, Len(g) + 1, e)
    BY <2>0, <1>6, AtJoin
  <2>2. Len(fr) = Len(g) + Len(e)
    BY <2>0, <1>6, CatSeq
  <2>3. Len(g) + 1 = Len(body) + 5 /\ Len(g) + Len(e) = Len(body) + 5
    BY <2>0, <1>5, <1>6
  <2> QED
    BY <2>1, <2>2, <2>3
<1>8. At(fr, 1, h) /\ At(fr, 5, body)
  <2>1. At(fr, 1 + 1 - 1, h)
    BY <1>3, <1>6, <1>7, AtTrans, SMTT(30)
  <2>2. At(fr, 1 + 5 - 1, body)
    BY <1>2, <1>6, <1>7, AtTrans
  <2> QED
    BY <2>1, <2>2
<1>9. fr[1] = 170 /\ fr[2] = 0 /\ fr[3] = lb /\ fr[4] = cmd
  <2>1. \A j \in 1..4 : fr[1 + j - 1] = h[j]
    BY <1>3, <1>8 DEF At
  <2> QED
    BY <2>1, <1>3
<1>10. fr[Len(body) + 5] = ck
  <2>1. fr[Len(body) + 5 + 1 - 1] = e[1]
    BY <1>4, <1>7 DEF At, e
  <2>2. Len(body) + 5 + 1 - 1 = Len(body) + 5
    BY <1>5
  <2> QED
    BY <2>1, <2>2, <1>4 DEF e
<1>11. \A j \in 1..Len(body) : fr[j + 4] = body[j]
  <2>1. ASSUME NEW j \in 1..Len(body) PROVE fr[j + 4] = body[j]
    <3>1. fr[5 + j - 1] = body[j] /\ 5 + j - 1 = j + 4
      BY <1>8 DEF At
    <3> QED
      BY <3>1
  <2> QED
    BY <2>1
<1>12. SubSeq(fr, 5, Len(body) + 4) = body
  <2>1. SubSeq(fr, 5, 5 + Len(body) - 1) = body
    BY <1>2, <1>7, <1>8, AtSubSeq
  <2>2. 5 + Len(body) - 1 = Len(body) + 4
    BY <1>5
  <2> QED
    BY <2>1, <2>2
<1>13. SubSeq(fr, 4, Len(body) + 4) = <<cmd>> \o body
  <2> DEFINE cb == <<cmd>> \o body
  <2>1. cb \in Seq(S) /\ Len(cb) = Len(body) + 1
    BY <1>2, <1>4, CatSeq
  <2>2. \A j \in 1..Len(cb) : fr[4 + j - 1] = cb[j]
    <3>1. ASSUME NEW j \in 1..(Len(body) + 1) PROVE fr[4 + j - 1] = cb[j]
      <4>1. CASE j = 1
        BY <4>1, <1>9
      <4>2. CASE j # 1
        <5>1. cb[j] = body[j - 1] /\ j - 1 \in 1..Len(body)
          BY <4>2, <1>5
        <5>2. fr[(j - 1) + 4] = body[j - 1] /\ (j - 1) + 4 = 4 + j - 1
          BY <5>1, <1>11
        <5> QED
          BY <5>1, <5>2
      <4> QED
        BY <4>1, <4>2
    <3> QED
      BY <2>1, <3>1
  <2> HIDE DEF cb
  <2>3. At(fr, 4, cb)
    BY <1>5, <1>7, <2>1, <2>2 DEF At
  <2>4. SubSeq(fr, 4, 4 + Len(cb) - 1) = cb
    BY <1>7, <2>1, <2>3, AtSubSeq
  <2>5. 4 + Len(cb) - 1 = Len(body) + 4
    BY <1>5, <2>1
  <2> QED
    BY <2>4, <2>5 DEF cb
<1>14. BodyOf(fr) = body
  <2>1. Len(fr) - 1 = Len(body) + 4
    BY <1>5, <1>7
  <2> QED
    BY <2>1, <1>12 DEF BodyOf
<1> QED
  BY <1>1, <1>7, <1>9, <1>10, <1>11, <1>13, <1>14 DEF lb, ck

\* The robot's setting is reported as it was requested, at the resolution it was
\* taken with.
LEMMA ReportOfTaken ==
  ASSUME RawInv, waits = "set", kind \in Mirrored, scale = {res}, res # 0
  PROVE  BodyOf(Report(kind, taken)) =
            RequestBody(kind, [head  |-> Clamped(kind, asked.head),
                               items |-> IF kind = "wall" /\ Len(asked.items) > 10
                                         THEN <<>> ELSE asked.items])
<1> DEFINE t == ClampedSetting(kind, asked)
           q == Reportable(kind, t)
<1>0. /\ kind \in Kinds /\ asked \in Settings[kind] /\ res \in Resolutions
      /\ \E u \in Measures({res}) : taken = Meant(u, kind, asked)
  BY DEF RawInv, MeantInv, WaitInv
<1>1. PICK u \in Measures({res}) : taken = Meant(u, kind, asked)
  BY <1>0
<1>10. FaithfulRead(u, kind)
  <2>1. ASSUME NEW i \in Nat, NEW f \in FieldNames PROVE Faithful(u[i][f], f)
    <3>1. u[i][f] \in [Nat -> {res}]
      BY ReadingAt
    <3> QED
      BY <3>1, <1>0 DEF Faithful
  <2> QED
    BY <2>1, <1>0, LayoutNames DEF FaithfulRead
<1>2. SettingOK(kind, asked)
  BY <1>0, SettingsAssumption
<1>3. SettingOK(kind, t) /\ taken = Plain(u, kind, t)
  BY <1>0, <1>1, <1>2, MeantPlain
<1>4. t = [head |-> t.head, items |-> t.items]
  BY DEF ClampedSetting
<1>5. Reportable(kind, taken) = Plain(u, kind, q) /\ SettingOK(kind, q)
  <2> HIDE DEF t
  <2> QED
    BY <1>0, <1>3, <1>4, ReportablePlain
<1>6. q = [head  |-> Clamped(kind, asked.head),
           items |-> IF kind = "wall" /\ Len(asked.items) > 10 THEN <<>> ELSE asked.items]
  BY DEF ClampedSetting, Reportable
<1> HIDE DEF t, q
<1>7. ReportBody(kind, taken) = RequestBody(kind, q)
  <2>1. ReportBody(kind, taken) = WholeBody(kind, Plain(u, kind, q))
    BY <1>5, ReportWhole
  <2> QED
    BY <2>1, <1>5, <1>10, BodyMirrors
<1>8. RequestBody(kind, q) \in Seq(Bytes)
  BY <1>0, <1>5, RequestParts
<1>9. BodyOf(Report(kind, taken)) = RequestBody(kind, q)
  <2>1. Report(kind, taken) = Frame(ReportCmd[kind], RequestBody(kind, q))
    BY <1>7 DEF Report
  <2>2. BodyOf(Frame(ReportCmd[kind], RequestBody(kind, q))) = RequestBody(kind, q)
    <3> DEFINE cmd == ReportCmd[kind]
               body == RequestBody(kind, q)
    <3>1. body \in Seq(Bytes)
      BY <1>8
    <3> HIDE DEF cmd, body
    <3>2. BodyOf(Frame(cmd, body)) = body
      BY <3>1, FrameParts, ZenonT(90)
    <3> QED
      BY <3>2 DEF cmd, body
  <2> QED
    BY <2>1, <2>2
<1> QED
  BY <1>6, <1>9

\* The only step that reports while a setting waits is AnswerSet.
LEMMA MirrorStep ==
  ASSUME RawInv, RawNext, waits = "set", frame' # <<>>, kind \in Mirrored, scale = {res}, res # 0
  PROVE  BodyOf(frame') =
            RequestBody(kind, [head  |-> Clamped(kind, asked.head),
                               items |-> IF kind = "wall" /\ Len(asked.items) > 10
                                         THEN <<>> ELSE asked.items])
<1>1. frame = <<>>
  BY DEF RawInv, WaitInv
<1>2. AnswerSet
  BY <1>1 DEF RawNext, Set, Command, Query, NewRequest, AnswerCommand, AnswerQuery,
              RobotSilent, OnMap
<1>3. frame' = Report(kind, taken)
  BY <1>2 DEF AnswerSet
<1> QED
  BY <1>3, ReportOfTaken

\* For all settings and resolutions, the report of a mirrored kind reads like the
\* request for it unless a map of another resolution came since the request, or
\* none has come yet.
THEOREM ReportMirrors == RawSpec => ReportMirrorsRequest
<1>1. RawInv /\ [RawNext]_rawVars =>
        [(waits = "set" /\ frame' # <<>> /\ kind \in Mirrored
             /\ scale = {res} /\ res # 0) =>
           BodyOf(frame') =
              RequestBody(kind, [head  |-> Clamped(kind, asked.head),
                                 items |-> IF kind = "wall" /\ Len(asked.items) > 10
                                           THEN <<>> ELSE asked.items])]_rawVars
  BY MirrorStep
<1> QED
  BY <1>1, RawInvariant, PTL DEF RawSpec, ReportMirrorsRequest

----------------------------------------------------------------------------
(* Queries.                                                                 *)

\* Rounding is off by half a unit at most.
LEMMA Rounds ==
  ASSUME NEW m \in Int, res \in Resolutions, res # 0
  PROVE  ToTuya(m) \in Int /\ 2 * (ToTuya(m) * res - m) \in -res..res
<1>1. res \in Nat \ {0} /\ res \div 2 \in Nat /\ 2 * (res \div 2) = res
  BY ResolutionEven
<1> DEFINE h == res \div 2
<1>2. h \in Nat /\ 2 * h = res
  BY <1>1
<1> HIDE DEF h
<1>4. CASE m >= 0
  <2> DEFINE q == (m + h) \div res
  <2>0. m + h \in Int
    BY <1>2
  <2>1. q \in Int /\ q * res <= m + h /\ m + h < q * res + res
    BY <2>0, <1>1, DivBounds
  <2>2. ToTuya(m) = q
    BY <1>4 DEF ToTuya, h
  <2> HIDE DEF q
  <2>3. 2 * (q * res - m) \in -res..res
    BY <2>1, <1>1, <1>2
  <2> QED
    BY <2>1, <2>2, <2>3
<1>5. CASE m < 0
  <2> DEFINE q == (-m + h) \div res
  <2>0. -m + h \in Int
    BY <1>2
  <2>1. q \in Int /\ q * res <= -m + h /\ -m + h < q * res + res
    BY <2>0, <1>1, DivBounds
  <2>2. ToTuya(m) = -q
    BY <1>5 DEF ToTuya, h
  <2> HIDE DEF q
  <2>3. (-q) * res = -(q * res)
    BY <2>1, <1>1
  <2>4. 2 * ((-q) * res - m) \in -res..res
    BY <2>1, <2>3, <1>1, <1>2
  <2> QED
    BY <2>1, <2>2, <2>4
<1> QED
  BY <1>4, <1>5

\* A coordinate is reported as some integer, over a resolution of 0 too.
LEMMA TuyaInt ==
  ASSUME NEW m \in Int, res \in Resolutions
  PROVE  ToTuya(m) \in Int
<1>1. CASE res = 0
  <2>1. \A i \in {-1, 0, 1} : ByZero[i] \in Int
    BY RawAssumption
  <2>2. OverZero(m) \in Int
    BY <2>1 DEF OverZero
  <2> QED
    BY <1>1, <2>2 DEF ToTuya
<1> QED
  BY <1>1, Rounds

\* A coordinate read from a report is near the length it stands for.
LEMMA NearAt ==
  ASSUME NEW m \in Int, NEW d \in Seq(Bytes), NEW p, At(d, p, tonb16(ToTuya(m))),
         res \in Resolutions
  PROVE  Near(nbto16(SubSeq(d, p, p + 1)), m)
<1>1. res # 0 => ToTuya(m) \in Int /\ 2 * (ToTuya(m) * res - m) \in -res..res
  BY Rounds
<1>2. CASE ToTuya(m) \in Word
  <2>1. nbto16(SubSeq(d, p, p + 1)) = ToTuya(m)
    BY <1>2, WordAt
  <2> QED
    BY <1>1, <2>1 DEF Near
<1>3. CASE ToTuya(m) \notin Word
  BY <1>3 DEF Near
<1> QED
  BY <1>2, <1>3

\* Single bytes with two words after them.
LEMMA TwoWordsLast ==
  ASSUME NEW ss \in Seq(Seq(Bytes)), Len(ss) >= 2,
         \A i \in 1..Len(ss) : Len(ss[i]) = IF i <= Len(ss) - 2 THEN 1 ELSE 2
  PROVE  /\ FlattenSeq(ss) \in Seq(Bytes)
         /\ Len(FlattenSeq(ss)) = Len(ss) + 2
         /\ At(FlattenSeq(ss), Len(ss) - 1, ss[Len(ss) - 1])
         /\ At(FlattenSeq(ss), Len(ss) + 1, ss[Len(ss)])
<1> DEFINE N == Len(ss)
<1>0. N \in Nat /\ N >= 2
  OBVIOUS
<1>1. PICK F : Joined(Bytes, ss, F) /\ FlattenSeq(ss) = F[N]
  BY FlattenJoined
<1>2. /\ F[N] \in Seq(Bytes)
      /\ \A i \in 1..N : /\ F[i - 1] \in Seq(Bytes)
                         /\ Len(F[i]) = Len(F[i - 1]) + Len(ss[i])
                         /\ At(F[N], Len(F[i - 1]) + 1, ss[i])
  BY <1>1, JoinedAt
<1>3. Len(F[0]) = 0
  BY <1>1 DEF Joined
<1>4. \A i \in 1..N : Len(ss[i]) = IF i <= N - 2 THEN 1 ELSE 2
  OBVIOUS
<1> HIDE DEF N
<1> DEFINE M == N - 2
           T == {i \in 0..M : Len(F[i]) = i}
<1>5. M \in Nat /\ 0 \in T
  BY <1>0, <1>3
<1>6. ASSUME NEW i \in 1..M, i - 1 \in T PROVE i \in T
  <2>1. i \in 1..N /\ i <= N - 2
    BY <1>0
  <2>2. Len(F[i]) = Len(F[i - 1]) + 1
    BY <2>1, <1>2, <1>4
  <2>3. Len(F[i - 1]) = i - 1
    BY <1>6
  <2> QED
    BY <1>0, <2>2, <2>3
<1>7. \A i \in 0..M : i \in T
  <2> HIDE DEF T, M
  <2> QED
    BY <1>5, <1>6, Induct
<1>8. Len(F[N - 2]) = N - 2
  <2>1. M \in T
    BY <1>5, <1>7
  <2> QED
    BY <2>1
<1>9. N - 1 \in 1..N /\ N \in 1..N /\ (N - 1) - 1 = N - 2
  BY <1>0
<1>10. Len(ss[N - 1]) = 2 /\ Len(ss[N]) = 2
  <2>1. ~(N - 1 <= N - 2) /\ ~(N <= N - 2)
    BY <1>0
  <2> QED
    BY <2>1, <1>4, <1>9
<1>11. Len(F[N - 1]) = N /\ Len(F[N]) = N + 2
  <2>1. Len(F[N - 1]) = Len(F[N - 2]) + Len(ss[N - 1]) /\ Len(F[N]) = Len(F[N - 1]) + Len(ss[N])
    BY <1>2, <1>9
  <2> QED
    BY <2>1, <1>0, <1>8, <1>10
<1>12. At(F[N], N - 1, ss[N - 1]) /\ At(F[N], N + 1, ss[N])
  <2>1. At(F[N], Len(F[N - 2]) + 1, ss[N - 1]) /\ At(F[N], Len(F[N - 1]) + 1, ss[N])
    BY <1>2, <1>9
  <2>2. N - 2 + 1 = N - 1
    BY <1>0
  <2> QED
    BY <2>1, <2>2, <1>8, <1>11
<1> QED
  BY <1>1, <1>2, <1>11, <1>12 DEF N

\* What the robot holds of a spot, in either form.
SpotOK(h) ==
    /\ h.items = <<>> /\ h.head["x"] \in Int /\ h.head["y"] \in Int
    /\ "version" \in DOMAIN h.head =>
          \A f \in {"version", "mode", "suction", "cistern", "repeat"} : h.head[f] \in Bytes

\* A spot the robot holds was meant by the phone, so it is such a record.
LEMMA HeldSpot ==
  ASSUME NEW h, HeldFrom({"spot", "spot1"}, h), h # NoSetting
  PROVE  SpotOK(h)
<1>0. PICK k \in {"spot", "spot1"} :
         \E s \in Settings[k] : \E u \in Measures(Resolutions) : h = Meant(u, k, s)
  BY DEF HeldFrom
<1>1. PICK s \in Settings[k], u \in Measures(Resolutions) : h = Meant(u, k, s)
  BY <1>0
<1>2. k \in Kinds /\ k # "room"
  BY DEF Kinds
<1>3. SettingOK(k, s)
  BY <1>2, SettingsAssumption
<1> DEFINE D == Range(PhoneHead[k]) \ {"count"}
<1>4. h.head = [f \in D |-> Metres(u[0][f], f, s.head[f])]
  BY <1>1, <1>2 DEF Meant, Clamped
<1>5. /\ "x" \in D /\ "y" \in D /\ "count" \notin Range(PhoneHead[k])
      /\ "version" \in D => {"version", "mode", "suction", "cistern", "repeat"} \subseteq D
  <2>1. CASE k = "spot"
    <3>1. PhoneHead[k] = <<"x", "y">>
      BY <2>1 DEF PhoneHead, Kinds
    <3>2. Range(PhoneHead[k]) = {"x", "y"}
      BY <3>1 DEF Range
    <3> QED
      BY <3>2
  <2>2. CASE k = "spot1"
    <3>1. PhoneHead[k] = <<"version", "mode", "suction", "cistern", "repeat", "x", "y">>
      BY <2>2 DEF PhoneHead, Kinds
    <3>2. Range(PhoneHead[k]) = {"version", "mode", "suction", "cistern", "repeat", "x", "y"}
      BY <3>1 DEF Range
    <3> QED
      BY <3>2
  <2> QED
    BY <2>1, <2>2
<1>6. \A f \in D : FieldOK(f, s.head[f])
  BY <1>3 DEF SettingOK, RecordOK
<1>7. s.items = <<>>
  BY <1>3, <1>5 DEF SettingOK
<1>8. h.items = <<>>
  BY <1>1, <1>7 DEF Meant
<1> HIDE DEF D
<1>9. ASSUME NEW f \in {"x", "y"} PROVE h.head[f] \in Int
  <2>1. s.head[f] \in Int
    BY <1>5, <1>6, WordInt DEF FieldOK, Words, Coordinates
  <2>2. h.head[f] = s.head[f] * u[0][f][0]
    BY <1>4, <1>5 DEF Metres, Coordinates
  <2>3. u[0][f] \in [Nat -> Resolutions]
    BY ReadingAt DEF FieldNames
  <2>4. u[0][f][0] \in Int
    BY <2>3, ResolutionEven
  <2> QED
    BY <2>1, <2>2, <2>4
<1>10. ASSUME "version" \in D, NEW f \in {"version", "mode", "suction", "cistern", "repeat"}
       PROVE  h.head[f] \in Bytes
  <2>1. s.head[f] \in Bytes
    BY <1>5, <1>6, <1>10 DEF FieldOK, Words, Coordinates
  <2>2. h.head[f] = s.head[f]
    BY <1>4, <1>5, <1>10 DEF Metres, Coordinates
  <2> QED
    BY <2>1, <2>2
<1> QED
  BY <1>4, <1>8, <1>9, <1>10 DEF SpotOK

\* The body of a spot's report: the two coordinates are its last four bytes.
LEMMA SpotBody ==
  ASSUME NEW k \in {"spot", "spot1"}, NEW h, SpotOK(h),
         k = "spot1" => "version" \in DOMAIN h.head, res \in Resolutions
  PROVE  /\ ReportBody(k, h) \in Seq(Bytes)
         /\ Len(ReportBody(k, h)) = IF k = "spot1" THEN 9 ELSE 4
         /\ At(ReportBody(k, h), Len(ReportBody(k, h)) - 3, tonb16(ToTuya(h.head["x"])))
         /\ At(ReportBody(k, h), Len(ReportBody(k, h)) - 1, tonb16(ToTuya(h.head["y"])))
<1> DEFINE L == PhoneHead[k]
           N == Len(L)
           x == tonb16(ToTuya(h.head["x"]))
           y == tonb16(ToTuya(h.head["y"]))
           ss == [j \in DOMAIN L |-> ReportField(k, L[j], HeadValue(h, L[j]))]
<1>1. h.items = <<>>
  BY DEF SpotOK
<1>2. k \in Kinds /\ ReportHead[k] = L /\ ReportItems[k] = <<>> /\ k # "props" /\ k # "wall"
  <2>1. k \in Kinds /\ k # "dnd1" /\ k # "props" /\ k # "wall"
    BY DEF Kinds
  <2>2. ReportItems[k] = <<>>
    BY DEF Kinds, ReportItems
  <2> QED
    BY <2>1, <2>2, SameHead
<1>3. Items(k, h) = <<>>
  <2>1. Items(k, h) = ByItem(h, <<>>, LAMBDA f, v : ReportField(k, f, v))
    BY <1>2 DEF Items
  <2>2. ByItem(h, <<>>, LAMBDA f, v : ReportField(k, f, v)) = FlattenSeq(<<>>)
    BY <1>1 DEF ByItem
  <2>3. FlattenSeq(<<>>) = <<>>
    BY DEF FlattenSeq
  <2> QED
    BY <2>1, <2>2, <2>3
<1>4. ToTuya(h.head["x"]) \in Int /\ ToTuya(h.head["y"]) \in Int
  BY TuyaInt DEF SpotOK
<1>5. x \in Seq(Bytes) /\ Len(x) = 2 /\ y \in Seq(Bytes) /\ Len(y) = 2
  BY <1>4, WordBytes
<1>6. /\ ReportField(k, "x", h.head["x"]) = x /\ HeadValue(h, "x") = h.head["x"]
      /\ ReportField(k, "y", h.head["y"]) = y /\ HeadValue(h, "y") = h.head["y"]
  BY DEF ReportField, RequestField, HeadValue, Words, Coordinates
<1>7. ASSUME NEW f \in {"version", "mode", "suction", "cistern", "repeat"}, k = "spot1"
      PROVE  ReportField(k, f, HeadValue(h, f)) \in Seq(Bytes)
             /\ Len(ReportField(k, f, HeadValue(h, f))) = 1
  <2>1. HeadValue(h, f) = h.head[f] /\ h.head[f] \in Bytes
    BY <1>7 DEF HeadValue, SpotOK
  <2>2. ReportField(k, f, h.head[f]) = <<h.head[f]>>
    BY DEF ReportField, RequestField, Words, Coordinates
  <2> QED
    BY <2>1, <2>2
<1>8. /\ N \in Nat /\ N >= 2 /\ N = (IF k = "spot1" THEN 7 ELSE 2) /\ DOMAIN L = 1..N
      /\ L[N - 1] = "x" /\ L[N] = "y"
      /\ \A j \in 1..N : j <= N - 2 => L[j] \in {"version", "mode", "suction", "cistern", "repeat"}
  <2>1. CASE k = "spot"
    <3>1. PhoneHead[k] = <<"x", "y">>
      BY <2>1 DEF PhoneHead, Kinds
    <3> QED
      BY <3>1, <2>1
  <2>2. CASE k = "spot1"
    <3>1. PhoneHead[k] = <<"version", "mode", "suction", "cistern", "repeat", "x", "y">>
      BY <2>2 DEF PhoneHead, Kinds
    <3> QED
      BY <3>1, <2>2
  <2> QED
    BY <2>1, <2>2
<1>9. \A j \in 1..N : j <= N - 2 => k = "spot1"
  BY <1>8
<1> HIDE DEF x, y, L, N
<1>10. ASSUME NEW j \in 1..N
       PROVE  ss[j] \in Seq(Bytes) /\ Len(ss[j]) = IF j <= N - 2 THEN 1 ELSE 2
  <2>1. CASE j <= N - 2
    BY <2>1, <1>7, <1>8, <1>9
  <2>2. CASE j = N - 1 \/ j = N
    <3>1. ss[j] \in {x, y}
      BY <2>2, <1>6, <1>8
    <3>2. ~(j <= N - 2)
      BY <2>2, <1>8
    <3> HIDE DEF ss
    <3> QED
      BY <3>1, <3>2, <1>5
  <2> QED
    BY <2>1, <2>2, <1>8
<1>11. ss \in Seq(Seq(Bytes)) /\ Len(ss) = N /\ ss[N - 1] = x /\ ss[N] = y
  <2>1. DOMAIN ss = 1..N
    BY <1>8
  <2>2. ss[N - 1] = x /\ ss[N] = y
    BY <1>6, <1>8
  <2>3. ss \in [1..N -> Seq(Bytes)]
    BY <1>8, <1>10
  <2> HIDE DEF ss
  <2> QED
    BY <2>1, <2>2, <2>3, <1>8
<1> DEFINE b == FlattenSeq(ss)
<1>12. Head1(h, L, LAMBDA f, v : ReportField(k, f, v)) = b
  BY DEF Head1
<1> HIDE DEF ss
<1>13. b \in Seq(Bytes) /\ Len(b) = N + 2 /\ At(b, N - 1, x) /\ At(b, N + 1, y)
  BY <1>8, <1>10, <1>11, TwoWordsLast
<1>14. ReportBody(k, h) = b
  <2>1. ReportBody(k, h) = b \o <<>>
    BY <1>2, <1>3, <1>12 DEF ReportBody, Reportable
  <2> HIDE DEF b
  <2> QED
    BY <2>1, <1>13
<1> HIDE DEF b
<1>15. Len(b) - 3 = N - 1 /\ Len(b) - 1 = N + 1 /\ Len(b) = IF k = "spot1" THEN 9 ELSE 4
  BY <1>8, <1>13
<1> QED
  BY <1>13, <1>14, <1>15 DEF x, y

\* The rooms the robot holds are a setting the phone could have sent, and no
\* resolution plays a part in them.
LEMMA HeldRoom ==
  ASSUME NEW h, HeldFrom({"room"}, h), h # NoSetting, NEW r
  PROVE  SettingOK("room", h) /\ h = Plain(r, "room", h) /\ h = [head |-> h.head, items |-> h.items]
<1>1. PICK s \in Settings["room"], u \in Measures(Resolutions) : h = Meant(u, "room", s)
  BY DEF HeldFrom
<1>2. "room" \in Kinds
  BY DEF Kinds
<1>3. SettingOK("room", s)
  BY <1>2, SettingsAssumption
<1> DEFINE t == ClampedSetting("room", s)
<1>4. SettingOK("room", t) /\ h = Plain(u, "room", t)
  BY <1>1, <1>2, <1>3, MeantPlain
<1>5. t = [head |-> t.head, items |-> t.items]
  BY DEF ClampedSetting
<1> HIDE DEF t
<1>6. Range(PhoneHead["room"]) \ {"count"} = {"repeat"} /\ Range(PhoneItems["room"]) = {"id"}
  <2>1. PhoneHead["room"] = <<"repeat", "count">> /\ PhoneItems["room"] = <<"id">>
    BY <1>2 DEF PhoneHead, PhoneItems
  <2> QED
    BY <2>1 DEF Range
<1>7. \A w, v : Metres(w, "repeat", v) = v /\ Metres(w, "id", v) = v
  BY DEF Metres, Coordinates
<1>8. t.head = [f \in {"repeat"} |-> t.head[f]]
  BY <1>4, <1>6 DEF SettingOK, RecordOK
<1>9. \A i \in DOMAIN t.items : t.items[i] = [f \in {"id"} |-> t.items[i][f]]
  BY <1>4, <1>6 DEF SettingOK, RecordOK
<1>10. DOMAIN t.items = 1..Len(t.items) /\ t.items = [i \in DOMAIN t.items |-> t.items[i]]
  <2>1. t.items \in Seq(Range(t.items)) /\ DOMAIN t.items = 1..Len(t.items)
    BY <1>2, <1>4, SettingFields
  <2> QED
    BY <2>1
<1>11. ASSUME NEW w PROVE Plain(w, "room", t) = t
  <2>1. [f \in {"repeat"} |-> Metres(w[0][f], f, t.head[f])] = t.head
    BY <1>7, <1>8
  <2>2. ASSUME NEW i \in DOMAIN t.items
        PROVE  [f \in {"id"} |-> Metres(w[i][f], f, t.items[i][f])] = t.items[i]
    BY <1>7, <1>9
  <2>3. [i \in 1..Len(t.items) |-> [f \in {"id"} |-> Metres(w[i][f], f, t.items[i][f])]] = t.items
    BY <1>10, <2>2
  <2> QED
    BY <1>5, <1>6, <2>1, <2>3 DEF Plain
<1>12. h = t
  BY <1>4, <1>11
<1> QED
  BY <1>4, <1>5, <1>11, <1>12

\* Rooms are reported as they would be requested.
LEMMA RoomBody ==
  ASSUME NEW h, HeldFrom({"room"}, h), h # NoSetting
  PROVE  ReportBody("room", h) = RequestBody("room", h) /\ RequestBody("room", h) \in Seq(Bytes)
<1> DEFINE u == [i \in Nat |-> <<>>]
<1>1. SettingOK("room", h) /\ h = Plain(u, "room", h)
  BY HeldRoom
<1>2. "room" \in Kinds /\ "room" \in Mirrored
  BY DEF Kinds, Mirrored
<1> HIDE DEF u
<1>3. ReportBody("room", h) = WholeBody("room", Plain(u, "room", h))
  BY <1>1, ReportWhole DEF Reportable
<1>4. FaithfulRead(u, "room")
  <2>1. PhoneHead["room"] = <<"repeat", "count">> /\ PhoneItems["room"] = <<"id">>
    BY <1>2 DEF PhoneHead, PhoneItems
  <2>2. Range(PhoneHead["room"]) = {"repeat", "count"} /\ Range(PhoneItems["room"]) = {"id"}
    BY <2>1 DEF Range
  <2>3. \A f \in {"repeat", "count", "id"} : \A w : Faithful(w, f)
    BY DEF Faithful, Coordinates
  <2> QED
    BY <2>2, <2>3 DEF FaithfulRead
<1> QED
  BY <1>1, <1>2, <1>3, <1>4, BodyMirrors, RequestParts

\* The handler's answer to a query, and the form of it.
LEMMA QueryStep ==
  ASSUME RawInv, RawNext, waits = "query", frame' # <<>>
  PROVE  /\ AnswerQuery
         /\ frame' = Frame(ReportCmd[kind], ReportBody(Form(kind, held[Slot(kind)]), held[Slot(kind)]))
<1>1. frame = <<>>
  BY DEF RawInv, WaitInv
<1>2. AnswerQuery
  BY <1>1 DEF RawNext, Set, Command, Query, NewRequest, AnswerCommand, AnswerSet,
              RobotSilent, OnMap
<1> QED
  BY <1>2 DEF AnswerQuery

\* AnswerQuery reports the rooms the robot holds, or its spot near enough.
LEMMA ShowsHeld ==
  ASSUME RawInv, RawNext, waits = "query", frame' # <<>>
  PROVE  LET body == BodyOf(frame')
             n == Len(body)
         IN  IF kind = "room" THEN body = RequestBody("room", held["room"])
             ELSE /\ n = IF kind = "spot1" /\ "version" \in DOMAIN held["spot"].head
                         THEN 9 ELSE 4
                  /\ Near(nbto16(SubSeq(body, n - 3, n - 2)), held["spot"].head["x"])
                  /\ Near(nbto16(SubSeq(body, n - 1, n)), held["spot"].head["y"])
<1> DEFINE h == held[Slot(kind)]
           form == Form(kind, h)
           b == ReportBody(form, h)
           n == Len(b)
<1>1. AnswerQuery /\ frame' = Frame(ReportCmd[kind], b)
  BY QueryStep
<1>2. /\ kind \in {"room", "spot", "spot1"} /\ res \in Resolutions
      /\ HeldFrom({"spot", "spot1"}, held["spot"]) /\ HeldFrom({"room"}, held["room"])
  BY DEF RawInv, WaitInv, HeldInv
<1>3. h # NoSetting
  BY <1>1 DEF AnswerQuery
<1>4. CASE kind = "room"
  <2>1. h = held["room"] /\ form = "room"
    BY <1>4 DEF Slot, Form
  <2>2. b = RequestBody("room", held["room"]) /\ b \in Seq(Bytes)
    BY <2>1, <1>2, <1>3, RoomBody
  <2> HIDE DEF b
  <2>3. BodyOf(Frame(ReportCmd[kind], b)) = b
    BY <2>2, FrameParts
  <2> QED
    BY <1>1, <1>4, <2>2, <2>3
<1>5. CASE kind # "room"
  <2>1. h = held["spot"] /\ kind \in {"spot", "spot1"}
    BY <1>2, <1>5 DEF Slot
  <2>2. SpotOK(h)
    BY <2>1, <1>2, <1>3, HeldSpot
  <2>3. /\ form \in {"spot", "spot1"}
        /\ form = "spot1" <=> (kind = "spot1" /\ "version" \in DOMAIN held["spot"].head)
    BY <2>1 DEF Form
  <2> HIDE DEF h, form
  <2>4. /\ b \in Seq(Bytes) /\ n = IF form = "spot1" THEN 9 ELSE 4
        /\ At(b, n - 3, tonb16(ToTuya(h.head["x"]))) /\ At(b, n - 1, tonb16(ToTuya(h.head["y"])))
    BY <2>1, <2>2, <2>3, <1>2, SpotBody
  <2> HIDE DEF b
  <2>5. BodyOf(Frame(ReportCmd[kind], b)) = b
    BY <2>4, FrameParts
  <2>6. Near(nbto16(SubSeq(b, n - 3, n - 3 + 1)), h.head["x"])
        /\ Near(nbto16(SubSeq(b, n - 1, n - 1 + 1)), h.head["y"])
    <3>1. h.head["x"] \in Int /\ h.head["y"] \in Int
      BY <2>2 DEF SpotOK
    <3> HIDE DEF n
    <3> QED
      BY <3>1, <2>4, <1>2, NearAt
  <2>7. n - 3 + 1 = n - 2 /\ n - 1 + 1 = n
    BY <2>4
  <2> HIDE DEF n
  <2>8. Near(nbto16(SubSeq(b, n - 3, n - 2)), h.head["x"])
        /\ Near(nbto16(SubSeq(b, n - 1, n)), h.head["y"])
    BY <2>6, <2>7
  <2>9. n = IF kind = "spot1" /\ "version" \in DOMAIN held["spot"].head THEN 9 ELSE 4
    BY <2>3, <2>4
  <2> QED
    BY <1>1, <1>5, <2>1, <2>5, <2>8, <2>9 DEF n
<1> QED
  BY <1>4, <1>5

\* For all settings and resolutions, the answer to a query shows what the robot
\* holds at that time: its rooms, or its spot to half a unit of the present
\* resolution, in the form asked for.
THEOREM QueryShows == RawSpec => QueryShowsHeld
<1>1. RawInv /\ [RawNext]_rawVars =>
        [(waits = "query" /\ frame' # <<>>) =>
           LET body == BodyOf(frame')
               n == Len(body)
           IN  IF kind = "room" THEN body = RequestBody("room", held["room"])
               ELSE /\ n = IF kind = "spot1" /\ "version" \in DOMAIN held["spot"].head
                           THEN 9 ELSE 4
                    /\ Near(nbto16(SubSeq(body, n - 3, n - 2)), held["spot"].head["x"])
                    /\ Near(nbto16(SubSeq(body, n - 1, n)), held["spot"].head["y"])]_rawVars
  BY ShowsHeld
<1> QED
  BY <1>1, RawInvariant, PTL DEF RawSpec, QueryShowsHeld

----------------------------------------------------------------------------
(* The checksum is a byte.                                                  *)

\* The parts of SumBytes: what value v adds to the sum of s, the value a set is
\* taken apart by, and the function of the sums over the sets of values.
Weight(s, v) == v * Cardinality({n \in DOMAIN s : s[n] = v})
Pick(t) == CHOOSE x \in t : TRUE
SumStep(s, g) ==
    [t \in SUBSET Range(s) |-> IF t = {} THEN 0 ELSE Weight(s, Pick(t)) + g[t \ {Pick(t)}]]
IsSum(s, g) == g = SumStep(s, g)

\* SumBytes looks its sum up in that function.
LEMMA SumIs ==
  ASSUME NEW s
  PROVE  SumBytes(s) = Byte((CHOOSE g : IsSum(s, g))[Range(s)])
BY DEF SumBytes, MapThenSumSet, MapThenFoldSet, IsSum, SumStep, Weight, Pick

\* The checksum runs over finitely many values.
LEMMA BytesFinite == IsFiniteSet(Bytes) /\ \A b \in Bytes : b \in Int
<1>1. ASSUME NEW a \in Int, NEW b \in Int PROVE IsFiniteSet(a..b)
  BY FS_Interval
<1>2. 0 \in Int /\ 255 \in Int
  OBVIOUS
<1>3. IsFiniteSet(0..255)
  BY <1>1, <1>2, Zenon
<1> QED
  BY <1>3 DEF Bytes

\* Every value adds an integer.
LEMMA WeightInt ==
  ASSUME NEW s \in Seq(Bytes), NEW v \in Range(s)
  PROVE  Weight(s, v) \in Int
<1> DEFINE P == {n \in DOMAIN s : s[n] = v}
<1>1. DOMAIN s = 1..Len(s) /\ Len(s) \in Nat
  OBVIOUS
<1>2. IsFiniteSet(1..Len(s))
  BY <1>1, FS_Interval
<1>3. P \in SUBSET (1..Len(s))
  BY <1>1
<1>4. Cardinality(P) \in Nat
  <2> HIDE DEF P
  <2> QED
    BY <1>2, <1>3, FS_Subset, FS_CardinalityType
<1>5. v \in Int
  <2>1. PICK n \in DOMAIN s : v = s[n]
    BY DEF Range
  <2>2. s[n] \in Bytes
    BY <1>1
  <2> QED
    BY <2>1, <2>2, BytesFinite
<1> QED
  BY <1>4, <1>5 DEF Weight

\* A sequence has finitely many values.
LEMMA RangeFinite ==
  ASSUME NEW s \in Seq(Bytes)
  PROVE  IsFiniteSet(Range(s)) /\ Cardinality(Range(s)) \in Nat
<1>1. \A n \in DOMAIN s : s[n] \in Bytes
  OBVIOUS
<1>2. Range(s) \in SUBSET Bytes
  BY <1>1 DEF Range
<1> QED
  BY <1>2, BytesFinite, FS_Subset, FS_CardinalityType

\* The sums exist: applied Cardinality(Range(s)) times, SumStep reaches them.
LEMMA SumExists ==
  ASSUME NEW s \in Seq(Bytes)
  PROVE  \E g : IsSum(s, g)
<1> DEFINE R == Range(s)
           N == Cardinality(R)
           X == [SUBSET R -> Int]
           H == [i \in 1..N |-> [g \in X |-> SumStep(s, g)]]
           a == [t \in SUBSET R |-> 0]
<1>1. IsFiniteSet(R) /\ N \in Nat
  BY RangeFinite
<1>2. ASSUME NEW t \in SUBSET R, t # {}
      PROVE  Pick(t) \in t /\ Weight(s, Pick(t)) \in Int /\ t \ {Pick(t)} \in SUBSET R
  <2>1. Pick(t) \in t
    BY <1>2 DEF Pick
  <2> QED
    BY <2>1, WeightInt
<1>3. ASSUME NEW g \in X PROVE SumStep(s, g) \in X
  <2>1. ASSUME NEW t \in SUBSET R
        PROVE  (IF t = {} THEN 0 ELSE Weight(s, Pick(t)) + g[t \ {Pick(t)}]) \in Int
    BY <1>2
  <2> QED
    BY <2>1 DEF SumStep
<1>4. a \in X /\ Steps(X, N, H)
  <2>1. a \in X
    OBVIOUS
  <2> HIDE DEF X, N, a
  <2>2. H \in [1..N -> [X -> X]]
    BY <1>3
  <2> QED
    BY <2>1, <2>2 DEF Steps
<1>5. \A i \in 1..N : \A g \in X : H[i][g] = SumStep(s, g)
  OBVIOUS
<1> HIDE DEF X, H, a
<1>6. PICK F : Iterates(X, N, a, H, F)
  <2> HIDE DEF N
  <2> QED
    BY <1>1, <1>4, Recursion
<1>7. /\ \A i \in 0..N : F[i] \in X
      /\ F[0] = a
      /\ \A i \in 1..N : F[i] = SumStep(s, F[i - 1])
  <2> HIDE DEF N
  <2>1. \A i \in 0..N : F[i] \in X
    BY <1>6 DEF Iterates
  <2>2. \A i \in 1..N : i - 1 \in 0..N
    BY <1>1
  <2> QED
    BY <1>5, <1>6, <2>1, <2>2 DEF Iterates
<1> DEFINE T == {i \in 0..N : \A t \in SUBSET R : Cardinality(t) <= i => SumStep(s, F[i])[t] = F[i][t]}
<1>8. ASSUME NEW t \in SUBSET R PROVE Cardinality(t) \in Nat /\ IsFiniteSet(t) /\ Cardinality(t) <= N
  BY <1>1, FS_Subset, FS_CardinalityType
<1>9. 0 \in T
  <2>1. ASSUME NEW t \in SUBSET R, Cardinality(t) <= 0 PROVE SumStep(s, F[0])[t] = F[0][t]
    <3>1. t = {}
      BY <1>8, <2>1, FS_EmptySet
    <3> QED
      BY <3>1, <1>7 DEF SumStep, a
  <2> QED
    BY <2>1, <1>1
<1>10. ASSUME NEW i \in 1..N, i - 1 \in T PROVE i \in T
  <2>0. i \in 0..N /\ F[i] = SumStep(s, F[i - 1])
    BY <1>1, <1>7
  <2>1. ASSUME NEW t \in SUBSET R, Cardinality(t) <= i PROVE SumStep(s, F[i])[t] = F[i][t]
    <3>1. CASE t = {}
      BY <3>1, <2>0 DEF SumStep
    <3>2. CASE t # {}
      <4> DEFINE x == Pick(t)
                 r == t \ {x}
      <4>1. x \in t /\ r \in SUBSET R
        BY <3>2, <1>2
      <4>2. Cardinality(r) = Cardinality(t) - 1
        BY <4>1, <1>8, FS_RemoveElement
      <4>3. Cardinality(r) <= i - 1
        BY <4>2, <2>1, <1>8, <1>1
      <4>4. SumStep(s, F[i - 1])[r] = F[i - 1][r]
        BY <4>1, <4>3, <1>10
      <4>5. F[i][r] = F[i - 1][r]
        BY <4>4, <2>0
      <4>6. \A g : SumStep(s, g)[t] = Weight(s, x) + g[r]
        BY <3>2 DEF SumStep
      <4> HIDE DEF x, r
      <4> QED
        BY <4>5, <4>6, <2>0
    <3> QED
      BY <3>1, <3>2
  <2> QED
    BY <2>0, <2>1
<1>11. N \in T
  <2>1. N \in 0..N
    BY <1>1
  <2> HIDE DEF T, N
  <2> QED
    BY <2>1, <1>1, <1>9, <1>10, Induct
<1>12. F[N] = SumStep(s, F[N])
  <2>1. \A t \in SUBSET R : SumStep(s, F[N])[t] = F[N][t]
    BY <1>8, <1>11
  <2>2. F[N] \in X /\ SumStep(s, F[N]) \in X
    BY <1>1, <1>3, <1>7
  <2> QED
    BY <2>1, <2>2 DEF X
<1> QED
  BY <1>12 DEF IsSum

\* The sum over a sequence of bytes is an integer, so the checksum is a byte.
LEMMA SumIsByte ==
  ASSUME NEW s \in Seq(Bytes)
  PROVE  SumBytes(s) \in Bytes
<1> DEFINE R == Range(s)
           g == CHOOSE q : IsSum(s, q)
           N == Cardinality(R)
           T == {i \in 0..N : \A t \in SUBSET R : Cardinality(t) <= i => g[t] \in Int}
<1>1. g = SumStep(s, g)
  BY SumExists DEF IsSum
<1> HIDE DEF g
<1>2. IsFiniteSet(R) /\ N \in Nat
  BY RangeFinite
<1>3. ASSUME NEW t \in SUBSET R PROVE Cardinality(t) \in Nat /\ IsFiniteSet(t) /\ Cardinality(t) <= N
  BY <1>2, FS_Subset, FS_CardinalityType
<1>4. ASSUME NEW t \in SUBSET R
      PROVE  g[t] = IF t = {} THEN 0 ELSE Weight(s, Pick(t)) + g[t \ {Pick(t)}]
  BY <1>1 DEF SumStep
<1>40. \A t \in SUBSET R : t = {} => g[t] \in Int
  <2>1. \A t \in SUBSET R : t = {} => g[t] = 0
    BY <1>4
  <2> QED
    BY <2>1
<1>5. 0 \in T
  <2>1. ASSUME NEW t \in SUBSET R, Cardinality(t) <= 0 PROVE g[t] \in Int
    <3>1. t = {}
      BY <1>3, <2>1, FS_EmptySet
    <3> QED
      BY <3>1, <1>40
  <2> QED
    BY <2>1, <1>2
<1>6. ASSUME NEW i \in 1..N, i - 1 \in T PROVE i \in T
  <2>1. ASSUME NEW t \in SUBSET R, Cardinality(t) <= i PROVE g[t] \in Int
    <3>1. CASE t = {}
      BY <3>1, <1>40
    <3>2. CASE t # {}
      <4> DEFINE x == Pick(t)
                 r == t \ {x}
      <4>1. x \in t /\ r \in SUBSET R
        BY <3>2 DEF Pick
      <4>2. Cardinality(r) = Cardinality(t) - 1
        BY <4>1, <1>3, FS_RemoveElement
      <4>3. Cardinality(r) <= i - 1
        BY <4>2, <2>1, <1>3, <1>2
      <4>4. g[r] \in Int
        BY <4>1, <4>3, <1>6
      <4>5. Weight(s, x) \in Int
        BY <4>1, WeightInt
      <4> QED
        BY <4>4, <4>5, <3>2, <1>4
    <3> QED
      BY <3>1, <3>2
  <2>2. i \in 0..N
    BY <1>2
  <2> QED
    BY <2>1, <2>2
<1>7. N \in T
  <2>1. N \in 0..N
    BY <1>2
  <2> HIDE DEF T, N
  <2> QED
    BY <2>1, <1>2, <1>5, <1>6, Induct
<1>8. g[R] \in Int
  BY <1>3, <1>7
<1>9. SumBytes(s) = Byte(g[R])
  BY SumIs DEF g
<1>10. \A n \in Int : n % 256 \in 0..255
  OBVIOUS
<1> QED
  BY <1>8, <1>9, <1>10 DEF Byte, Bytes

----------------------------------------------------------------------------
(* How long a report is.                                                    *)

\* Sequences of the same lengths give concatenations of the same length.
LEMMA SameLengths ==
  ASSUME NEW S, NEW ss \in Seq(Seq(S)), NEW tt \in Seq(Seq(S)), Len(ss) = Len(tt),
         \A i \in 1..Len(ss) : Len(ss[i]) = Len(tt[i])
  PROVE  Len(FlattenSeq(ss)) = Len(FlattenSeq(tt))
<1> DEFINE N == Len(ss)
<1>0. N \in Nat /\ N = Len(tt) /\ \A i \in 1..N : Len(ss[i]) = Len(tt[i])
  OBVIOUS
<1>1. PICK F : Joined(S, ss, F) /\ FlattenSeq(ss) = F[Len(ss)]
  BY FlattenJoined
<1>2. PICK G : Joined(S, tt, G) /\ FlattenSeq(tt) = G[Len(tt)]
  BY FlattenJoined
<1>3. \A i \in 1..N : Len(F[i]) = Len(F[i - 1]) + Len(ss[i])
  BY <1>1, JoinedAt, ZenonT(30)
<1>4. \A i \in 1..N : Len(G[i]) = Len(G[i - 1]) + Len(tt[i])
  <2>1. \A i \in 1..Len(tt) : Len(G[i]) = Len(G[i - 1]) + Len(tt[i])
    BY <1>2, JoinedAt
  <2> QED
    BY <2>1, <1>0
<1>5. F[0] = <<>> /\ G[0] = <<>>
  BY <1>1, <1>2 DEF Joined
<1> DEFINE T == {i \in 0..N : Len(F[i]) = Len(G[i])}
<1> HIDE DEF N
<1>6. 0 \in T
  BY <1>0, <1>5
<1>7. ASSUME NEW i \in 1..N, i - 1 \in T PROVE i \in T
  <2>1. Len(F[i]) = Len(G[i])
    BY <1>0, <1>3, <1>4, <1>7
  <2> QED
    BY <2>1, <1>0
<1>8. N \in T
  <2>1. N \in 0..N
    BY <1>0
  <2> HIDE DEF T
  <2> QED
    BY <2>1, <1>0, <1>6, <1>7, Induct
<1> QED
  BY <1>0, <1>1, <1>2, <1>8 DEF N

\* At most w elements each.
LEMMA FlattenAtMost ==
  ASSUME NEW S, NEW ss \in Seq(Seq(S)), NEW w \in Nat,
         \A i \in 1..Len(ss) : Len(ss[i]) <= w
  PROVE  Len(FlattenSeq(ss)) <= w * Len(ss)
<1> DEFINE N == Len(ss)
<1>0. N \in Nat /\ \A i \in 1..N : Len(ss[i]) \in Nat /\ Len(ss[i]) <= w
  OBVIOUS
<1>1. PICK F : Joined(S, ss, F) /\ FlattenSeq(ss) = F[N]
  BY FlattenJoined
<1>2. \A i \in 1..N : F[i - 1] \in Seq(S) /\ Len(F[i]) = Len(F[i - 1]) + Len(ss[i])
  BY <1>1, JoinedAt, ZenonT(30)
<1>3. F[0] = <<>>
  BY <1>1 DEF Joined
<1> DEFINE U == {i \in 0..N : Len(F[i]) <= w * i}
<1> HIDE DEF N
<1>4. 0 \in U
  BY <1>0, <1>3
<1>5. ASSUME NEW i \in 1..N, i - 1 \in U PROVE i \in U
  <2>1. Len(F[i - 1]) \in Nat /\ Len(F[i - 1]) <= w * (i - 1)
    BY <1>2, <1>5
  <2>2. Len(F[i]) <= w * (i - 1) + w
    <3>1. Len(F[i]) = Len(F[i - 1]) + Len(ss[i]) /\ Len(ss[i]) \in Nat /\ Len(ss[i]) <= w
      BY <1>0, <1>2
    <3>2. w * (i - 1) \in Nat
      BY <1>0
    <3>3. \A x, y, z \in Nat : x <= z /\ y <= w => x + y <= z + w
      OBVIOUS
    <3> QED
      BY <2>1, <3>1, <3>2, <3>3
  <2>3. w * (i - 1) + w = w * i
    BY <1>0
  <2> QED
    BY <2>2, <2>3, <1>0
<1>6. N \in U
  <2>1. N \in 0..N
    BY <1>0
  <2> HIDE DEF U
  <2> QED
    BY <2>1, <1>0, <1>4, <1>5, Induct
<1> QED
  BY <1>1, <1>6 DEF N

\* Two sequences.
LEMMA FlattenTwo ==
  ASSUME NEW S, NEW ss \in Seq(Seq(S)), Len(ss) = 2
  PROVE  Len(FlattenSeq(ss)) = Len(ss[1]) + Len(ss[2])
<1>1. PICK F : Joined(S, ss, F) /\ FlattenSeq(ss) = F[2]
  BY FlattenJoined
<1>2. F[0] = <<>>
  BY <1>1 DEF Joined
<1>3. \A i \in 1..Len(ss) : Len(F[i]) = Len(F[i - 1]) + Len(ss[i])
  BY <1>1, JoinedAt
<1>4. Len(F[1]) = Len(F[0]) + Len(ss[1]) /\ Len(F[2]) = Len(F[1]) + Len(ss[2])
  BY <1>3
<1>5. Len(ss[1]) \in Nat
  OBVIOUS
<1> QED
  BY <1>1, <1>2, <1>4, <1>5

\* A report gives every field in as many bytes as the request, except that the
\* names of rooms are not padded.
LEMMA ReportFieldBytes ==
  ASSUME NEW k, NEW f, NEW v, FieldOK(f, v), NEW u \in [Nat -> Resolutions],
         res \in Resolutions
  PROVE  /\ ReportField(k, f, Metres(u, f, v)) \in Seq(Bytes)
         /\ (f # "name" \/ k # "names") =>
               Len(ReportField(k, f, Metres(u, f, v))) = Len(RequestField(f, v))
<1>0. \A n \in Nat : u[n] \in Int
  <2>1. \A n \in Nat : u[n] \in Resolutions
    OBVIOUS
  <2>2. \A r \in Resolutions : r \in Int
    BY ResolutionEven
  <2> QED
    BY <2>1, <2>2
<1>1. CASE f \in Coordinates
  <2> DEFINE m == v * u[0]
  <2>1. v \in Int /\ f \in Words
    BY <1>1, WordInt DEF FieldOK, Words
  <2>2. Metres(u, f, v) = m
    BY <1>1 DEF Metres, Coordinates
  <2>3. m \in Int
    BY <2>1, <1>0
  <2> HIDE DEF m
  <2>4. ToTuya(m) \in Int
    BY <2>3, TuyaInt
  <2>5. ReportField(k, f, m) = tonb16(ToTuya(m)) /\ RequestField(f, v) = tonb16(v)
    BY <1>1 DEF ReportField, RequestField, Words, Coordinates
  <2> QED
    BY <2>1, <2>2, <2>4, <2>5, WordBytes
<1>2. CASE f = "polygon"
  <2>1. v \in Seq(Word \X Word) /\ Len(v) \in Nat /\ Len(v) <= 255 /\ DOMAIN v = 1..Len(v)
    BY <1>2 DEF FieldOK
  <2>2. v \in Seq(Int \X Int) /\ \A j \in 1..Len(v) : v[j][1] \in Word /\ v[j][2] \in Word
    BY <2>1, WordPairs
  <2> DEFINE M == [j \in DOMAIN v |-> <<v[j][1] * u[4*j - 3], v[j][2] * u[4*j - 1]>>]
             R == [j \in DOMAIN M |-> <<ToTuya(M[j][1]), ToTuya(M[j][2])>>]
  <2>3. Metres(u, f, v) = M
    BY <1>2 DEF Metres, Coordinates
  <2>4. ReportField(k, f, M) = RequestField(f, R)
    BY <1>2 DEF ReportField, Coordinates
  <2>5. ASSUME NEW j \in DOMAIN v
        PROVE  ToTuya(v[j][1] * u[4*j - 3]) \in Int /\ ToTuya(v[j][2] * u[4*j - 1]) \in Int
    <3>0. 4*j - 3 \in Nat /\ 4*j - 1 \in Nat
      BY <2>1
    <3>1. v[j][1] \in Int /\ v[j][2] \in Int
      BY <2>1, <2>2, WordInt
    <3>2. v[j][1] * u[4*j - 3] \in Int /\ v[j][2] * u[4*j - 1] \in Int
      BY <3>0, <3>1, <1>0
    <3> QED
      BY <3>2, TuyaInt
  <2>6. R = [j \in DOMAIN v |-> <<ToTuya(v[j][1] * u[4*j - 3]), ToTuya(v[j][2] * u[4*j - 1])>>]
    OBVIOUS
  <2> HIDE DEF M, R
  <2>7. R \in [1..Len(v) -> Int \X Int]
    BY <2>1, <2>5, <2>6
  <2>8. R \in Seq(Int \X Int) /\ Len(R) = Len(v)
    BY <2>1, <2>7
  <2>9. \A w : RequestField(f, w) = <<Len(w)>> \o FlattenSeq(Points(w))
    BY <1>2 DEF RequestField, Points, Words, Coordinates
  <2>10. <<Len(v)>> \in Seq(Bytes) /\ Len(<<Len(v)>>) = 1
    BY <2>1, OneByte
  <2>11. ASSUME NEW w \in Seq(Int \X Int), Len(w) = Len(v)
         PROVE  RequestField(f, w) \in Seq(Bytes) /\ Len(RequestField(f, w)) = 1 + 4 * Len(v)
    <3>1. FlattenSeq(Points(w)) \in Seq(Bytes) /\ Len(FlattenSeq(Points(w))) = 4 * Len(v)
      BY <2>11, PointsBytes
    <3>2. RequestField(f, w) = <<Len(v)>> \o FlattenSeq(Points(w))
      BY <2>9, <2>11
    <3> QED
      BY <3>1, <3>2, <2>10, CatSeq
  <2>12. RequestField(f, R) \in Seq(Bytes) /\ Len(RequestField(f, R)) = Len(RequestField(f, v))
    BY <2>2, <2>8, <2>11
  <2> QED
    BY <2>3, <2>4, <2>12
<1>3. CASE f = "name"
  <2>1. v \in Seq(Bytes) /\ Len(v) \in Nat /\ Len(v) <= 19
    BY <1>3 DEF FieldOK, NameField
  <2> DEFINE w == v \o <<0>>
  <2>2. w \in Seq(Bytes) /\ Len(w) = Len(v) + 1
    <3>1. <<0>> \in Seq(Bytes) /\ Len(<<0>>) = 1
      BY OneByte
    <3> QED
      BY <2>1, <3>1, CatSeq
  <2>3. Metres(u, f, v) = w
    BY <1>3 DEF Metres, Coordinates
  <2> HIDE DEF w
  <2>4. Pad(w) \in Seq(Bytes) /\ Len(Pad(w)) = 19 /\ Pad(v) \in Seq(Bytes) /\ Len(Pad(v)) = 19
    BY <2>1, <2>2, PadBytes DEF NameField
  <2>5. Byte(Len(w)) = Len(w)
    BY <2>1, <2>2 DEF Byte
  <2>6. /\ <<Len(w)>> \in Seq(Bytes) /\ Len(<<Len(w)>>) = 1
        /\ <<Len(v)>> \in Seq(Bytes) /\ Len(<<Len(v)>>) = 1
    <3>1. Len(w) \in Nat /\ Len(w) <= 255 /\ Len(v) <= 255
      BY <2>1, <2>2
    <3> QED
      BY <3>1, <2>1, OneByte
  <2>7. RequestField(f, v) = <<Len(v)>> \o Pad(v)
    BY <1>3 DEF RequestField, Words, Coordinates
  <2>8. ReportField(k, f, w) = <<Len(w)>> \o (IF k = "names" THEN w ELSE Pad(w))
    BY <1>3, <2>5 DEF ReportField, Coordinates
  <2>9. CASE k = "names"
    <3>1. ReportField(k, f, w) = <<Len(w)>> \o w
      BY <2>8, <2>9
    <3> QED
      BY <1>3, <2>2, <2>3, <2>6, <2>9, <3>1, CatSeq
  <2>10. CASE k # "names"
    <3>1. ReportField(k, f, w) = <<Len(w)>> \o Pad(w)
      BY <2>8, <2>10
    <3>2. <<Len(w)>> \o Pad(w) \in Seq(Bytes) /\ Len(<<Len(w)>> \o Pad(w)) = 20
      <4> DEFINE x == <<Len(w)>>
                 y == Pad(w)
      <4>1. x \in Seq(Bytes) /\ y \in Seq(Bytes) /\ Len(x) = 1 /\ Len(y) = 19
        BY <2>4, <2>6
      <4> HIDE DEF x, y
      <4>2. x \o y \in Seq(Bytes) /\ Len(x \o y) = Len(x) + Len(y)
        BY <4>1, CatSeq
      <4>3. Len(x) + Len(y) = 20
        BY <4>1
      <4> QED
        BY <4>2, <4>3 DEF x, y
    <3>3. Len(<<Len(v)>> \o Pad(v)) = 20
      <4> DEFINE x == <<Len(v)>>
                 y == Pad(v)
      <4>1. x \in Seq(Bytes) /\ y \in Seq(Bytes) /\ Len(x) = 1 /\ Len(y) = 19
        BY <2>4, <2>6
      <4> HIDE DEF x, y
      <4>2. Len(x \o y) = Len(x) + Len(y)
        BY <4>1, CatSeq
      <4>3. Len(x) + Len(y) = 20
        BY <4>1
      <4> QED
        BY <4>2, <4>3 DEF x, y
    <3> QED
      BY <2>3, <2>7, <3>1, <3>2, <3>3
  <2> QED
    BY <2>9, <2>10
<1>4. CASE f \notin Coordinates /\ f # "polygon" /\ f # "name"
  <2>1. ReportField(k, f, Metres(u, f, v)) = RequestField(f, v)
    BY <1>4 DEF ReportField, Metres
  <2> QED
    BY <2>1, FieldBytes
<1> QED
  BY <1>1, <1>2, <1>3, <1>4

\* The report's header: as long as the request's, also where two of its fields
\* have changed places.
LEMMA ReportHeadBytes ==
  ASSUME NEW k \in Kinds, NEW t, SettingOK(k, t), NEW u \in Measures(Resolutions),
         res \in Resolutions
  PROVE  /\ Head1(Plain(u, k, t), ReportHead[k], LAMBDA f, v : ReportField(k, f, v)) \in Seq(Bytes)
         /\ Len(Head1(Plain(u, k, t), ReportHead[k], LAMBDA f, v : ReportField(k, f, v)))
              = Len(Head1(t, PhoneHead[k], RequestField))
<1> DEFINE L == PhoneHead[k]
           Q == ReportHead[k]
           V == HeadRecord(t, L)
           P == Plain(u, k, t)
           N == Len(L)
           ss == [j \in DOMAIN Q |-> ReportField(k, Q[j], HeadValue(P, Q[j]))]
           tt == Encoded(L, V)
<1>1. L \in Seq(FieldNames) /\ N \in Nat /\ DOMAIN L = 1..N
  <2>1. L \in Seq(FieldNames)
    BY HeadLayout
  <2> HIDE DEF L
  <2> QED
    BY <2>1
<1>2. FieldsOK(L, V) /\ Len(t.items) \in Nat
  BY SettingFields
<1>3. ASSUME NEW f \in Range(L) PROVE FieldOK(f, V[f]) /\ HeadValue(P, f) = Metres(u[0][f], f, V[f])
  <2>1. PICK j \in DOMAIN L : f = L[j]
    BY DEF Range
  <2>2. FieldOK(f, V[f])
    BY <1>2, <2>1 DEF FieldsOK
  <2>3. V[f] = HeadValue(t, f)
    BY DEF HeadRecord
  <2>4. CASE f = "count"
    <3>1. Len(P.items) = Len(t.items)
      BY <1>2 DEF Plain
    <3>2. Metres(u[0][f], f, V[f]) = V[f]
      BY <2>4 DEF Metres, Coordinates
    <3> QED
      BY <2>2, <2>3, <2>4, <3>1, <3>2 DEF HeadValue
  <2>5. CASE f # "count"
    <3>1. P.head[f] = Metres(u[0][f], f, t.head[f])
      BY <2>5 DEF Plain
    <3> QED
      BY <2>2, <2>3, <2>5, <3>1 DEF HeadValue
  <2> QED
    BY <2>4, <2>5
<1>30. Range(L) \subseteq FieldNames
  BY LayoutNames
<1>4. \A j \in DOMAIN L : L[j] # "name" /\ L[j] \in Range(L)
  BY HeadNoName DEF Range
<1>5. DOMAIN Q = 1..N
      /\ \A j \in 1..N : /\ Q[j] \in Range(L) /\ Q[j] # "name"
                         /\ Len(RequestField(Q[j], V[Q[j]])) = Len(RequestField(L[j], V[L[j]]))
  <2>1. CASE k # "dnd1"
    <3>1. Q = L
      BY <2>1, SameHead
    <3> QED
      BY <3>1, <1>1, <1>4
  <2>2. CASE k = "dnd1"
    <3>1. L = <<"version", "onoff", "zone", "start", "startDay", "end", "endDay">>
      BY <2>2 DEF PhoneHead, Kinds
    <3>2. Q = <<"version", "zone", "onoff", "start", "startDay", "end", "endDay">>
      BY <2>2 DEF ReportHead, Kinds
    <3>3. ASSUME NEW f \in {"zone", "onoff"} PROVE f \in Range(L) /\ Len(RequestField(f, V[f])) = 1
      <4>1. f \in Range(L)
        BY <3>1 DEF Range
      <4>2. FieldOK(f, V[f])
        BY <4>1, <1>3
      <4>3. RequestField(f, V[f]) = <<V[f]>>
        BY DEF RequestField, Words, Coordinates
      <4> QED
        BY <4>1, <4>3
    <3> HIDE DEF L, Q, V
    <3>4. N = 7 /\ DOMAIN Q = 1..7
      BY <3>1, <3>2
    <3>5. ASSUME NEW j \in 1..7, j # 2, j # 3 PROVE Q[j] = L[j]
      <4>1. L[1] = Q[1] /\ L[4] = Q[4] /\ L[5] = Q[5] /\ L[6] = Q[6] /\ L[7] = Q[7]
        BY <3>1, <3>2
      <4>2. j \in {1, 4, 5, 6, 7}
        BY <3>5
      <4> QED
        BY <4>1, <4>2
    <3>6. Q[2] = "zone" /\ Q[3] = "onoff" /\ L[2] = "onoff" /\ L[3] = "zone"
      BY <3>1, <3>2
    <3>7. ASSUME NEW j \in 1..7
          PROVE  /\ Q[j] \in Range(L) /\ Q[j] # "name"
                 /\ Len(RequestField(Q[j], V[Q[j]])) = Len(RequestField(L[j], V[L[j]]))
      <4>1. CASE j = 2
        BY <4>1, <3>3, <3>6
      <4>2. CASE j = 3
        BY <4>2, <3>3, <3>6
      <4>3. CASE j # 2 /\ j # 3
        BY <4>3, <3>4, <3>5, <1>1, <1>4
      <4> QED
        BY <4>1, <4>2, <4>3
    <3> QED
      BY <3>4, <3>7
  <2> QED
    BY <2>1, <2>2
<1>6. tt \in Seq(Seq(Bytes)) /\ Len(tt) = N /\ \A j \in 1..N : tt[j] = RequestField(L[j], V[L[j]])
  <2> HIDE DEF L, V
  <2> QED
    BY <1>1, <1>2, EncodedBytes
<1>7. Head1(t, L, RequestField) = FlattenSeq(tt)
  BY <1>1, HeadBytes
<1>8. Head1(P, Q, LAMBDA f, v : ReportField(k, f, v)) = FlattenSeq(ss)
  BY DEF Head1
<1> HIDE DEF L, Q, V, P, tt, N
<1>9. ASSUME NEW j \in 1..N
      PROVE  ss[j] \in Seq(Bytes) /\ Len(ss[j]) = Len(tt[j])
  <2>1. Q[j] \in Range(L) /\ Q[j] # "name" /\ j \in DOMAIN Q
    BY <1>5
  <2>2. FieldOK(Q[j], V[Q[j]]) /\ ss[j] = ReportField(k, Q[j], Metres(u[0][Q[j]], Q[j], V[Q[j]]))
    BY <2>1, <1>3
  <2>4. u[0][Q[j]] \in [Nat -> Resolutions]
    BY <2>1, <1>30, ReadingAt
  <2>3. ss[j] \in Seq(Bytes) /\ Len(ss[j]) = Len(RequestField(Q[j], V[Q[j]]))
    BY <2>1, <2>2, <2>4, ReportFieldBytes
  <2> QED
    BY <2>3, <1>5, <1>6
<1>10. ss \in Seq(Seq(Bytes)) /\ Len(ss) = N
  <2>1. ss \in [1..N -> Seq(Bytes)]
    BY <1>5, <1>9
  <2> HIDE DEF ss
  <2> QED
    BY <2>1, <1>1
<1> HIDE DEF ss
<1>11. FlattenSeq(ss) \in Seq(Bytes) /\ Len(FlattenSeq(ss)) = Len(FlattenSeq(tt))
  BY <1>6, <1>9, <1>10, FlattenType, SameLengths
<1> QED
  BY <1>7, <1>8, <1>11 DEF L, Q, P

\* The report's items, in the order of either encoder.
LEMMA ReportItemsBytes ==
  ASSUME NEW k \in Kinds, NEW t, SettingOK(k, t), NEW u \in Measures(Resolutions),
         res \in Resolutions
  PROVE  /\ Items(k, Plain(u, k, t)) \in Seq(Bytes)
         /\ k # "names" => Len(Items(k, Plain(u, k, t)))
                             = Len(ByItem(t, PhoneItems[k], RequestField))
<1> DEFINE G == PhoneItems[k]
           P == Plain(u, k, t)
           D == 1..Len(t.items)
           enc(i, j) == ReportField(k, G[j], P.items[i][G[j]])
           req(i, j) == RequestField(G[j], t.items[i][G[j]])
           W == Len(G)
           M == Len(t.items)
<1>1. G \in Seq(FieldNames) /\ W \in Nat /\ DOMAIN G = 1..W
  <2>1. G \in Seq(FieldNames)
    BY ItemLayout
  <2> HIDE DEF G
  <2> QED
    BY <2>1
<1>2. /\ t.items \in Seq(Range(t.items)) /\ M \in Nat /\ DOMAIN t.items = D
      /\ \A i \in DOMAIN t.items : FieldsOK(G, t.items[i])
  BY SettingFields
<1>3. DOMAIN P.items = D /\ \A i \in D : P.items[i] = [f \in Range(G) |-> Metres(u[i][f], f, t.items[i][f])]
  BY DEF Plain
<1>4. \A j \in 1..W : G[j] \in Range(G) /\ G[j] \in FieldNames
  BY <1>1 DEF Range
<1>5. ASSUME NEW i \in D, NEW j \in 1..W
      PROVE  /\ enc(i, j) \in Seq(Bytes)
             /\ k # "names" => Len(enc(i, j)) = Len(req(i, j))
             /\ FieldOK(G[j], t.items[i][G[j]])
  <2>1. FieldOK(G[j], t.items[i][G[j]])
    BY <1>1, <1>2 DEF FieldsOK
  <2>2. P.items[i][G[j]] = Metres(u[i][G[j]], G[j], t.items[i][G[j]])
    BY <1>3, <1>4
  <2>3. u[i][G[j]] \in [Nat -> Resolutions]
    <3>1. i \in Nat /\ G[j] \in FieldNames
      BY <1>2, <1>4
    <3> HIDE DEF G
    <3> QED
      BY <3>1, ReadingAt
  <2> HIDE DEF G, P
  <2> QED
    BY <2>1, <2>2, <2>3, ReportFieldBytes
<1> DEFINE row(i) == [j \in DOMAIN G |-> enc(i, j)]
           col(j) == [i \in DOMAIN P.items |-> enc(i, j)]
           tt == ItemsEncoded(G, t.items)
<1>6. /\ tt \in Seq(Seq(Bytes)) /\ Len(tt) = M
      /\ \A i \in D : tt[i] = FlattenSeq(Encoded(G, t.items[i]))
  <2> HIDE DEF G
  <2> QED
    BY <1>1, <1>2, ItemsBytes
<1>7. ByItem(t, G, RequestField) = FlattenSeq(tt)
  BY ItemBytes
<1>8. ASSUME NEW i \in D
      PROVE  /\ Encoded(G, t.items[i]) \in Seq(Seq(Bytes)) /\ Len(Encoded(G, t.items[i])) = W
             /\ \A j \in 1..W : Encoded(G, t.items[i])[j] = req(i, j)
  <2> HIDE DEF G
  <2> QED
    BY <1>1, <1>2, EncodedBytes
<1>9. CASE k # "props"
  <2> DEFINE ss == [i \in DOMAIN P.items |-> FlattenSeq(row(i))]
  <2>1. Items(k, P) = FlattenSeq(ss)
    BY <1>9, SameItems DEF Items, ByItem
  <2>2. ASSUME NEW i \in D
        PROVE  row(i) \in Seq(Seq(Bytes)) /\ Len(row(i)) = W
               /\ \A j \in 1..W : row(i)[j] = enc(i, j)
    <3>1. row(i) \in [1..W -> Seq(Bytes)] /\ \A j \in 1..W : row(i)[j] = enc(i, j)
      <4> HIDE DEF enc, G
      <4> QED
        BY <1>1, <1>5
    <3> DEFINE r == row(i)
    <3>2. r \in [1..W -> Seq(Bytes)]
      BY <3>1
    <3> HIDE DEF r, W
    <3>3. r \in Seq(Seq(Bytes)) /\ Len(r) = W
      BY <3>2, <1>1
    <3> QED
      BY <3>1, <3>3 DEF r
  <2> HIDE DEF G, P, row, tt, W, M, D, enc, req
  <2>3. ASSUME NEW i \in D
        PROVE  /\ FlattenSeq(row(i)) \in Seq(Bytes)
               /\ k # "names" => Len(FlattenSeq(row(i))) = Len(tt[i])
    <3>1. FlattenSeq(row(i)) \in Seq(Bytes)
      BY <2>2, FlattenType
    <3>2. ASSUME k # "names" PROVE Len(FlattenSeq(row(i))) = Len(FlattenSeq(Encoded(G, t.items[i])))
      <4> DEFINE a == row(i)
                 b == Encoded(G, t.items[i])
      <4>1. a \in Seq(Seq(Bytes)) /\ b \in Seq(Seq(Bytes)) /\ Len(a) = Len(b)
            /\ \A j \in 1..Len(a) : Len(a[j]) = Len(b[j])
        BY <2>2, <1>5, <1>8, <3>2
      <4> HIDE DEF a, b
      <4>2. Len(FlattenSeq(a)) = Len(FlattenSeq(b))
        BY <4>1, SameLengths
      <4> QED
        BY <4>2 DEF a, b
    <3> QED
      BY <3>1, <3>2, <1>6
  <2>4. ss \in Seq(Seq(Bytes)) /\ Len(ss) = M /\ \A i \in D : ss[i] = FlattenSeq(row(i))
    <3>1. ss \in [D -> Seq(Bytes)] /\ \A i \in D : ss[i] = FlattenSeq(row(i))
      BY <1>3, <2>3
    <3>2. D = 1..M
      BY DEF D, M
    <3> HIDE DEF ss
    <3> QED
      BY <3>1, <3>2, <1>2
  <2> HIDE DEF ss
  <2>5. FlattenSeq(ss) \in Seq(Bytes)
    BY <2>4, FlattenType
  <2>6. k # "names" => Len(FlattenSeq(ss)) = Len(FlattenSeq(tt))
    <3>1. D = 1..M
      BY DEF D, M
    <3>2. ASSUME k # "names" PROVE Len(FlattenSeq(ss)) = Len(FlattenSeq(tt))
      <4>1. Len(ss) = Len(tt) /\ \A i \in 1..Len(ss) : Len(ss[i]) = Len(tt[i])
        BY <2>3, <2>4, <3>1, <3>2, <1>6
      <4> QED
        BY <4>1, <2>4, <1>6, SameLengths
    <3> QED
      BY <3>2
  <2> QED
    BY <2>1, <2>5, <2>6, <1>7 DEF G, P
<1>10. CASE k = "props"
  <2> DEFINE ss == [j \in DOMAIN G |-> FlattenSeq(col(j))]
  <2>1. Items(k, P) = FlattenSeq(ss)
    BY <1>10, SameItems DEF Items, ByField
  <2>2. W = 5 /\ \A j \in 1..W : G[j] \in {"id", "fan", "water", "ymop", "repeat"}
    <3>1. G = <<"id", "fan", "water", "ymop", "repeat">>
      BY <1>10 DEF PhoneItems, Kinds
    <3> HIDE DEF G
    <3> QED
      BY <3>1
  <2>3. ASSUME NEW i \in D, NEW j \in 1..W PROVE Len(enc(i, j)) = 1 /\ Len(req(i, j)) = 1
    <3>1. req(i, j) = <<t.items[i][G[j]]>>
      <4>1. \A f \in {"id", "fan", "water", "ymop", "repeat"} : \A v : RequestField(f, v) = <<v>>
        BY DEF RequestField, Words, Coordinates
      <4> QED
        BY <4>1, <2>2
    <3>2. Len(req(i, j)) = 1
      BY <3>1
    <3> QED
      BY <3>2, <1>5, <1>10
  <2>4. D = 1..M
    OBVIOUS
  <2>5. ASSUME NEW j \in 1..W
        PROVE  /\ col(j) \in Seq(Seq(Bytes)) /\ Len(col(j)) = M
               /\ \A i \in 1..M : Len(col(j)[i]) = 1
    <3>1. col(j) \in [1..M -> Seq(Bytes)] /\ \A i \in 1..M : Len(col(j)[i]) = 1
      <4> HIDE DEF enc, G, P, W
      <4> QED
        BY <1>3, <1>5, <2>3, <2>4
    <3> DEFINE r == col(j)
    <3>2. r \in [1..M -> Seq(Bytes)]
      BY <3>1
    <3> HIDE DEF r, M
    <3>3. r \in Seq(Seq(Bytes)) /\ Len(r) = M
      BY <3>2, <1>2
    <3> QED
      BY <3>1, <3>3 DEF r
  <2> HIDE DEF G, P, col, tt, W, M, D, enc, req
  <2>6. ASSUME NEW j \in 1..W PROVE FlattenSeq(col(j)) \in Seq(Bytes) /\ Len(FlattenSeq(col(j))) = M
    <3> DEFINE r == col(j)
    <3>1. r \in Seq(Seq(Bytes)) /\ Len(r) = M /\ \A i \in 1..Len(r) : Len(r[i]) = 1
      BY <2>5
    <3> HIDE DEF r
    <3>2. FlattenSeq(r) \in Seq(Bytes) /\ Len(FlattenSeq(r)) = 1 * Len(r)
      BY <3>1, FlattenEven
    <3> QED
      BY <3>1, <3>2, <1>2 DEF r
  <2>7. ss \in Seq(Seq(Bytes)) /\ Len(ss) = W /\ \A j \in 1..W : Len(ss[j]) = M
    <3>1. ss \in [1..W -> Seq(Bytes)] /\ \A j \in 1..W : Len(ss[j]) = M
      BY <1>1, <2>6
    <3> HIDE DEF ss
    <3> QED
      BY <3>1, <1>1
  <2> HIDE DEF ss
  <2>8. FlattenSeq(ss) \in Seq(Bytes) /\ Len(FlattenSeq(ss)) = M * W
    BY <2>7, <1>2, FlattenEven
  <2>9. ASSUME NEW i \in 1..M PROVE Len(tt[i]) = W
    <3> DEFINE r == Encoded(G, t.items[i])
    <3>1. r \in Seq(Seq(Bytes)) /\ Len(r) = W /\ \A j \in 1..Len(r) : Len(r[j]) = 1
      BY <2>3, <2>4, <1>8
    <3>2. tt[i] = FlattenSeq(r)
      BY <1>6, <2>4
    <3> HIDE DEF r
    <3>3. Len(FlattenSeq(r)) = 1 * Len(r)
      BY <3>1, FlattenEven
    <3> QED
      BY <3>1, <3>2, <3>3, <1>1
  <2>10. Len(FlattenSeq(tt)) = W * M
    BY <1>1, <1>6, <2>9, FlattenEven
  <2>11. W * M = M * W
    BY <1>1, <1>2
  <2> QED
    BY <2>1, <2>8, <2>10, <2>11, <1>7 DEF G, P
<1> QED
  BY <1>9, <1>10

\* The body of a report: bytes, as many as in a request for what is reported.
LEMMA ReportBytes ==
  ASSUME NEW k \in Kinds, NEW t, SettingOK(k, t), t = [head |-> t.head, items |-> t.items],
         NEW u \in Measures(Resolutions), res \in Resolutions
  PROVE  /\ ReportBody(k, Plain(u, k, t)) \in Seq(Bytes)
         /\ k # "names" => Len(ReportBody(k, Plain(u, k, t)))
                             = Len(RequestBody(k, Reportable(k, t)))
<1> DEFINE q == Reportable(k, t)
           a == Head1(Plain(u, k, q), ReportHead[k], LAMBDA f, v : ReportField(k, f, v))
           b == Items(k, Plain(u, k, q))
           c == Head1(q, PhoneHead[k], RequestField)
           d == ByItem(q, PhoneItems[k], RequestField)
<1>1. SettingOK(k, q) /\ Reportable(k, Plain(u, k, t)) = Plain(u, k, q)
  BY ReportablePlain
<1>2. ReportBody(k, Plain(u, k, t)) = a \o b
  BY <1>1, ReportWhole DEF WholeBody
<1>3. RequestBody(k, q) = c \o d
  BY DEF RequestBody
<1> HIDE DEF q
<1>4. a \in Seq(Bytes) /\ Len(a) = Len(c)
  BY <1>1, ReportHeadBytes
<1>5. b \in Seq(Bytes) /\ (k # "names" => Len(b) = Len(d))
  BY <1>1, ReportItemsBytes
<1>6. c \in Seq(Bytes) /\ d \in Seq(Bytes)
  <2>1. PhoneHead[k] \in Seq(FieldNames) /\ PhoneItems[k] \in Seq(FieldNames)
    BY HeadLayout, ItemLayout
  <2>2. /\ FieldsOK(PhoneHead[k], HeadRecord(q, PhoneHead[k])) /\ q.items \in Seq(Range(q.items))
        /\ \A i \in DOMAIN q.items : FieldsOK(PhoneItems[k], q.items[i])
    BY <1>1, SettingFields
  <2>3. c \in Seq(Bytes)
    <3>1. c = FlattenSeq(Encoded(PhoneHead[k], HeadRecord(q, PhoneHead[k])))
      BY <2>1, HeadBytes
    <3>2. FlattenSeq(Encoded(PhoneHead[k], HeadRecord(q, PhoneHead[k]))) \in Seq(Bytes)
      BY <2>1, <2>2, EncodedBytes
    <3> QED
      BY <3>1, <3>2
  <2>4. d \in Seq(Bytes)
    BY <2>1, <2>2, ItemBytes, ItemsBytes, FlattenType
  <2> QED
    BY <2>3, <2>4
<1> HIDE DEF a, b, c, d
<1>7. a \o b \in Seq(Bytes) /\ Len(a \o b) = Len(a) + Len(b) /\ Len(c \o d) = Len(c) + Len(d)
  BY <1>4, <1>5, <1>6, CatSeq
<1> QED
  BY <1>2, <1>3, <1>4, <1>5, <1>7 DEF q

\* A request whose header is single bytes.
ByteHeads == {"wall", "area", "room"}

\* Its length is that of the header and of its items.
LEMMA ByteHeadLen ==
  ASSUME NEW k \in ByteHeads, NEW s, SettingOK(k, s)
  PROVE  /\ ItemsEncoded(PhoneItems[k], s.items) \in Seq(Seq(Bytes))
         /\ Len(ItemsEncoded(PhoneItems[k], s.items)) = Len(s.items) /\ Len(s.items) \in Nat
         /\ Len(RequestBody(k, s)) = (IF k = "room" THEN 2 ELSE 1)
                                     + Len(FlattenSeq(ItemsEncoded(PhoneItems[k], s.items)))
         /\ \A i \in 1..Len(s.items) :
               /\ ItemsEncoded(PhoneItems[k], s.items)[i] = FlattenSeq(Encoded(PhoneItems[k], s.items[i]))
               /\ FieldsOK(PhoneItems[k], s.items[i])
<1> DEFINE L == PhoneHead[k]
           G == PhoneItems[k]
           V == HeadRecord(s, L)
           hh == Encoded(L, V)
           a == FlattenSeq(hh)
           b == FlattenSeq(ItemsEncoded(G, s.items))
           n == IF k = "room" THEN 2 ELSE 1
<1>1. k \in Kinds
  BY DEF Kinds, ByteHeads
<1>2. L \in Seq(FieldNames) /\ G \in Seq(FieldNames)
  BY <1>1, HeadLayout, ItemLayout
<1>3. Len(L) = n /\ \A j \in 1..Len(L) : L[j] \in {"repeat", "count"}
  <2>1. CASE k = "room"
    <3>1. L = <<"repeat", "count">>
      BY <2>1 DEF PhoneHead, Kinds
    <3> HIDE DEF L
    <3> QED
      BY <3>1, <2>1
  <2>2. CASE k # "room"
    <3>1. L = <<"count">>
      BY <2>2, <1>1 DEF PhoneHead, Kinds, ByteHeads
    <3> HIDE DEF L
    <3> QED
      BY <3>1, <2>2
  <2> QED
    BY <2>1, <2>2
<1>4. /\ FieldsOK(L, V) /\ s.items \in Seq(Range(s.items)) /\ Len(s.items) \in Nat
      /\ DOMAIN s.items = 1..Len(s.items) /\ \A i \in DOMAIN s.items : FieldsOK(G, s.items[i])
  BY <1>1, SettingFields
<1>5. RequestBody(k, s) = a \o b
  BY <1>2, HeadBytes, ItemBytes DEF RequestBody
<1> HIDE DEF L, G, V
<1>6. /\ ItemsEncoded(G, s.items) \in Seq(Seq(Bytes)) /\ Len(ItemsEncoded(G, s.items)) = Len(s.items)
      /\ \A i \in 1..Len(s.items) : ItemsEncoded(G, s.items)[i] = FlattenSeq(Encoded(G, s.items[i]))
  BY <1>2, <1>4, ItemsBytes
<1>7. /\ hh \in Seq(Seq(Bytes)) /\ Len(hh) = Len(L)
      /\ \A j \in 1..Len(L) : hh[j] = RequestField(L[j], V[L[j]])
  BY <1>2, <1>4, EncodedBytes
<1>8. \A j \in 1..Len(hh) : Len(hh[j]) = 1
  <2>1. \A f \in {"repeat", "count"} : \A v : RequestField(f, v) = <<v>>
    BY DEF RequestField, Words, Coordinates
  <2>2. \A v : Len(<<v>>) = 1
    OBVIOUS
  <2> QED
    BY <2>1, <2>2, <1>3, <1>7
<1> HIDE DEF hh
<1>9. a \in Seq(Bytes) /\ Len(a) = 1 * Len(hh)
  BY <1>7, <1>8, FlattenEven
<1>10. Len(a) = n
  BY <1>3, <1>7, <1>9
<1>11. b \in Seq(Bytes)
  BY <1>6, FlattenType
<1>12. Len(a \o b) = n + Len(b)
  <2> HIDE DEF a, b, n
  <2>1. Len(a \o b) = Len(a) + Len(b)
    BY <1>9, <1>11, CatSeq
  <2> QED
    BY <2>1, <1>10
<1> QED
  BY <1>4, <1>5, <1>6, <1>12 DEF G

\* A byte for each room, after the repeat count and their number.
LEMMA RoomLen ==
  ASSUME NEW s, SettingOK("room", s)
  PROVE  Len(RequestBody("room", s)) = 2 + Len(s.items) /\ Len(s.items) \in Nat
<1> DEFINE G == PhoneItems["room"]
           tt == ItemsEncoded(G, s.items)
<1>1. /\ tt \in Seq(Seq(Bytes)) /\ Len(tt) = Len(s.items) /\ Len(s.items) \in Nat
      /\ Len(RequestBody("room", s)) = 2 + Len(FlattenSeq(tt))
      /\ \A i \in 1..Len(s.items) : tt[i] = FlattenSeq(Encoded(G, s.items[i])) /\ FieldsOK(G, s.items[i])
  BY ByteHeadLen DEF ByteHeads
<1>2. G = <<"id">>
  BY DEF PhoneItems, Kinds
<1>3. G \in Seq(FieldNames) /\ Len(G) = 1 /\ G[1] = "id"
  BY <1>2 DEF FieldNames
<1> HIDE DEF G
<1>4. ASSUME NEW i \in 1..Len(tt) PROVE Len(tt[i]) = 1
  <2> DEFINE r == Encoded(G, s.items[i])
  <2>1. tt[i] = FlattenSeq(r) /\ FieldsOK(G, s.items[i])
    BY <1>1
  <2>2. r \in Seq(Seq(Bytes)) /\ Len(r) = 1 /\ r[1] = RequestField("id", s.items[i]["id"])
    BY <2>1, <1>3, EncodedBytes
  <2>3. RequestField("id", s.items[i]["id"]) = <<s.items[i]["id"]>>
    BY DEF RequestField, Words, Coordinates
  <2>4. \A j \in 1..Len(r) : Len(r[j]) = 1
    <3>1. Len(r[1]) = 1
      BY <2>2, <2>3
    <3> HIDE DEF r
    <3> QED
      BY <3>1, <2>2
  <2> HIDE DEF r
  <2>5. Len(FlattenSeq(r)) = 1 * Len(r)
    BY <2>2, <2>4, FlattenEven
  <2> QED
    BY <2>1, <2>2, <2>5
<1> HIDE DEF tt
<1>5. Len(FlattenSeq(tt)) = 1 * Len(tt)
  BY <1>1, <1>4, FlattenEven
<1> QED
  BY <1>1, <1>5

\* Ten virtual walls.
LEMMA WallLen ==
  ASSUME NEW s, SettingOK("wall", s), Len(s.items) <= 10
  PROVE  Len(RequestBody("wall", s)) < 255
<1> DEFINE G == PhoneItems["wall"]
           tt == ItemsEncoded(G, s.items)
<1>1. /\ tt \in Seq(Seq(Bytes)) /\ Len(tt) = Len(s.items) /\ Len(s.items) \in Nat
      /\ Len(RequestBody("wall", s)) = 1 + Len(FlattenSeq(tt))
      /\ \A i \in 1..Len(s.items) : tt[i] = FlattenSeq(Encoded(G, s.items[i])) /\ FieldsOK(G, s.items[i])
  BY ByteHeadLen DEF ByteHeads
<1>2. G = <<"x0", "y0", "x1", "y1">>
  BY DEF PhoneItems, Kinds
<1>3. G \in Seq(FieldNames) /\ Len(G) = 4
  BY <1>2 DEF FieldNames
<1>4. \A j \in 1..4 : G[j] \in Words
  <2>1. G[1] = "x0" /\ G[2] = "y0" /\ G[3] = "x1" /\ G[4] = "y1"
    BY <1>2
  <2> HIDE DEF G
  <2> QED
    BY <2>1 DEF Words, Coordinates
<1> HIDE DEF G
<1>5. ASSUME NEW i \in 1..Len(tt) PROVE Len(tt[i]) = 8
  <2> DEFINE r == Encoded(G, s.items[i])
  <2>1. tt[i] = FlattenSeq(r) /\ FieldsOK(G, s.items[i])
    BY <1>1
  <2>2. /\ r \in Seq(Seq(Bytes)) /\ Len(r) = 4
        /\ \A j \in 1..4 : r[j] = RequestField(G[j], s.items[i][G[j]])
    <3>1. /\ r \in Seq(Seq(Bytes)) /\ Len(r) = Len(G)
          /\ \A j \in 1..Len(G) : r[j] = RequestField(G[j], s.items[i][G[j]])
      BY <2>1, <1>3, EncodedBytes
    <3> HIDE DEF r
    <3> QED
      BY <3>1, <1>3
  <2>3. ASSUME NEW j \in 1..4 PROVE Len(r[j]) = 2
    <3>1. FieldOK(G[j], s.items[i][G[j]])
      BY <2>1, <1>3 DEF FieldsOK
    <3>2. s.items[i][G[j]] \in Word /\ RequestField(G[j], s.items[i][G[j]]) = tonb16(s.items[i][G[j]])
      BY <3>1, <1>4 DEF FieldOK, RequestField, Words, Coordinates
    <3> QED
      BY <3>2, <2>2, WordInt, WordBytes
  <2> HIDE DEF r
  <2>4. Len(FlattenSeq(r)) = 2 * Len(r)
    BY <2>2, <2>3, FlattenEven
  <2> QED
    BY <2>1, <2>2, <2>4
<1> HIDE DEF tt
<1>6. Len(FlattenSeq(tt)) = 8 * Len(tt)
  BY <1>1, <1>5, FlattenEven
<1> QED
  BY <1>1, <1>6

\* Fourteen restricted areas of four corners.
LEMMA AreaLen ==
  ASSUME NEW s, SettingOK("area", s), Len(s.items) <= 14,
         \A i \in DOMAIN s.items : Len(s.items[i]["polygon"]) <= 4
  PROVE  Len(RequestBody("area", s)) < 255
<1> DEFINE G == PhoneItems["area"]
           tt == ItemsEncoded(G, s.items)
<1>1. /\ tt \in Seq(Seq(Bytes)) /\ Len(tt) = Len(s.items) /\ Len(s.items) \in Nat
      /\ Len(RequestBody("area", s)) = 1 + Len(FlattenSeq(tt))
      /\ \A i \in 1..Len(s.items) : tt[i] = FlattenSeq(Encoded(G, s.items[i])) /\ FieldsOK(G, s.items[i])
  BY ByteHeadLen DEF ByteHeads
<1>2. G = <<"mode", "polygon">>
  BY DEF PhoneItems, Kinds
<1>3. G \in Seq(FieldNames) /\ Len(G) = 2 /\ G[1] = "mode" /\ G[2] = "polygon"
  BY <1>2 DEF FieldNames
<1>4. DOMAIN s.items = 1..Len(s.items)
  BY SettingFields DEF Kinds
<1> HIDE DEF G
<1>5. ASSUME NEW i \in 1..Len(tt) PROVE Len(tt[i]) <= 18
  <2> DEFINE r == Encoded(G, s.items[i])
             v == s.items[i]["polygon"]
  <2>1. tt[i] = FlattenSeq(r) /\ FieldsOK(G, s.items[i]) /\ Len(v) <= 4
    BY <1>1, <1>4
  <2>2. /\ r \in Seq(Seq(Bytes)) /\ Len(r) = 2
        /\ r[1] = RequestField("mode", s.items[i]["mode"]) /\ r[2] = RequestField("polygon", v)
    <3>1. /\ r \in Seq(Seq(Bytes)) /\ Len(r) = 2
          /\ \A j \in 1..2 : r[j] = RequestField(G[j], s.items[i][G[j]])
      BY <2>1, <1>3, EncodedBytes
    <3>2. r[1] = RequestField(G[1], s.items[i][G[1]]) /\ r[2] = RequestField(G[2], s.items[i][G[2]])
      BY <3>1
    <3> QED
      BY <3>1, <3>2, <1>3
  <2>3. Len(r[1]) = 1
    <3>1. RequestField("mode", s.items[i]["mode"]) = <<s.items[i]["mode"]>>
      BY DEF RequestField, Words, Coordinates
    <3> QED
      BY <3>1, <2>2
  <2>4. FieldOK("polygon", v)
    <3>1. 2 \in DOMAIN G
      BY <1>3
    <3> QED
      BY <3>1, <2>1, <1>3 DEF FieldsOK
  <2>5. v \in Seq(Word \X Word) /\ Len(v) \in Nat
    BY <2>4 DEF FieldOK
  <2> HIDE DEF v, r
  <2>6. v \in Seq(Int \X Int)
    BY <2>5, WordPairs
  <2>7. RequestField("polygon", v) = <<Len(v)>> \o FlattenSeq(Points(v))
    BY DEF RequestField, Points, Words, Coordinates
  <2>8. FlattenSeq(Points(v)) \in Seq(Bytes) /\ Len(FlattenSeq(Points(v))) = 4 * Len(v)
    BY <2>6, PointsBytes
  <2>9. <<Len(v)>> \in Seq(Bytes) /\ Len(<<Len(v)>>) = 1
    <3>1. Len(v) <= 255
      BY <2>1, <2>5
    <3> QED
      BY <3>1, <2>5, OneByte
  <2>10. Len(r[2]) = 1 + 4 * Len(v)
    <3> DEFINE x == <<Len(v)>>
               y == FlattenSeq(Points(v))
    <3>1. x \in Seq(Bytes) /\ y \in Seq(Bytes) /\ Len(x) = 1 /\ Len(y) = 4 * Len(v)
      BY <2>8, <2>9
    <3> HIDE DEF x, y
    <3>2. Len(x \o y) = Len(x) + Len(y)
      BY <3>1, CatSeq
    <3>3. r[2] = x \o y
      BY <2>2, <2>7 DEF x, y
    <3> QED
      BY <3>1, <3>2, <3>3
  <2>11. Len(FlattenSeq(r)) = Len(r[1]) + Len(r[2])
    BY <2>2, FlattenTwo
  <2> QED
    BY <2>1, <2>3, <2>5, <2>10, <2>11
<1> HIDE DEF tt
<1>6. Len(FlattenSeq(tt)) <= 18 * Len(tt)
  BY <1>1, <1>5, FlattenAtMost
<1>7. Len(FlattenSeq(tt)) \in Nat
  <2>1. FlattenSeq(tt) \in Seq(Bytes)
    BY <1>1, FlattenType
  <2> QED
    BY <2>1, LenProperties
<1> QED
  BY <1>1, <1>6, <1>7

\* The inductive invariant behind FrameExact: a report is the frame of bytes that
\* the length byte can count where it should, and only what is accepted is put
\* to the robot.
WellFramed(b) ==
    /\ b \in Seq(Bytes) /\ frame = Frame(ReportCmd[kind], b)
    /\ LengthFits => Len(b) < 255

FrameInv ==
    /\ waits = "set" => Accepted(kind, taken)
    /\ frame # <<>> => kind \in Kinds \cup Commands /\ WellFramed(BodyOf(frame))

\* Clamping changes no length.
LEMMA ClampedLen ==
  ASSUME NEW k \in Kinds, NEW s, SettingOK(k, s)
  PROVE  Len(RequestBody(k, ClampedSetting(k, s))) = Len(RequestBody(k, s))
<1> DEFINE t == ClampedSetting(k, s)
<1>1. t.items = s.items /\ t.head = Clamped(k, s.head)
  BY DEF ClampedSetting
<1>2. SettingOK(k, t)
  BY MeantPlain
<1> HIDE DEF t
<1>3. CASE k = "room"
  BY <1>1, <1>2, <1>3, RoomLen DEF t
<1>4. CASE k # "room"
  <2>1. t.head = s.head
    BY <1>1, <1>4 DEF Clamped
  <2>2. RequestBody(k, t) = RequestBody(k, s)
    BY <1>1, <2>1 DEF RequestBody, Head1, HeadValue, ByItem
  <2> QED
    BY <2>2 DEF t
<1> QED
  BY <1>3, <1>4

\* The report of what was taken.
LEMMA TakenFits ==
  ASSUME RawInv, FrameInv, waits = "set"
  PROVE  /\ ReportBody(kind, taken) \in Seq(Bytes)
         /\ LengthFits => Len(ReportBody(kind, taken)) < 255
         /\ kind \in Kinds /\ asked # NoSetting /\ kind \notin Commands
<1> DEFINE t == ClampedSetting(kind, asked)
           q == Reportable(kind, t)
           b == ReportBody(kind, taken)
<1>0. /\ kind \in Kinds /\ asked \in Settings[kind] /\ res \in Resolutions
      /\ \E u \in Measures(scale) : taken = Meant(u, kind, asked)
      /\ Measures(scale) \subseteq Measures(Resolutions)
  BY MeasuresGrow DEF RawInv, MeantInv, WaitInv
<1>1. PICK u \in Measures(Resolutions) :
        /\ kind \in Kinds /\ asked \in Settings[kind] /\ taken = Meant(u, kind, asked)
        /\ res \in Resolutions
  BY <1>0
<1>2. SettingOK(kind, asked) /\ asked # NoSetting
  BY <1>1, SettingsAssumption
<1>3. SettingOK(kind, t) /\ taken = Plain(u, kind, t)
  BY <1>1, <1>2, MeantPlain
<1>4. t = [head |-> t.head, items |-> t.items] /\ t.items = asked.items
  BY DEF ClampedSetting
<1>5. Len(RequestBody(kind, t)) = Len(RequestBody(kind, asked))
  BY <1>1, <1>2, ClampedLen
<1>6. Len(asked.items) \in Nat
  BY <1>1, <1>2, SettingFields
<1>7. Len(taken.items) = Len(asked.items)
  BY <1>1, <1>6 DEF Meant
<1>8. kind \notin Commands
  BY <1>1 DEF Kinds, Commands
<1> HIDE DEF t
<1>9. /\ SettingOK(kind, q)
      /\ kind = "wall" => Len(q.items) <= 10
      /\ kind # "wall" => q = t
  BY <1>1, <1>3, <1>4, ReportablePlain
<1>10. b \in Seq(Bytes) /\ (kind # "names" => Len(b) = Len(RequestBody(kind, q)))
  BY <1>1, <1>3, <1>4, ReportBytes
<1> HIDE DEF q, b
<1>11. CASE kind = "wall"
  BY <1>2, <1>8, <1>9, <1>10, <1>11, WallLen DEF b, Kinds
<1>12. CASE kind = "area" /\ \A i \in DOMAIN asked.items : Len(asked.items[i]["polygon"]) <= 4
  <2>1. Len(asked.items) <= 14
    BY <1>7, <1>12 DEF FrameInv, Accepted
  <2>2. Len(RequestBody("area", t)) < 255
    BY <2>1, <1>3, <1>4, <1>12, AreaLen
  <2> QED
    BY <2>2, <1>1, <1>2, <1>8, <1>9, <1>10, <1>12 DEF b
<1>13. CASE kind # "wall" /\ ~(kind = "area" /\ \A i \in DOMAIN asked.items : Len(asked.items[i]["polygon"]) <= 4)
  <2>1. LengthFits => kind # "names" /\ Len(RequestBody(kind, asked)) < 255
    BY <1>2, <1>8, <1>13 DEF LengthFits
  <2> QED
    BY <2>1, <1>1, <1>2, <1>5, <1>8, <1>9, <1>10, <1>13 DEF b
<1> QED
  BY <1>11, <1>12, <1>13

\* The answer to a query.
LEMMA QueryFits ==
  ASSUME RawInv, AnswerQuery, frame' # <<>>
  PROVE  (kind \in Kinds \cup Commands)' /\ WellFramed(BodyOf(frame))'
<1> DEFINE h == held[Slot(kind)]
           form == Form(kind, h)
           b == ReportBody(form, h)
<1>1. frame' = Frame(ReportCmd[kind], b) /\ kind' = kind /\ asked' = asked /\ held' = held /\ h # NoSetting
  BY DEF AnswerQuery
<1>2. /\ kind \in {"room", "spot", "spot1"} /\ res \in Resolutions /\ asked = NoSetting
      /\ HeldFrom({"spot", "spot1"}, held["spot"]) /\ HeldFrom({"room"}, held["room"])
  BY DEF AnswerQuery, RawInv, WaitInv, HeldInv
<1>3. LengthFits' => (kind = "room" => Len(held["room"].items) <= 252)
  BY <1>1, <1>2 DEF LengthFits, Commands
<1>4. b \in Seq(Bytes) /\ (LengthFits' => Len(b) < 255)
  <2>1. CASE kind = "room"
    <3>1. h = held["room"] /\ form = "room"
      BY <2>1 DEF Slot, Form
    <3>2. b = RequestBody("room", held["room"]) /\ b \in Seq(Bytes)
      BY <3>1, <1>1, <1>2, RoomBody
    <3>3. SettingOK("room", held["room"])
      BY <3>1, <1>1, <1>2, HeldRoom
    <3>4. Len(RequestBody("room", held["room"])) = 2 + Len(held["room"].items) /\ Len(held["room"].items) \in Nat
      BY <3>3, RoomLen
    <3> HIDE DEF b
    <3> QED
      BY <3>2, <3>4, <1>3, <2>1
  <2>2. CASE kind # "room"
    <3>1. h = held["spot"] /\ kind \in {"spot", "spot1"}
      BY <1>2, <2>2 DEF Slot
    <3>2. SpotOK(h)
      BY <3>1, <1>1, <1>2, HeldSpot
    <3>3. form \in {"spot", "spot1"} /\ (form = "spot1" => "version" \in DOMAIN h.head)
      BY <3>1 DEF Form
    <3> HIDE DEF h, form
    <3>4. b \in Seq(Bytes) /\ Len(b) = IF form = "spot1" THEN 9 ELSE 4
      BY <3>2, <3>3, <1>2, SpotBody
    <3> HIDE DEF b
    <3> QED
      BY <3>4
  <2> QED
    BY <2>1, <2>2
<1> HIDE DEF b
<1>5. BodyOf(frame') = b
  BY <1>1, <1>4, FrameParts, ZenonT(30)
<1>6. WellFramed(BodyOf(frame))'
  BY <1>1, <1>4, <1>5 DEF WellFramed
<1> QED
  BY <1>1, <1>2, <1>6 DEF Kinds

\* Every action keeps FrameInv.
LEMMA FrameInvNext == RawInv /\ FrameInv /\ [RawNext]_rawVars => FrameInv'
<1> SUFFICES ASSUME RawInv, FrameInv, [RawNext]_rawVars PROVE FrameInv'
  OBVIOUS
<1>1. ASSUME NEW k \in Kinds, NEW s \in Settings[k], NEW ms \in Arrivals, Set(k, s, ms) PROVE FrameInv'
  <2>1. frame' = <<>> /\ kind' = k /\ (waits' = "set" => Accepted(k, taken'))
    BY <1>1 DEF Set, NewRequest
  <2> QED
    BY <2>1 DEF FrameInv, Accepted
<1>2. ASSUME NEW c \in Commands, Command(c) PROVE FrameInv'
  BY <1>2 DEF Command, NewRequest, FrameInv
<1>3. ASSUME NEW k \in {"room", "spot", "spot1"}, Query(k) PROVE FrameInv'
  BY <1>3 DEF Query, NewRequest, FrameInv
<1>4. CASE AnswerSet
  <2> DEFINE b == ReportBody(kind, taken)
  <2>1. /\ b \in Seq(Bytes) /\ (LengthFits => Len(b) < 255)
        /\ kind \in Kinds /\ asked # NoSetting /\ kind \notin Commands
    BY <1>4, TakenFits DEF AnswerSet
  <2>2. frame' = Frame(ReportCmd[kind], b) /\ kind' = kind /\ asked' = asked /\ waits' = "idle"
    BY <1>4 DEF AnswerSet, Report
  <2>3. LengthFits' => LengthFits
    BY <2>1, <2>2 DEF LengthFits
  <2> HIDE DEF b
  <2>4. BodyOf(frame') = b
    BY <2>1, <2>2, FrameParts
  <2>5. WellFramed(BodyOf(frame))'
    BY <2>1, <2>2, <2>3, <2>4 DEF WellFramed
  <2> QED
    BY <2>1, <2>2, <2>5 DEF FrameInv
<1>5. CASE AnswerCommand
  <2>1. kind \in Commands /\ kind' = kind /\ waits' = "idle"
    BY <1>5 DEF AnswerCommand, RawInv, WaitInv
  <2>2. frame' = <<>> \/ \E r \in {0, 1} : frame' = Frame(ReportCmd[kind], <<r>>)
    BY <1>5 DEF AnswerCommand
  <2>3. ASSUME NEW r \in {0, 1}, frame' = Frame(ReportCmd[kind], <<r>>)
        PROVE  WellFramed(BodyOf(frame))'
    <3>1. <<r>> \in Seq(Bytes) /\ Len(<<r>>) = 1
      BY OneByte
    <3>2. BodyOf(frame') = <<r>>
      BY <3>1, <2>3, FrameParts
    <3> QED
      BY <3>1, <3>2, <2>1, <2>3 DEF WellFramed
  <2> QED
    BY <2>1, <2>2, <2>3 DEF FrameInv
<1>6. CASE AnswerQuery
  <2>1. waits' = "idle"
    BY <1>6 DEF AnswerQuery
  <2> QED
    BY <2>1, <1>6, QueryFits DEF FrameInv
<1>7. CASE RobotSilent
  <2>1. frame' = <<>> /\ waits' = "idle"
    BY <1>7 DEF RobotSilent, RawInv, WaitInv
  <2> QED
    BY <2>1 DEF FrameInv
<1>8. ASSUME NEW r \in Resolutions, OnMap(r) PROVE FrameInv'
  <2>1. /\ waits' = waits /\ kind' = kind /\ taken' = taken /\ held' = held
        /\ frame' = frame /\ asked' = asked
    BY <1>8 DEF OnMap
  <2>2. RequestBody(kind, asked)' = RequestBody(kind, asked)
    BY <2>1
  <2> QED
    BY <2>1, <2>2 DEF FrameInv, WellFramed, LengthFits
<1>9. CASE UNCHANGED rawVars
  <2>1. /\ waits' = waits /\ kind' = kind /\ taken' = taken /\ held' = held
        /\ frame' = frame /\ asked' = asked
    BY <1>9 DEF rawVars
  <2> QED
    BY <2>1 DEF FrameInv, WellFramed, LengthFits
<1> QED
  BY <1>1, <1>2, <1>3, <1>4, <1>5, <1>6, <1>7, <1>8, <1>9 DEF RawNext

\* The commands are bytes.
LEMMA CommandByte ==
  ASSUME NEW k \in Kinds \cup Commands
  PROVE  ReportCmd[k] \in Bytes
<1>0. \A n \in 0..255 : n \in Bytes
  BY DEF Bytes
<1>1. CASE k = "wall"
  BY <1>0, <1>1 DEF ReportCmd, Kinds, Commands
<1>2. CASE k = "area"
  BY <1>0, <1>2 DEF ReportCmd, Kinds, Commands
<1>3. CASE k = "areaNamed"
  BY <1>0, <1>3 DEF ReportCmd, Kinds, Commands
<1>4. CASE k = "areaTyped"
  BY <1>0, <1>4 DEF ReportCmd, Kinds, Commands
<1>5. CASE k = "zone"
  BY <1>0, <1>5 DEF ReportCmd, Kinds, Commands
<1>6. CASE k = "zoneNamed"
  BY <1>0, <1>6 DEF ReportCmd, Kinds, Commands
<1>7. CASE k = "room"
  BY <1>0, <1>7 DEF ReportCmd, Kinds, Commands
<1>8. CASE k = "spot"
  BY <1>0, <1>8 DEF ReportCmd, Kinds, Commands
<1>9. CASE k = "spot1"
  BY <1>0, <1>9 DEF ReportCmd, Kinds, Commands
<1>10. CASE k = "order"
  BY <1>0, <1>10 DEF ReportCmd, Kinds, Commands
<1>11. CASE k = "alert"
  BY <1>0, <1>11 DEF ReportCmd, Kinds, Commands
<1>12. CASE k = "dnd"
  BY <1>0, <1>12 DEF ReportCmd, Kinds, Commands
<1>13. CASE k = "dnd1"
  BY <1>0, <1>13 DEF ReportCmd, Kinds, Commands
<1>14. CASE k = "props"
  BY <1>0, <1>14 DEF ReportCmd, Kinds, Commands
<1>15. CASE k = "names"
  BY <1>0, <1>15 DEF ReportCmd, Kinds, Commands
<1>16. CASE k = "split"
  BY <1>0, <1>16 DEF ReportCmd, Kinds, Commands
<1>17. CASE k = "merge"
  BY <1>0, <1>17 DEF ReportCmd, Kinds, Commands
<1>18. CASE k = "restore"
  BY <1>0, <1>18 DEF ReportCmd, Kinds, Commands
<1>19. CASE k = "mapping"
  BY <1>0, <1>19 DEF ReportCmd, Kinds, Commands
<1>20. CASE k = "reset"
  BY <1>0, <1>20 DEF ReportCmd, Kinds, Commands
<1> QED
  BY <1>1, <1>2, <1>3, <1>4, <1>5, <1>6, <1>7, <1>8, <1>9, <1>10,
     <1>11, <1>12, <1>13, <1>14, <1>15, <1>16, <1>17, <1>18, <1>19, <1>20 DEF Kinds, Commands

\* A frame of at most 254 bytes in its body says its own length and sum.
LEMMA FramedIsExact ==
  ASSUME FrameInv
  PROVE  FrameExact
<1> SUFFICES ASSUME frame # <<>>, LengthFits
             PROVE  /\ Len(frame) = frame[3] + 4
                    /\ frame[Len(frame)] = SumBytes(SubSeq(frame, 4, Len(frame) - 1))
                    /\ \A n \in DOMAIN frame : frame[n] \in Bytes
  BY DEF FrameExact
<1> DEFINE b == BodyOf(frame)
           cmd == ReportCmd[kind]
           N == Len(b)
<1>1. b \in Seq(Bytes) /\ frame = Frame(cmd, b) /\ N < 255 /\ cmd \in Bytes
  BY CommandByte DEF FrameInv, WellFramed
<1> HIDE DEF b, cmd
<1>2. N \in Nat
  BY <1>1
<1>3. /\ Len(frame) = N + 5
      /\ frame[1] = 170 /\ frame[2] = 0 /\ frame[3] = LengthByte(b) /\ frame[4] = cmd
      /\ frame[N + 5] = Checksum(cmd, b)
      /\ \A j \in 1..N : frame[j + 4] = b[j]
      /\ SubSeq(frame, 4, N + 4) = <<cmd>> \o b
  BY <1>1, FrameParts
<1>4. LengthByte(b) = N + 1
  BY <1>1, <1>2 DEF LengthByte, Byte
<1>5. <<cmd>> \o b \in Seq(Bytes)
  <2>1. <<cmd>> \in Seq(Bytes)
    BY <1>1
  <2> QED
    BY <2>1, <1>1, CatSeq
<1>6. Checksum(cmd, b) = SumBytes(<<cmd>> \o b) /\ SumBytes(<<cmd>> \o b) \in Bytes
  BY <1>5, SumIsByte DEF Checksum
<1>7. DOMAIN frame = 1..(N + 5)
  <2>1. frame \in Seq(Bytes \cup {LengthByte(b), Checksum(cmd, b)})
    <3> DEFINE S == Bytes \cup {LengthByte(b), Checksum(cmd, b)}
               x == <<170, 0, LengthByte(b), cmd>>
               y == <<Checksum(cmd, b)>>
    <3>1. x \in Seq(S) /\ y \in Seq(S) /\ b \in Seq(S)
      <4>1. 170 \in S /\ 0 \in S /\ LengthByte(b) \in S /\ cmd \in S /\ Checksum(cmd, b) \in S
        BY <1>1 DEF Bytes
      <4>2. b \in Seq(S)
        BY <1>1, SeqMonotonic
      <4> HIDE DEF S
      <4> QED
        BY <4>1, <4>2
    <3>2. frame = x \o b \o y
      BY <1>1 DEF Frame
    <3> HIDE DEF S, x, y
    <3>3. x \o b \in Seq(S)
      BY <3>1, CatSeq
    <3>4. (x \o b) \o y \in Seq(S)
      BY <3>1, <3>3, CatSeq
    <3> QED
      BY <3>2, <3>4 DEF S
  <2> QED
    BY <2>1, <1>3, LenProperties
<1> HIDE DEF N
<1>8. ASSUME NEW n \in 1..(N + 5) PROVE frame[n] \in Bytes
  <2>1. CASE n \in 1..4
    <3>1. 170 \in Bytes /\ 0 \in Bytes /\ N + 1 \in Bytes
      BY <1>1, <1>2 DEF Bytes
    <3>2. n = 1 \/ n = 2 \/ n = 3 \/ n = 4
      BY <2>1
    <3> QED
      BY <3>1, <3>2, <1>1, <1>3, <1>4
  <2>2. CASE n \in 5..(N + 4)
    <3>1. n - 4 \in 1..N /\ (n - 4) + 4 = n
      BY <2>2, <1>2
    <3>2. b[n - 4] \in Bytes
      BY <3>1, <1>1 DEF N
    <3>3. frame[(n - 4) + 4] = b[n - 4]
      BY <3>1, <1>3
    <3> QED
      BY <3>1, <3>2, <3>3
  <2>3. CASE n = N + 5
    BY <2>3, <1>3, <1>6
  <2> QED
    BY <2>1, <2>2, <2>3, <1>2
<1>9. Len(frame) = frame[3] + 4
  BY <1>2, <1>3, <1>4
<1>10. frame[Len(frame)] = SumBytes(SubSeq(frame, 4, Len(frame) - 1))
  <2>1. Len(frame) - 1 = N + 4
    BY <1>2, <1>3
  <2> QED
    BY <2>1, <1>3, <1>6
<1> QED
  BY <1>7, <1>8, <1>9, <1>10

\* For all settings and resolutions, every report whose length byte can say how
\* long it is says so, ends in the checksum of its command and body, and is bytes.
THEOREM FramesExact == RawSpec => []FrameExact
<1>1. RawInit => FrameInv
  BY DEF RawInit, FrameInv
<1> QED
  BY <1>1, RawInvariant, FrameInvNext, FramedIsExact, PTL DEF RawSpec

=============================================================================
