-------------------------- MODULE MergeDriver_proofs --------------------------
(***************************************************************************)
(* What the merge driver does to %A, for texts of any length.              *)
(***************************************************************************)
EXTENDS MergeDriver, TLAPS

(* Changing line endings gives texts.                                       *)
LEMMA TextFacts ==
  ASSUME NEW t \in Texts
  PROVE  /\ Strip(t) \in Texts /\ AddCr(t) \in Texts
         /\ \A r \in Regions :
              /\ t[r].body \in Bodies /\ t[r].other \in Bodies \cup {NoBody} /\ t[r].cr \in 0 .. 2
              /\ Strip(t)[r].body = t[r].body /\ Strip(t)[r].other = t[r].other
              /\ Strip(t)[r].cr = IF t[r].cr = 0 THEN 0 ELSE t[r].cr - 1
              /\ AddCr(t)[r].body = t[r].body /\ AddCr(t)[r].other = t[r].other
              /\ AddCr(t)[r].cr = IF t[r].cr < 2 THEN t[r].cr + 1 ELSE t[r].cr
<1>1. \A r \in Regions : t[r] \in Lines
  BY DEF Texts
<1>2. \A r \in Regions : t[r].body \in Bodies /\ t[r].other \in Bodies \cup {NoBody} /\ t[r].cr \in 0 .. 2
  BY <1>1 DEF Lines
<1>4. \A r \in Regions :
        LET k == Strip(t)[r] IN
        /\ k \in Lines /\ k.body = t[r].body /\ k.other = t[r].other
        /\ k.cr = IF t[r].cr = 0 THEN 0 ELSE t[r].cr - 1
  <2> SUFFICES ASSUME NEW r \in Regions
               PROVE  LET k == Strip(t)[r] IN
                      /\ k \in Lines /\ k.body = t[r].body /\ k.other = t[r].other
                      /\ k.cr = IF t[r].cr = 0 THEN 0 ELSE t[r].cr - 1
    OBVIOUS
  <2> DEFINE c == IF t[r].cr = 0 THEN 0 ELSE t[r].cr - 1
  <2>1. c \in 0 .. 2
    BY <1>2
  <2>2. Strip(t)[r] = [t[r] EXCEPT !.cr = c]
    BY DEF Strip
  <2> HIDE DEF c
  <2>3. Strip(t)[r] \in Lines /\ Strip(t)[r].body = t[r].body /\ Strip(t)[r].other = t[r].other
        /\ Strip(t)[r].cr = c
    BY <1>1, <2>1, <2>2 DEF Lines
  <2>. QED BY <2>3 DEF c
<1>5. \A r \in Regions :
        LET k == AddCr(t)[r] IN
        /\ k \in Lines /\ k.body = t[r].body /\ k.other = t[r].other
        /\ k.cr = IF t[r].cr < 2 THEN t[r].cr + 1 ELSE t[r].cr
  <2> SUFFICES ASSUME NEW r \in Regions
               PROVE  LET k == AddCr(t)[r] IN
                      /\ k \in Lines /\ k.body = t[r].body /\ k.other = t[r].other
                      /\ k.cr = IF t[r].cr < 2 THEN t[r].cr + 1 ELSE t[r].cr
    OBVIOUS
  <2> DEFINE c == IF t[r].cr < 2 THEN t[r].cr + 1 ELSE t[r].cr
  <2>1. c \in 0 .. 2
    BY <1>2
  <2>2. AddCr(t)[r] = [t[r] EXCEPT !.cr = c]
    BY DEF AddCr
  <2> HIDE DEF c
  <2>3. AddCr(t)[r] \in Lines /\ AddCr(t)[r].body = t[r].body /\ AddCr(t)[r].other = t[r].other
        /\ AddCr(t)[r].cr = c
    BY <1>1, <2>1, <2>2 DEF Lines
  <2>. QED BY <2>3 DEF c
<1>6. Strip(t) \in Texts
  BY <1>4 DEF Strip, Texts
<1>7. AddCr(t) \in Texts
  BY <1>5 DEF AddCr, Texts
<1>. QED BY <1>2, <1>4, <1>5, <1>6, <1>7

(* A merge of texts is a text.                                              *)
LEMMA MergedText ==
  ASSUME NEW x \in [Sides -> Texts],
         \A s \in Sides : \A r \in Regions : x[s][r].other = NoBody
  PROVE  Merged(x) \in Texts
<1>1. ASSUME NEW r \in Regions
      PROVE  ThreeWay(x["base"][r], x["ours"][r], x["theirs"][r]) \in Lines
  <2>1. x["base"][r] \in Lines /\ x["ours"][r] \in Lines /\ x["theirs"][r] \in Lines
    BY DEF Sides, Texts
  <2>. QED BY <2>1 DEF ThreeWay, Lines
<1>. QED BY <1>1 DEF Merged, Texts

(* What is left when git finds no conflict is the merge of both sides.      *)
LEMMA CleanMerge ==
  ASSUME MergeType, input \in [Sides -> Versions], \A s \in Sides : input[s] \notin Specials,
         ~InConflict(Merged(Stripped)),
         NEW result, result = IF UsesCrlf(input["ours"]) THEN AddCr(Strip(Merged(Stripped)))
                                                         ELSE Strip(Merged(Stripped))
  PROVE  result \in Wanted
<1> DEFINE M == Merged(Stripped)
<1>1. \A s \in Sides : input[s] \in Texts /\ \A r \in Regions : input[s][r].other = NoBody
  BY MergeType
<1>2. /\ Stripped \in [Sides -> Texts]
      /\ \A s \in Sides : \A r \in Regions :
           /\ Stripped[s][r].other = NoBody /\ Stripped[s][r].body = input[s][r].body
           /\ Stripped[s][r].cr \in {0, 1}
  BY <1>1, TextFacts DEF Stripped
<1>3. M \in Texts
  BY <1>2, MergedText
<1>4. ASSUME NEW r \in Regions
      PROVE  LET b == input["base"][r].body
                 o == input["ours"][r].body
                 t == input["theirs"][r].body
             IN ~Apart(b, o, t) /\ M[r].body = ThreeWayBody(b, o, t)
                /\ M[r].other = NoBody /\ M[r].cr \in {0, 1}
  <2> DEFINE b == Stripped["base"][r]
             o == Stripped["ours"][r]
             t == Stripped["theirs"][r]
  <2>1. M[r] = ThreeWay(b, o, t)
    BY DEF Merged
  <2>2. M[r].other = NoBody
    BY DEF InConflict
  <2>3. /\ b.body = input["base"][r].body /\ o.body = input["ours"][r].body
        /\ t.body = input["theirs"][r].body /\ t.body \in Bodies
        /\ o.other = NoBody /\ t.other = NoBody /\ o.cr \in {0, 1} /\ t.cr \in {0, 1}
    BY <1>1, <1>2, TextFacts DEF Sides
  <2> HIDE DEF b, o, t, M
  <2>4. CASE o = t \/ t = b
    BY <2>1, <2>2, <2>3, <2>4 DEF ThreeWay, ThreeWayBody, Apart
  <2>5. CASE o # t /\ t # b /\ o = b
    BY <2>1, <2>2, <2>3, <2>5 DEF ThreeWay, ThreeWayBody, Apart
  <2>6. CASE o # t /\ t # b /\ o # b
    <3>1. M[r].other = t.body
      BY <2>1, <2>6 DEF ThreeWay
    <3>. QED BY <2>2, <2>3, <3>1, MergeType
  <2>. QED BY <2>4, <2>5, <2>6
<1> HIDE DEF M
<1>5. /\ Strip(M) \in Texts
      /\ \A r \in Regions : /\ Strip(M)[r].body = M[r].body /\ Strip(M)[r].other = NoBody
                            /\ Strip(M)[r].cr = 0
  BY <1>3, <1>4, TextFacts
<1>6. /\ result \in Texts
      /\ \A r \in Regions : /\ result[r].body = M[r].body /\ result[r].other = NoBody
                            /\ result[r].cr = IF UsesCrlf(input["ours"]) THEN 1 ELSE 0
  BY <1>5, TextFacts DEF M
<1> DEFINE w == [r \in Regions |->
          [body |-> ThreeWayBody(input["base"][r].body, input["ours"][r].body,
                                 input["theirs"][r].body),
           other |-> NoBody, cr |-> IF UsesCrlf(input["ours"]) THEN 1 ELSE 0]]
<1>7. \A r \in Regions : result[r] = w[r]
  <2> SUFFICES ASSUME NEW r \in Regions PROVE result[r] = w[r]
    OBVIOUS
  <2>1. result[r] = [body |-> result[r].body, other |-> result[r].other, cr |-> result[r].cr]
    BY <1>6 DEF Texts, Lines
  <2>. QED BY <1>4, <1>6, <2>1
<1>8. result = w
  BY <1>6, <1>7 DEF Texts
<1>. QED BY <1>4, <1>8 DEF Wanted

(* The invariant holds before the driver starts.                            *)
LEMMA InitIInv == Init => IInv
BY MergeType DEF Init, IInv, TypeOK, StepInv, Sides, Specials

(* Every way to fail keeps the invariant.                                   *)
LEMMA FailKeeps == IInv /\ Fail /\ UNCHANGED given /\ disturbed' \in BOOLEAN /\ pc # "done"
                   => IInv'
<1> SUFFICES ASSUME IInv, Fail, UNCHANGED given, disturbed' \in BOOLEAN, pc # "done" PROVE IInv'
  OBVIOUS
<1>1. TypeOK'
  BY DEF IInv, TypeOK, Fail, given
<1>2. exit' = "conflict" /\ pc' = "done"
  BY DEF Fail
<1>3. StepInv'
  BY <1>2 DEF StepInv
<1>. QED BY <1>1, <1>3 DEF IInv

(* Beginning and decryption.                                                *)
LEMMA BeginKeeps ==
  ASSUME IInv, (\E locked \in BOOLEAN : Start(locked)) \/ (\E s \in Sides : Decrypt(s))
  PROVE  IInv'
<1>1. ASSUME NEW locked \in BOOLEAN, Start(locked) PROVE IInv'
  <2>1. CASE locked /\ Fail /\ disturbed' = TRUE
    BY <1>1, <2>1, FailKeeps DEF Start
  <2>2. CASE ~locked /\ pc' = "base"
             /\ UNCHANGED <<temp, crlf, marked, status, sealed, target, exit, disturbed>>
    <3>1. TypeOK'
      BY <1>1, <2>2 DEF Start, given, IInv, TypeOK, Sides
    <3>2. \A s \in Sides : temp[s] \in {NoFile, input[s]} \ {Foreign}
      BY <1>1 DEF Start, IInv, StepInv
    <3>3. StepInv'
      BY <1>1, <2>2, <3>2, MergeType DEF Start, given, IInv, StepInv, Wanted
    <3>. QED BY <3>1, <3>3 DEF IInv
  <2>. QED BY <1>1, <2>1, <2>2 DEF Start
<1>2. ASSUME NEW s \in Sides, Decrypt(s) PROVE IInv'
  <2>1. pc = s /\ pc \in Sides /\ UNCHANGED <<given, disturbed>>
    BY <1>2 DEF Decrypt
  <2>2. CASE input[s] = Foreign /\ Fail
    BY <2>1, <2>2, FailKeeps DEF IInv, TypeOK, Sides
  <2>3. CASE /\ input[s] # Foreign /\ temp' = [temp EXCEPT ![s] = input[s]] /\ pc' = After(s)
             /\ UNCHANGED <<crlf, marked, status, sealed, target, exit>>
    <3>1. After(s) \in {"ours", "theirs", "inspect"}
      BY DEF After, Sides
    <3>2. input[s] \in Texts \cup Specials
      BY MergeType DEF IInv, TypeOK
    <3>3. TypeOK'
      BY <2>1, <2>3, <3>1, <3>2 DEF given, IInv, TypeOK, Sides
    <3>4. \A q \in Sides : temp'[q] \in {NoFile, input[q]} \ {Foreign}
      BY <2>1, <2>3 DEF IInv, TypeOK, StepInv, Sides
    <3>5. target = Old /\ exit = Running
      BY <2>1 DEF IInv, StepInv, Sides
    <3>6. StepInv'
      BY <2>1, <2>3, <3>1, <3>4, <3>5, MergeType DEF given, StepInv
    <3>. QED BY <3>3, <3>6 DEF IInv
  <2>. QED BY <1>2, <2>2, <2>3 DEF Decrypt
<1>. QED BY <1>1, <1>2

(* Guards and line endings.                                                 *)
LEMMA InspectKeeps == ASSUME IInv, Inspect PROVE IInv'
<1>1. pc = "inspect" /\ UNCHANGED <<given, disturbed>>
  BY DEF Inspect
<1>2. CASE Fail
  BY <1>1, <1>2, FailKeeps DEF IInv, TypeOK
<1>3. CASE ~Fail
  <2>1. /\ \A s \in Sides : temp[s] \notin {NoFile, Large, Binary}
        /\ crlf' = UsesCrlf(temp["ours"])
        /\ temp' = [s \in Sides |-> Strip(temp[s])]
        /\ marked' = HasMarkers(Strip(temp["base"]))
        /\ pc' = "merge"
        /\ UNCHANGED <<status, sealed, target, exit>>
    BY <1>3 DEF Inspect
  <2>2. \A s \in Sides : temp[s] = input[s]
    BY <1>1, <2>1 DEF IInv, StepInv
  <2>3. \A s \in Sides : input[s] \notin Specials /\ input[s] \in Texts
    BY <1>1, <2>1, <2>2, MergeType DEF IInv, TypeOK, StepInv, Specials
  <2>. QED
    <3>1. temp' = Stripped
      BY <2>1, <2>2 DEF Stripped
    <3>2. temp' \in [Sides -> Texts \cup Specials \cup {NoFile}]
      BY <2>2, <2>3, <3>1, TextFacts DEF Stripped
    <3>3. crlf' \in BOOLEAN /\ marked' \in BOOLEAN
      BY <2>1 DEF UsesCrlf, HasMarkers
    <3>4. TypeOK'
      BY <1>1, <2>1, <3>2, <3>3 DEF given, IInv, TypeOK
    <3>5. Stripped' = Stripped /\ target = Old /\ exit = Running
      BY <1>1 DEF given, Stripped, IInv, StepInv
    <3>6. crlf' = UsesCrlf(input["ours"])
      BY <2>1, <2>2 DEF Sides
    <3>7. StepInv'
      BY <1>1, <2>1, <2>3, <3>1, <3>5, <3>6, MergeType DEF given, StepInv
    <3>. QED BY <3>4, <3>7 DEF IInv
<1>. QED BY <1>2, <1>3

(* git merge-file, and its death.                                           *)
LEMMA MergeKeeps ==
  ASSUME IInv, MergeFile \/ (\E n \in Regions : MergeFileDies(n)) PROVE IInv'
<1>1. /\ pc = "merge" /\ UNCHANGED given /\ target = Old /\ exit = Running
      /\ crlf = UsesCrlf(input["ours"])
      /\ \A s \in Sides : temp[s] \in {NoFile, Stripped[s]} /\ input[s] \notin Specials
  BY DEF MergeFile, MergeFileDies, IInv, StepInv
<1>2. CASE Fail /\ disturbed' = TRUE
  BY <1>1, <1>2, FailKeeps
<1>3. \A s \in Sides : input[s] \in Texts /\ \A r \in Regions : input[s][r].other = NoBody
  BY <1>1, MergeType DEF IInv, TypeOK
<1>4. /\ Stripped \in [Sides -> Texts]
      /\ \A s \in Sides : \A r \in Regions : Stripped[s][r].other = NoBody
  BY <1>3, TextFacts DEF Stripped
<1>5. Merged(Stripped) \in Texts
  BY <1>4, MergedText
<1>6. ASSUME Present PROVE temp = Stripped
  <2>1. \A s \in Sides : temp[s] = Stripped[s]
    BY <1>1, <1>6 DEF Present
  <2>. QED BY <2>1 DEF IInv, TypeOK, Stripped
<1>7. Stripped' = Stripped
  BY <1>1 DEF given, Stripped
<1>8. CASE /\ Present
           /\ temp' = [temp EXCEPT !["ours"] = Merged(temp)]
           /\ status' = ~InConflict(Merged(temp)) /\ pc' = "judge"
           /\ UNCHANGED <<crlf, marked, sealed, target, exit, disturbed>>
  <2>1. temp = Stripped /\ temp'["ours"] = Merged(Stripped)
    BY <1>6, <1>8 DEF IInv, TypeOK, Sides
  <2>2. TypeOK'
    BY <1>1, <1>5, <1>8, <2>1 DEF given, IInv, TypeOK, InConflict
  <2>3. StepInv'
    BY <1>1, <1>5, <1>7, <1>8, <2>1, MergeType DEF given, StepInv
  <2>. QED BY <2>2, <2>3 DEF IInv
<1>9. CASE /\ ~Present
           /\ status' = FALSE /\ pc' = "judge"
           /\ UNCHANGED <<temp, crlf, marked, sealed, target, exit, disturbed>>
  <2>1. temp["ours"] \in Texts \cup {NoFile}
    BY <1>1, <1>4 DEF Sides
  <2>2. TypeOK'
    BY <1>1, <1>9 DEF given, IInv, TypeOK
  <2>3. StepInv'
    BY <1>1, <1>9, <2>1, MergeType DEF given, StepInv
  <2>. QED BY <2>2, <2>3 DEF IInv
<1>10. ASSUME NEW n \in Regions, MergeFileDies(n) PROVE IInv'
  <2> DEFINE torn == [r \in Regions |-> IF r < n THEN Merged(temp)[r] ELSE EmptyLine]
  <2>1. torn \in Texts
    <3>1. EmptyLine \in Lines
      BY MergeType DEF EmptyLine, Lines
    <3>2. \A r \in Regions : Merged(temp)[r] \in Lines
      BY <1>5, <1>6, <1>10 DEF MergeFileDies, Texts
    <3>. QED BY <3>1, <3>2 DEF Texts
  <2> HIDE DEF torn
  <2>2. /\ temp' = [temp EXCEPT !["ours"] = torn] /\ status' = FALSE /\ pc' = "judge"
        /\ disturbed' = TRUE /\ UNCHANGED <<crlf, marked, sealed, target, exit>>
    BY <1>10 DEF MergeFileDies, torn
  <2>3. temp'["ours"] = torn
    BY <2>2 DEF IInv, TypeOK, Sides
  <2>4. TypeOK'
    BY <1>1, <2>1, <2>2 DEF given, IInv, TypeOK
  <2>5. StepInv'
    BY <1>1, <2>1, <2>2, <2>3, MergeType DEF given, StepInv
  <2>. QED BY <2>4, <2>5 DEF IInv
<1>. QED BY <1>2, <1>8, <1>9, <1>10 DEF MergeFile

(* The verdict.                                                             *)
LEMMA JudgeKeeps == ASSUME IInv, Judge PROVE IInv'
<1> DEFINE stripped == Strip(temp["ours"])
           result == IF crlf THEN AddCr(stripped) ELSE stripped
<1>1. pc = "judge" /\ UNCHANGED <<given, disturbed>> /\ target = Old /\ exit = Running
      /\ crlf = UsesCrlf(input["ours"]) /\ \A s \in Sides : input[s] \notin Specials
  BY DEF Judge, IInv, StepInv
<1>2. CASE Fail
  BY <1>1, <1>2, FailKeeps DEF IInv, TypeOK
<1>3. CASE ~Fail
  <2>1. /\ temp["ours"] # NoFile
        /\ temp' = [temp EXCEPT !["ours"] = result]
        /\ status' = (status /\ (~HasMarkers(result) \/ marked))
        /\ pc' = "seal"
        /\ UNCHANGED <<crlf, marked, sealed, target, exit>>
    BY <1>3 DEF Judge
  <2>2. temp["ours"] \in Texts
    BY <1>1, <2>1 DEF IInv, StepInv
  <2>3. result \in Texts
    BY <2>2, TextFacts
  <2>4. ASSUME status PROVE result \in Wanted
    <3>1. temp["ours"] = Merged(Stripped) /\ ~InConflict(Merged(Stripped))
      BY <1>1, <2>1, <2>4 DEF IInv, StepInv
    <3>. QED BY <1>1, <3>1, CleanMerge, MergeType DEF IInv, TypeOK
  <2> HIDE DEF result, stripped
  <2>5. temp'["ours"] = result
    BY <2>1 DEF IInv, TypeOK, Sides
  <2>6. status' \in BOOLEAN
    BY <2>1 DEF IInv, TypeOK, HasMarkers
  <2>7. TypeOK'
    BY <1>1, <2>1, <2>3, <2>6 DEF given, IInv, TypeOK
  <2>8. Wanted' = Wanted
    BY <1>1 DEF given, Wanted
  <2>9. status' => status
    BY <2>1
  <2>10. StepInv'
    BY <1>1, <2>1, <2>3, <2>4, <2>5, <2>8, <2>9, MergeType DEF given, StepInv
  <2>. QED BY <2>7, <2>10 DEF IInv
<1>. QED BY <1>2, <1>3

(* Encryption, the rename and the exit.                                     *)
LEMMA EndKeeps == ASSUME IInv, Seal \/ ReplaceTarget \/ Return PROVE IInv'
<1>1. UNCHANGED given /\ pc \in {"seal", "replace", "return"} /\ Wanted' = Wanted
  BY DEF Seal, ReplaceTarget, Return, given, Wanted
<1>2. CASE Fail
  BY <1>1, <1>2, FailKeeps DEF Seal, ReplaceTarget, Return, IInv, TypeOK
<1>3. CASE Seal /\ ~Fail
  <2>1. /\ pc = "seal" /\ temp["ours"] # NoFile /\ sealed' = temp["ours"] /\ pc' = "replace"
        /\ UNCHANGED <<temp, crlf, marked, status, target, exit, disturbed>>
    BY <1>3 DEF Seal
  <2>2. temp["ours"] \in Texts /\ (status => temp["ours"] \in Wanted)
    BY <2>1 DEF IInv, StepInv
  <2>3. TypeOK'
    BY <1>1, <2>1, <2>2 DEF given, IInv, TypeOK
  <2>4. StepInv'
    BY <1>1, <2>1, <2>2 DEF given, IInv, StepInv
  <2>. QED BY <2>3, <2>4 DEF IInv
<1>4. CASE ReplaceTarget /\ ~Fail
  <2>1. /\ pc = "replace" /\ target' = sealed /\ pc' = "return"
        /\ UNCHANGED <<temp, crlf, marked, status, sealed, exit, disturbed>>
    BY <1>4 DEF ReplaceTarget
  <2>2. sealed \in Texts /\ (status => sealed \in Wanted)
    BY <2>1 DEF IInv, StepInv
  <2>3. TypeOK'
    BY <1>1, <2>1, <2>2 DEF given, IInv, TypeOK
  <2>4. StepInv'
    BY <1>1, <2>1, <2>2, MergeType DEF given, IInv, StepInv
  <2>. QED BY <2>3, <2>4 DEF IInv
<1>5. CASE Return
  <2>1. /\ pc = "return" /\ pc' = "done" /\ temp' = [s \in Sides |-> NoFile]
        /\ exit' = IF status THEN "merged" ELSE "conflict"
        /\ UNCHANGED <<crlf, marked, status, sealed, target, disturbed>>
    BY <1>5 DEF Return
  <2>2. status => target \in Wanted
    BY <2>1 DEF IInv, StepInv
  <2>3. TypeOK'
    BY <1>1, <2>1 DEF given, IInv, TypeOK
  <2>4. StepInv'
    BY <1>1, <2>1, <2>2 DEF StepInv
  <2>. QED BY <2>3, <2>4 DEF IInv
<1>. QED BY <1>2, <1>3, <1>4, <1>5

(* A kill, and a sweep at any moment.                                       *)
LEMMA DisturbedKeeps ==
  ASSUME IInv, Kill \/ (\E s \in Sides : Sweep(s)) PROVE IInv'
<1>1. CASE Kill
  <2>1. TypeOK'
    BY <1>1 DEF Kill, given, IInv, TypeOK
  <2>2. exit' = "killed" /\ pc' = "done"
    BY <1>1 DEF Kill
  <2>3. StepInv'
    BY <2>2 DEF StepInv
  <2>. QED BY <2>1, <2>3 DEF IInv
<1>2. ASSUME NEW s \in Sides, Sweep(s) PROVE IInv'
  <2>1. /\ temp' = [temp EXCEPT ![s] = NoFile] /\ disturbed' = TRUE
        /\ UNCHANGED <<input, wide, pc, crlf, marked, status, sealed, target, exit>>
    BY <1>2 DEF Sweep, given
  <2>2. Wanted' = Wanted /\ Stripped' = Stripped
    BY <2>1 DEF Wanted, Stripped
  <2>3. \A q \in Sides : temp'[q] \in {NoFile, temp[q]}
    BY <2>1 DEF IInv, TypeOK
  <2>4. TypeOK'
    BY <2>1 DEF IInv, TypeOK
  <2>5. "ours" \in Sides
    BY DEF Sides
  <2>7. NoFile # Foreign
    BY MergeType DEF Specials
  <2>6. StepInv'
    BY <2>1, <2>2, <2>3, <2>5, <2>7 DEF IInv, StepInv
  <2>. QED BY <2>4, <2>6 DEF IInv
<1>. QED BY <1>1, <1>2

(* Every step keeps the invariant.                                          *)
LEMMA NextIInv == IInv /\ [Next]_vars => IInv'
<1> SUFFICES ASSUME IInv, [Next]_vars PROVE IInv'
  OBVIOUS
<1>1. CASE UNCHANGED vars
  BY <1>1 DEF vars, IInv, TypeOK, StepInv, Wanted, Stripped
<1>2. CASE Next
  BY <1>2, BeginKeeps, InspectKeeps, MergeKeeps, JudgeKeeps, EndKeeps, DisturbedKeeps DEF Next
<1>. QED BY <1>1, <1>2

(* The inductive invariant.                                                 *)
THEOREM Invariance == Spec => []IInv
<1>. QED BY InitIInv, NextIInv, PTL DEF Spec

(* At first nothing has been replaced.                                      *)
LEMMA InitRefines == Init => Abs!Init
<1> SUFFICES ASSUME Init PROVE Abs!Init
  OBVIOUS
<1>1. Wanted \subseteq Texts
  <2>1. ASSUME NEW w \in Wanted PROVE w \in Texts
    <3>1. \A s \in Sides : input[s] \in Texts
      BY <2>1, MergeType DEF Init, Wanted
    <3>2. \A s \in Sides : \A r \in Regions : input[s][r].body \in Bodies
      BY <3>1, TextFacts
    <3>3. \A r \in Regions :
            [body |-> ThreeWayBody(input["base"][r].body, input["ours"][r].body,
                                   input["theirs"][r].body),
             other |-> NoBody, cr |-> IF UsesCrlf(input["ours"]) THEN 1 ELSE 0] \in Lines
      BY <3>2 DEF Sides, ThreeWayBody, Lines
    <3>. QED BY <2>1, <3>3 DEF Wanted, Texts
  <2>. QED BY <2>1
<1>. QED BY <1>1 DEF Init, Abs!Init

(* Every step is a step of the atomic merge, or none.                       *)
LEMMA StepRefines == IInv /\ [Next]_vars => [Abs!Next]_Abs!vars
<1> SUFFICES ASSUME IInv, [Next]_vars PROVE [Abs!Next]_Abs!vars
  OBVIOUS
<1>1. UNCHANGED input /\ Wanted' = Wanted
  <2>1. UNCHANGED input
    BY DEF Next, vars, given, Start, Decrypt, Inspect, MergeFile, MergeFileDies, Judge, Seal,
           ReplaceTarget, Return, Kill, Sweep
  <2>. QED BY <2>1 DEF Wanted
<1>2. CASE Fail /\ pc # "done"
  <2>1. exit = Running /\ exit' = "conflict" /\ target' = target
    BY <1>2 DEF Fail, IInv, StepInv
  <2>. QED BY <1>1, <2>1 DEF Abs!Next, Abs!Refuse
<1>3. CASE UNCHANGED <<target, exit>>
  BY <1>1, <1>3 DEF Abs!vars
<1>4. CASE ReplaceTarget /\ ~Fail
  <2>1. pc = "replace" /\ target' = sealed /\ exit' = exit
    BY <1>4 DEF ReplaceTarget
  <2>2. exit = Running /\ target = Old /\ sealed \in Texts
    BY <2>1 DEF IInv, StepInv
  <2>. QED BY <1>1, <2>1, <2>2 DEF Abs!Next, Abs!Replace
<1>5. CASE Return
  <2>1. pc = "return" /\ target' = target /\ exit' = IF status THEN "merged" ELSE "conflict"
    BY <1>5 DEF Return
  <2>2. exit = Running /\ (status => target \in Wanted)
    BY <2>1 DEF IInv, StepInv
  <2>. QED BY <1>1, <2>1, <2>2 DEF Abs!Next, Abs!Succeed, Abs!Refuse
<1>6. CASE Kill
  <2>1. exit = Running /\ exit' = "killed" /\ target' = target
    BY <1>6 DEF Kill, IInv, StepInv
  <2>. QED BY <1>1, <2>1 DEF Abs!Next, Abs!Refuse
<1>7. CASE \E locked \in BOOLEAN : Start(locked)
  BY <1>2, <1>3, <1>7 DEF Start
<1>8. CASE \E s \in Sides : Decrypt(s) \/ Sweep(s)
  BY <1>2, <1>3, <1>8 DEF Decrypt, Sweep, Sides
<1>9. CASE Inspect
  BY <1>2, <1>3, <1>9 DEF Inspect
<1>10. CASE MergeFile \/ \E n \in Regions : MergeFileDies(n)
  BY <1>2, <1>3, <1>10 DEF MergeFile, MergeFileDies
<1>11. CASE Judge
  BY <1>2, <1>3, <1>11 DEF Judge
<1>12. CASE Seal
  BY <1>2, <1>3, <1>12 DEF Seal
<1>13. CASE ReplaceTarget
  BY <1>2, <1>4, <1>13 DEF ReplaceTarget
<1>14. CASE UNCHANGED vars
  BY <1>3, <1>14 DEF vars
<1>. QED BY <1>5, <1>6, <1>7, <1>8, <1>9, <1>10, <1>11, <1>12, <1>13, <1>14 DEF Next

(* Whatever is swept and whoever dies, %A is the old file or one complete   *)
(* result, and success means that it merges both sides (merge.rs:155-366).  *)
THEOREM Refinement == Spec => ImplementsAtomicMerge
<1>. QED BY Invariance, InitRefines, StepRefines, PTL DEF Spec, ImplementsAtomicMerge, Abs!Spec

(* When simple texts agree there is no conflict, no marker and no byte that *)
(* is not UTF-8 at any stage of the merge.                                  *)
LEMMA SmoothMerge ==
  ASSUME IInv, Agreeing
  PROVE  /\ \A s \in Sides : input[s] \in Texts /\ input[s] \notin Specials
         /\ ~Unreadable(Stripped["base"])
         /\ ~InConflict(Merged(Stripped))
         /\ LET stripped == Strip(Merged(Stripped))
                result == IF UsesCrlf(input["ours"]) THEN AddCr(stripped) ELSE stripped
            IN ~Unreadable(result) /\ ~HasMarkers(result)
<1>1. \A s \in Sides :
        /\ input[s] \in Texts /\ input[s] \notin Specials
        /\ \A r \in Regions : input[s][r].other = NoBody
  BY MergeType DEF IInv, TypeOK, Agreeing, Simple
<1>2. \A s \in Sides : \A r \in Regions :
        input[s][r].body \notin {Markers, Latin} /\ input[s][r].cr \in {0, 1}
  BY <1>1, TextFacts DEF Agreeing, Simple
<1>3. /\ Stripped \in [Sides -> Texts]
      /\ \A s \in Sides : \A r \in Regions :
           /\ Stripped[s][r].other = NoBody /\ Stripped[s][r].body = input[s][r].body
           /\ Stripped[s][r].cr = 0
  BY <1>1, <1>2, TextFacts DEF Stripped
<1>4. NoBody \notin {Markers, Latin}
  BY MergeType
<1>5. ~Unreadable(Stripped["base"])
  BY <1>2, <1>3, <1>4 DEF Unreadable, HasLatin, Sides
<1> DEFINE M == Merged(Stripped)
<1>6. M \in Texts
  BY <1>3, MergedText
<1>7. \A r \in Regions : ~Apart(input["base"][r].body, input["ours"][r].body, input["theirs"][r].body)
  BY <1>1 DEF Agreeing, Wanted
<1>8. ASSUME NEW r \in Regions PROVE M[r].other = NoBody /\ M[r].body \notin {Markers, Latin}
  <2> DEFINE b == Stripped["base"][r]
             o == Stripped["ours"][r]
             t == Stripped["theirs"][r]
  <2>1. M[r] = ThreeWay(b, o, t)
    BY DEF Merged
  <2>2. /\ b \in Lines /\ o \in Lines /\ t \in Lines
        /\ b.other = NoBody /\ o.other = NoBody /\ t.other = NoBody
        /\ b.cr = 0 /\ o.cr = 0 /\ t.cr = 0
        /\ ~Apart(b.body, o.body, t.body)
        /\ o.body \notin {Markers, Latin} /\ t.body \notin {Markers, Latin}
    BY <1>2, <1>3, <1>7 DEF Texts, Sides
  <2> HIDE DEF b, o, t, M
  <2>3. /\ b = [body |-> b.body, other |-> NoBody, cr |-> 0]
        /\ o = [body |-> o.body, other |-> NoBody, cr |-> 0]
        /\ t = [body |-> t.body, other |-> NoBody, cr |-> 0]
    BY <2>2 DEF Lines
  <2>4. o = t \/ t = b \/ o = b
    BY <2>2, <2>3 DEF Apart
  <2>5. M[r] \in {o, t}
    BY <2>1, <2>4 DEF ThreeWay
  <2>. QED BY <2>2, <2>5
<1> HIDE DEF M
<1>9. ~InConflict(M)
  BY <1>8 DEF InConflict
<1> DEFINE stripped == Strip(M)
           result == IF UsesCrlf(input["ours"]) THEN AddCr(stripped) ELSE stripped
<1>10. \A r \in Regions : stripped[r].other = NoBody /\ stripped[r].body \notin {Markers, Latin}
  BY <1>6, <1>8, TextFacts
<1>11. stripped \in Texts
  BY <1>6, TextFacts
<1> HIDE DEF stripped
<1>12. \A r \in Regions : result[r].other = NoBody /\ result[r].body \notin {Markers, Latin}
  BY <1>10, <1>11, TextFacts
<1>13. ~Unreadable(result) /\ ~HasMarkers(result)
  BY <1>4, <1>12 DEF Unreadable, HasMarkers, HasLatin, Shows
<1>. QED BY <1>1, <1>5, <1>9, <1>13 DEF M, stripped

(* Nothing but a disturbance turns such a merge into a conflict.            *)
LEMMA SmoothStep == IInv /\ IInv' /\ SmoothInv /\ [Next]_vars => SmoothInv'
<1> SUFFICES ASSUME IInv, IInv', SmoothInv, [Next]_vars, Agreeing' PROVE SmoothInv'
  BY DEF SmoothInv
<1>1. UNCHANGED input /\ Wanted' = Wanted /\ Stripped' = Stripped /\ Agreeing /\ ~disturbed'
  <2>1. UNCHANGED input
    BY DEF Next, vars, given, Start, Decrypt, Inspect, MergeFile, MergeFileDies, Judge, Seal,
           ReplaceTarget, Return, Kill, Sweep
  <2>2. disturbed => disturbed'
    BY DEF Next, vars, given, Start, Decrypt, Inspect, MergeFile, MergeFileDies, Judge, Seal,
           ReplaceTarget, Return, Kill, Sweep
  <2>. QED BY <2>1, <2>2 DEF Agreeing, Wanted, Stripped
<1>2. /\ exit # "conflict"
      /\ pc \in {"ours", "theirs", "inspect"} => temp["base"] = input["base"]
      /\ pc \in {"theirs", "inspect"} => temp["ours"] = input["ours"]
      /\ pc = "inspect" => temp["theirs"] = input["theirs"]
      /\ pc = "merge" => temp = Stripped
      /\ pc = "judge" => temp["ours"] = Merged(Stripped)
      /\ pc = "seal" => temp["ours"] # NoFile
      /\ pc \in {"judge", "seal", "replace", "return"} => status
  BY <1>1 DEF SmoothInv
<1>3. /\ \A s \in Sides : input[s] \in Texts /\ input[s] \notin Specials
      /\ ~Unreadable(Stripped["base"])
      /\ ~InConflict(Merged(Stripped))
      /\ Stripped["base"] = Strip(input["base"])
  BY <1>1, SmoothMerge DEF Stripped, Sides
<1>4. CASE UNCHANGED vars
  BY <1>1, <1>2, <1>4 DEF vars, SmoothInv
<1>5. CASE \E locked \in BOOLEAN : Start(locked)
  <2>1. pc' = "base" /\ exit' = exit
    BY <1>1, <1>5 DEF Start
  <2>. QED BY <1>2, <2>1 DEF SmoothInv
<1>6. ASSUME NEW s \in Sides, Decrypt(s) PROVE SmoothInv'
  <2>1. /\ pc = s /\ temp' = [temp EXCEPT ![s] = input[s]] /\ pc' = After(s) /\ exit' = exit
    BY <1>3, <1>6 DEF Decrypt, Specials
  <2>2. temp'[s] = input[s] /\ \A q \in Sides : q # s => temp'[q] = temp[q]
    BY <2>1 DEF IInv, TypeOK
  <2>3. CASE s = "base"
    BY <1>1, <1>2, <2>1, <2>2, <2>3 DEF SmoothInv, After, Sides
  <2>4. CASE s = "ours"
    BY <1>1, <1>2, <2>1, <2>2, <2>4 DEF SmoothInv, After, Sides
  <2>5. CASE s = "theirs"
    BY <1>1, <1>2, <2>1, <2>2, <2>5 DEF SmoothInv, After, Sides
  <2>. QED BY <2>3, <2>4, <2>5 DEF Sides
<1>7. CASE Inspect
  <2>1. pc = "inspect" /\ \A s \in Sides : temp[s] = input[s]
    BY <1>2, <1>7 DEF Inspect, Sides
  <2>2. \A s \in Sides : temp[s] \notin {NoFile, Large, Binary}
    BY <1>3, <2>1, MergeType DEF Specials
  <2>3. /\ temp' = [s \in Sides |-> Strip(temp[s])] /\ pc' = "merge" /\ exit' = exit
    BY <1>3, <1>7, <2>1, <2>2 DEF Inspect, Sides
  <2>4. temp' = Stripped
    BY <2>1, <2>3 DEF Stripped
  <2>. QED BY <1>1, <1>2, <2>3, <2>4 DEF SmoothInv
<1>8. CASE MergeFile \/ \E n \in Regions : MergeFileDies(n)
  <2>1. pc = "merge" /\ temp = Stripped
    BY <1>2, <1>8 DEF MergeFile, MergeFileDies
  <2>2. Stripped \in [Sides -> Texts]
    BY <1>3, TextFacts DEF Stripped
  <2>3. Present
    BY <2>1, <2>2, MergeType DEF Present
  <2>4. /\ temp' = [temp EXCEPT !["ours"] = Merged(temp)]
        /\ status' = ~InConflict(Merged(temp)) /\ pc' = "judge" /\ exit' = exit
    BY <1>1, <1>8, <2>3 DEF MergeFile, MergeFileDies
  <2>5. temp'["ours"] = Merged(Stripped) /\ status'
    BY <1>3, <2>1, <2>2, <2>4 DEF Sides
  <2>. QED BY <1>1, <1>2, <2>4, <2>5 DEF SmoothInv
<1>9. CASE Judge
  <2> DEFINE stripped == Strip(temp["ours"])
             result == IF crlf THEN AddCr(stripped) ELSE stripped
  <2>1. pc = "judge" /\ temp["ours"] = Merged(Stripped) /\ status /\ crlf = UsesCrlf(input["ours"])
    BY <1>2, <1>9 DEF Judge, IInv, StepInv
  <2>2. ~Unreadable(result) /\ ~HasMarkers(result)
    BY <1>1, <2>1, SmoothMerge
  <2>3. temp["ours"] # NoFile
    <3>1. Stripped \in [Sides -> Texts] /\ \A s \in Sides : \A r \in Regions : Stripped[s][r].other = NoBody
      BY <1>3, TextFacts, MergeType DEF Stripped, IInv, TypeOK
    <3>. QED BY <2>1, <3>1, MergedText, MergeType
  <2>4. /\ temp' = [temp EXCEPT !["ours"] = result]
        /\ status' = (status /\ (~HasMarkers(result) \/ marked))
        /\ pc' = "seal" /\ exit' = exit
    BY <1>9, <2>2, <2>3 DEF Judge
  <2>5. result \in Texts
    <3>1. temp["ours"] \in Texts
      BY <2>1, <2>3 DEF IInv, StepInv
    <3>. QED BY <3>1, TextFacts
  <2> HIDE DEF result, stripped
  <2>6. temp'["ours"] = result /\ status'
    BY <2>1, <2>2, <2>4 DEF IInv, TypeOK, Sides
  <2>. QED BY <1>1, <1>2, <2>4, <2>5, <2>6, MergeType DEF SmoothInv
<1>10. CASE Seal
  <2>1. pc' = "replace" /\ exit' = exit /\ status' /\ pc = "seal"
    BY <1>2, <1>10 DEF Seal, Fail
  <2>. QED BY <1>2, <2>1 DEF SmoothInv
<1>11. CASE ReplaceTarget
  <2>1. pc' = "return" /\ exit' = exit /\ status'
    BY <1>1, <1>2, <1>11 DEF ReplaceTarget
  <2>. QED BY <1>2, <2>1 DEF SmoothInv
<1>12. CASE Return
  <2>1. pc' = "done" /\ exit' = "merged"
    BY <1>2, <1>12 DEF Return
  <2>. QED BY <2>1 DEF SmoothInv
<1>13. CASE Kill \/ \E s \in Sides : Sweep(s)
  BY <1>1, <1>13 DEF Kill, Sweep
<1>. QED BY <1>4, <1>5, <1>6, <1>7, <1>8, <1>9, <1>10, <1>11, <1>12, <1>13 DEF Next

(* Line endings alone never make a conflict (merge.rs:205).                 *)
THEOREM LineEndings == Spec => []NoFalseConflict
<1>1. Init => SmoothInv
  BY MergeType DEF Init, SmoothInv
<1>2. SmoothInv => NoFalseConflict
  BY DEF SmoothInv, Agreeing, NoFalseConflict
<1>. QED BY <1>1, <1>2, Invariance, SmoothStep, PTL DEF Spec
=============================================================================
