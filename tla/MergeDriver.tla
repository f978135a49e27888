----------------------------- MODULE MergeDriver -----------------------------
(***************************************************************************)
(* git-agecrypt merge: three versions of a secret are decrypted to files in*)
(* merge-spool, freed of CRLF, merged by git merge-file, and the result is *)
(* encrypted into a file that replaces %A.                                 *)
(*                                                                         *)
(* The driver holds no lock.  The startup recovery of any other command    *)
(* removes the temporary files under the state directory, those of a       *)
(* running driver too, and the driver or git can be killed at any step.    *)
(*                                                                         *)
(* A text is its regions: what git merges as a unit, in order.  A region is*)
(* what it says and the carriage returns before its line feeds.            *)
(***************************************************************************)
EXTENDS Naturals

CONSTANTS
  N,        \* regions of a text
  InHead,   \* the first so many are within the first 64 KiB
  Bodies,   \* what a region says
  Empty,    \* nothing
  Markers,  \* a set of conflict markers somebody committed
  Latin,    \* not UTF-8
  NoBody,   \* no second version
  Foreign, Binary, Large,  \* a version that does not open, is not text, has > 32 MiB
  Versions, \* the versions of the secret
  NoFile, Old, Running

Regions == 1 .. N
Sides == {"base", "ours", "theirs"}
Specials == {Foreign, Binary, Large}

(* other: the second version of a region in conflict.                       *)
Lines == [body : Bodies, other : Bodies \cup {NoBody}, cr : 0 .. 2]
Texts == [Regions -> Lines]
EmptyLine == [body |-> Empty, other |-> NoBody, cr |-> 0]

(* No line has more than two carriage returns.                              *)
ASSUME MergeType ==
  /\ N \in Nat /\ InHead \in 0 .. N 
  /\ {Empty, Markers, Latin} \subseteq Bodies /\ NoBody \notin Bodies
  /\ Versions \subseteq {t \in Texts : \A r \in Regions : t[r].other = NoBody} \cup Specials
  /\ Specials \cap Texts = {} /\ NoFile \notin Texts \cup Specials /\ Old \notin Texts
  /\ Running \notin {"merged", "conflict", "killed"}

VARIABLES
  input,      \* %O, %A and %B as git wrote them
  wide,       \* git asked for markers longer than usual (%L)
  pc,         \* the driver's next step
  temp,       \* its files in merge-spool
  crlf,       \* ours has CRLF
  marked,     \* the base has conflict markers
  status,     \* git merge-file found no conflict; later, the merge is clean
  sealed,     \* the file to replace %A
  target,     \* %A
  exit,       \* what git learns
  disturbed   \* history: a file was swept, or a step failed

vars == <<input, wide, pc, temp, crlf, marked, status, sealed, target, exit, disturbed>>
given == <<input, wide>>

Init ==
  /\ input \in [Sides -> Versions] /\ wide \in BOOLEAN
  /\ pc = "start" /\ temp = [s \in Sides |-> NoFile]
  /\ crlf = FALSE /\ marked = FALSE /\ status = FALSE
  /\ sealed = NoFile /\ target = Old /\ exit = Running /\ disturbed = FALSE

-----------------------------------------------------------------------------
(* strip_cr_in_place: CRLF becomes LF, once.                                *)
Strip(t) == [r \in Regions |-> [t[r] EXCEPT !.cr = IF @ = 0 THEN 0 ELSE @ - 1]]

(* convert_lf_to_crlf_in_place                                              *)
AddCr(t) == [r \in Regions |-> [t[r] EXCEPT !.cr = IF @ < 2 THEN @ + 1 ELSE @]]

(* detect_crlf looks at the first 64 KiB.                                   *)
UsesCrlf(t) == \E r \in 1 .. InHead : t[r].cr > 0

(* file_contains_conflict_markers sees markers of the usual size, and fails *)
(* at the first line that is not UTF-8 unless it has seen them before.      *)
Shows(l) == Markers \in {l.body, l.other} \/ (l.other # NoBody /\ ~wide)
HasLatin(l) == Latin \in {l.body, l.other}
HasMarkers(t) == \E r \in Regions : Shows(t[r]) /\ \A q \in 1 .. r : ~HasLatin(t[q])
Unreadable(t) == \E r \in Regions : HasLatin(t[r]) /\ \A q \in 1 .. r - 1 : ~Shows(t[q])

(* git merge-file on one region, and on the whole.                          *)
ThreeWay(b, o, t) ==
  IF o = t \/ t = b THEN o
  ELSE IF o = b THEN t
  ELSE [body |-> o.body, other |-> t.body, cr |-> o.cr]
Merged(x) == [r \in Regions |-> ThreeWay(x["base"][r], x["ours"][r], x["theirs"][r])]
InConflict(t) == \E r \in Regions : t[r].other # NoBody

Present == \A s \in Sides : temp[s] # NoFile

-----------------------------------------------------------------------------
(* Every error makes the process end with 1; its temporary files go.        *)
Fail ==
  /\ pc' = "done" /\ exit' = "conflict" /\ temp' = [s \in Sides |-> NoFile]
  /\ UNCHANGED <<crlf, marked, status, sealed, target>>

(* cmd_merge reads the key, refreshed if it is stale.  locked: there is     *)
(* none, or the repository has a format it does not support.                *)
Start(locked) ==
  /\ pc = "start"
  /\ \/ locked /\ Fail /\ disturbed' = TRUE
     \/ /\ ~locked /\ pc' = "base"
        /\ UNCHANGED <<temp, crlf, marked, status, sealed, target, exit, disturbed>>
  /\ UNCHANGED given

(* decrypt_to_temp, one version after the other.                            *)
After(s) == CASE s = "base" -> "ours" [] s = "ours" -> "theirs" [] s = "theirs" -> "inspect"

Decrypt(s) ==
  /\ pc = s
  /\ \/ input[s] = Foreign /\ Fail
     \/ /\ input[s] # Foreign
        /\ temp' = [temp EXCEPT ![s] = input[s]] /\ pc' = After(s)
        /\ UNCHANGED <<crlf, marked, status, sealed, target, exit>>
  /\ UNCHANGED <<given, disturbed>>

(* Mutant: theirs keeps its line endings.                                   *)
InspectTwo ==
  /\ pc = "inspect"
  /\ \/ /\ \/ ~Present
           \/ \E s \in Sides : temp[s] \in {Large, Binary}
           \/ Present /\ temp["base"] \in Texts /\ Unreadable(Strip(temp["base"]))
        /\ Fail
     \/ /\ \A s \in Sides : temp[s] \notin {NoFile, Large, Binary}
        /\ ~Unreadable(Strip(temp["base"]))
        /\ crlf' = UsesCrlf(temp["ours"])
        /\ temp' = [s \in Sides |-> IF s = "theirs" THEN temp[s] ELSE Strip(temp[s])]
        /\ marked' = HasMarkers(Strip(temp["base"]))
        /\ pc' = "merge"
        /\ UNCHANGED <<status, sealed, target, exit>>
  /\ UNCHANGED <<given, disturbed>>

(* The guards on size and content, the line endings, and whether the base   *)
(* has markers.                                                             *)
Inspect ==
  /\ pc = "inspect"
  /\ \/ /\ \/ \E s \in Sides : temp[s] \in {NoFile, Large, Binary}
           \/ temp["base"] \in Texts /\ Unreadable(Strip(temp["base"]))
        /\ Fail
     \/ /\ \A s \in Sides : temp[s] \notin {NoFile, Large, Binary}
        /\ ~Unreadable(Strip(temp["base"]))
        /\ crlf' = UsesCrlf(temp["ours"])
        /\ temp' = [s \in Sides |-> Strip(temp[s])]
        /\ marked' = HasMarkers(Strip(temp["base"]))
        /\ pc' = "merge"
        /\ UNCHANGED <<status, sealed, target, exit>>
  /\ UNCHANGED <<given, disturbed>>

(* git merge-file reads three files and writes the merge over ours.  It     *)
(* fails without one of them, and cannot be started at all at times.        *)
MergeFile ==
  /\ pc = "merge"
  /\ \/ /\ Present
        /\ temp' = [temp EXCEPT !["ours"] = Merged(temp)]
        /\ status' = ~InConflict(Merged(temp)) /\ pc' = "judge"
        /\ UNCHANGED <<crlf, marked, sealed, target, exit, disturbed>>
     \/ /\ ~Present
        /\ status' = FALSE /\ pc' = "judge"
        /\ UNCHANGED <<temp, crlf, marked, sealed, target, exit, disturbed>>
     \/ Fail /\ disturbed' = TRUE
  /\ UNCHANGED given

(* Git is killed while it writes: the exit code is taken for 1.             *)
MergeFileDies(n) ==
  /\ pc = "merge" /\ Present
  /\ temp' = [temp EXCEPT !["ours"] =
                [r \in Regions |-> IF r < n THEN Merged(temp)[r] ELSE EmptyLine]]
  /\ status' = FALSE /\ pc' = "judge" /\ disturbed' = TRUE
  /\ UNCHANGED <<given, crlf, marked, sealed, target, exit>>

(* Mutant: the exit code of git merge-file counts only without markers.     *)
JudgeByMarkers ==
  LET stripped == Strip(temp["ours"])
      result == IF crlf THEN AddCr(stripped) ELSE stripped
  IN
  /\ pc = "judge"
  /\ \/ (temp["ours"] = NoFile \/ (temp["ours"] # NoFile /\ Unreadable(result))) /\ Fail
     \/ /\ temp["ours"] # NoFile /\ ~Unreadable(result)
        /\ temp' = [temp EXCEPT !["ours"] = result]
        /\ status' = (~HasMarkers(result) \/ marked)
        /\ pc' = "seal"
        /\ UNCHANGED <<crlf, marked, sealed, target, exit>>
  /\ UNCHANGED <<given, disturbed>>

(* The line endings of ours come back, and markers that the base does not   *)
(* have make it a conflict.  A clean merge may still print a warning about  *)
(* keys with two values, which changes nothing.                             *)
Judge ==
  LET stripped == Strip(temp["ours"])
      result == IF crlf THEN AddCr(stripped) ELSE stripped
  IN
  /\ pc = "judge"
  /\ \/ temp["ours"] = NoFile /\ Fail
     \/ temp["ours"] # NoFile /\ Unreadable(result) /\ Fail
     \/ /\ temp["ours"] # NoFile /\ ~Unreadable(result)
        /\ temp' = [temp EXCEPT !["ours"] = result]
        /\ status' = (status /\ (~HasMarkers(result) \/ marked))
        /\ pc' = "seal"
        /\ UNCHANGED <<crlf, marked, sealed, target, exit>>
  /\ UNCHANGED <<given, disturbed>>

(* The result is encrypted to a new file beside %A and synchronised.        *)
Seal ==
  /\ pc = "seal"
  /\ \/ temp["ours"] = NoFile /\ Fail
     \/ /\ temp["ours"] # NoFile
        /\ sealed' = temp["ours"] /\ pc' = "replace"
        /\ UNCHANGED <<temp, crlf, marked, status, target, exit>>
  /\ UNCHANGED <<given, disturbed>>

(* The rename, in at most five attempts, or no rename.                      *)
ReplaceTarget ==
  /\ pc = "replace"
  /\ \/ /\ target' = sealed /\ pc' = "return"
        /\ UNCHANGED <<temp, crlf, marked, status, sealed, exit, disturbed>>
     \/ Fail /\ disturbed' = TRUE
  /\ UNCHANGED given

Return ==
  /\ pc = "return"
  /\ pc' = "done" /\ temp' = [s \in Sides |-> NoFile]
  /\ exit' = IF status THEN "merged" ELSE "conflict"
  /\ UNCHANGED <<given, crlf, marked, status, sealed, target, disturbed>>

(* The driver is killed: its files stay.                                    *)
Kill ==
  /\ pc # "done" /\ pc' = "done"
  /\ exit' = "killed" /\ disturbed' = TRUE
  /\ UNCHANGED <<given, temp, crlf, marked, status, sealed, target>>

(* Startup recovery of another command removes .tmp* below the state        *)
(* directory, one after another.                                            *)
Sweep(s) ==
  /\ temp[s] # NoFile
  /\ temp' = [temp EXCEPT ![s] = NoFile] /\ disturbed' = TRUE
  /\ UNCHANGED <<given, pc, crlf, marked, status, sealed, target, exit>>

Next ==
  \/ \E locked \in BOOLEAN : Start(locked)
  \/ \E s \in Sides : Decrypt(s) \/ Sweep(s)
  \/ Inspect \/ MergeFile \/ Judge \/ Seal \/ ReplaceTarget \/ Return \/ Kill
  \/ \E n \in Regions : MergeFileDies(n)

Spec == Init /\ [][Next]_vars

-----------------------------------------------------------------------------
TypeOK ==
  /\ input \in [Sides -> Versions] /\ wide \in BOOLEAN
  /\ pc \in Sides \cup {"start", "inspect", "merge", "judge", "seal", "replace", "return", "done"}
  /\ temp \in [Sides -> Texts \cup Specials \cup {NoFile}]
  /\ crlf \in BOOLEAN /\ marked \in BOOLEAN /\ status \in BOOLEAN
  /\ sealed \in Texts \cup {NoFile} /\ target \in Texts \cup {Old}
  /\ exit \in {Running, "merged", "conflict", "killed"} /\ disturbed \in BOOLEAN

(* The text that has the changes of both sides, with the line endings of    *)
(* ours, if there is one: nothing else may be taken for a clean merge.      *)
ThreeWayBody(b, o, t) == IF o = t \/ t = b THEN o ELSE t

Apart(b, o, t) == o # t /\ o # b /\ t # b

Wanted ==
  IF \E s \in Sides : input[s] \in Specials THEN {}
  ELSE IF \E r \in Regions :
            Apart(input["base"][r].body, input["ours"][r].body, input["theirs"][r].body)
    THEN {}
  ELSE {[r \in Regions |->
          [body |-> ThreeWayBody(input["base"][r].body, input["ours"][r].body,
                                 input["theirs"][r].body),
           other |-> NoBody, cr |-> IF UsesCrlf(input["ours"]) THEN 1 ELSE 0]]}

(* However often files are swept and whoever dies, %A is replaced at most   *)
(* once and by a whole ciphertext, and the driver returns 0 only when that  *)
(* is the merge of both sides (merge.rs:155-366).                           *)
Abs == INSTANCE AtomicMerge WITH
         Contents <- Texts, wanted <- Wanted, file <- target, exit <- exit

ImplementsAtomicMerge == Abs!Spec

(* What no side changed, or one, or both alike, is not called a conflict    *)
(* because of line endings (merge.rs:205): only if files were disturbed,    *)
(* a version cannot be merged, or the texts bring markers, another encoding *)
(* or doubled carriage returns.                                             *)
Simple(v) ==
  v \notin Specials /\ \A r \in Regions : v[r].body \notin {Markers, Latin} /\ v[r].cr < 2

NoFalseConflict ==
  exit = "conflict" /\ ~disturbed /\ (\A s \in Sides : Simple(input[s])) => Wanted = {}

(* What the files hold at each step.                                        *)
Stripped == [s \in Sides |-> Strip(input[s])]

StepInv ==
  /\ pc \in {"start", "base", "ours", "theirs", "inspect", "merge", "judge", "seal", "replace"}
       => target = Old
  /\ pc # "done" => exit = Running
  /\ pc \in {"start", "base", "ours", "theirs", "inspect"} =>
       \A s \in Sides : temp[s] \in {NoFile, input[s]} \ {Foreign}
  /\ pc \in {"merge", "judge", "seal", "replace", "return"} =>
       \A s \in Sides : input[s] \notin Specials
  /\ pc = "merge" => \A s \in Sides : temp[s] \in {NoFile, Stripped[s]}
  /\ pc \in {"merge", "judge", "seal", "replace", "return"} => crlf = UsesCrlf(input["ours"])
  /\ pc \in {"judge", "seal", "replace"} => temp["ours"] \in Texts \cup {NoFile}
  /\ pc = "judge" /\ status =>
       temp["ours"] \in {NoFile, Merged(Stripped)} /\ ~InConflict(Merged(Stripped))
  /\ pc = "seal" /\ status => temp["ours"] \in Wanted \cup {NoFile}
  /\ pc = "replace" /\ status => sealed \in Wanted
  /\ pc = "replace" => sealed \in Texts
  /\ pc = "return" /\ status => target \in Wanted
  /\ exit = "merged" => target \in Wanted

(* An undisturbed merge of simple texts that agree is on its way to success.*)
Agreeing == ~disturbed /\ (\A s \in Sides : Simple(input[s])) /\ Wanted # {}

SmoothInv ==
  Agreeing =>
    /\ exit # "conflict"
    /\ pc \in {"ours", "theirs", "inspect"} => temp["base"] = input["base"]
    /\ pc \in {"theirs", "inspect"} => temp["ours"] = input["ours"]
    /\ pc = "inspect" => temp["theirs"] = input["theirs"]
    /\ pc = "merge" => temp = Stripped
    /\ pc = "judge" => temp["ours"] = Merged(Stripped)
    /\ pc = "seal" => temp["ours"] # NoFile
    /\ pc \in {"judge", "seal", "replace", "return"} => status

IInv == TypeOK /\ StepInv
=============================================================================
