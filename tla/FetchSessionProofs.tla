------------------------- MODULE FetchSessionProofs -------------------------
(***************************************************************************)
(* The safety properties of FetchSession, for every set of offers, every   *)
(* number of source changes and every window.                              *)
(*                                                                         *)
(* The argument gives the stream a notion of place: the frame the origin   *)
(* will write next, the frame the requester will read next, and the place  *)
(* that follows a place in the manifest's order.  The frames in flight are *)
(* the places from the requester's to the origin's, except that a refusal  *)
(* or an abort may stand as the last of them, and that a reset loses the   *)
(* end.  Blocks of a changed file can be among them only while the origin  *)
(* can no longer finish that file.                                         *)
(***************************************************************************)
EXTENDS FetchSession, TLAPS

-----------------------------------------------------------------------------
(* Places in the stream: a phase, the file and the block it is at.         *)

Phases == {"header", "manifest", "start", "block", "end", "complete", "over"}
Place  == Phases \X Nat \X Nat

At(phase)  == <<phase, 0, 0>>
Start(f)   == <<"start", f, 0>>
InBlock(f, b) == <<"block", f, b>>
End(f)     == <<"end", f, 0>>

Zeros(f) == [b \in 1..Size[f] |-> 0]

Payload == IF IsText THEN InBlock(1, 1)
           ELSE IF Len(Size) = 0 THEN At("complete") ELSE Start(1)
InFile(f, b)  == IF b < Size[f] THEN InBlock(f, b + 1) ELSE End(f)
AfterFile(f)  == IF f < Len(Size) THEN Start(f + 1) ELSE At("complete")

Follow(p) ==
  CASE p[1] = "header"   -> IF IsText THEN Payload ELSE At("manifest")
    [] p[1] = "manifest" -> Payload
    [] p[1] = "start"    -> InFile(p[2], 0)
    [] p[1] = "block"    -> InFile(p[2], p[3])
    [] p[1] = "end"      -> AfterFile(p[2])
    [] OTHER             -> At("over")

\* The place of the frame the requester reads next, and of the one the origin
\* writes next.
RPlace ==
  CASE rPc = "header"   -> At("header")
    [] rPc = "manifest" -> At("manifest")
    [] rPc \in {"admit", "admitted"} -> Payload
    [] rPc = "text"     -> InBlock(1, Len(rSeen) + 1)
    [] rPc = "text_end" -> End(1)
    [] rPc = "start"    -> Start(rFile)
    [] rPc = "blocks"   -> InBlock(rFile, Len(rSeen) + 1)
    [] rPc = "end"      -> End(rFile)
    [] rPc = "complete" -> At("complete")
    [] OTHER            -> At("over")

SPlace ==
  CASE sPc \in {"authorise", "plan", "header"} -> At("header")
    [] sPc = "manifest" -> At("manifest")
    [] sPc \in {"admission", "recheck"} -> Payload
    [] sPc = "text"     -> InFile(1, Len(sSeen))
    [] sPc \in {"open", "opened"} -> Start(sFile)
    [] sPc = "blocks"   -> InFile(sFile, Len(sSeen))
    [] sPc = "ended"    -> AfterFile(sFile)
    [] sPc \in {"final", "complete"} -> At("complete")
    [] OTHER            -> At("over")

\* The origin writes nothing more.
SOver == sPc \in {"refused", "aborted", "done"}

\* A frame that fits its place, and a frame that ends the stream there.
Fits(fr, p) ==
  CASE p[1] = "header"   -> fr = Frame("fetch_header")
    [] p[1] = "manifest" -> fr = Frame("manifest")
    [] p[1] = "start"    -> fr = FileStart(p[2])
    [] p[1] = "block"    -> /\ fr.type = "block" /\ fr.version \in Nat
                            /\ IsText => fr.version = 0
    [] p[1] = "end"      -> fr = IF IsText THEN TextEnd(Zeros(1))
                                 ELSE FileEnd(p[2], Zeros(p[2]))
    [] p[1] = "complete" -> fr = IF IsText THEN FetchComplete(0, Zeros(1))
                                 ELSE FetchComplete(Len(Size), Announced)
    [] OTHER             -> FALSE

Ends(fr, p) ==
  \/ p[1] = "header" /\ fr.type = "fetch_refusal"
  \/ p[1] \in {"start", "complete"} /\ fr.type = "fetch_abort"

-----------------------------------------------------------------------------
(* The inductive invariant.                                                *)

Digest == Seq(Nat)
CodedTypes == {"fetch_refusal", "fetch_abort", "fetch_admission", "fetch_receipt"}
Codes == Refusals \cup
  {"source_unavailable", "source_changed", "accepted", "invalid_manifest",
   "refused_busy", "destination_unavailable", "insufficient_space",
   "allocation_failed", "cancelled", "completed", "verification_failed",
   "internal_error", "clipboard_failed", "uncertain_no_replay"}
Frames ==
  [type : {"fetch_header", "manifest"}]
  \cup [type : {"block"}, version : Nat]
  \cup [type : CodedTypes, code : Codes]
  \cup [type : {"file_start"}, file : Nat, len : Nat]
  \cup [type : {"file_end"}, file : Nat, digest : Digest]
  \cup [type : {"text_end"}, digest : Digest]
  \cup [type : {"fetch_complete"}, files : Nat, set : Seq(Nat \cup Digest)]

OriginSteps ==
  {"authorise", "plan", "header", "manifest", "admission", "recheck", "text",
   "open", "opened", "blocks", "ended", "final", "complete", "receipt",
   "refused", "aborted", "done"}
RequesterSteps ==
  {"header", "manifest", "admit", "admitted", "text", "text_end", "start",
   "blocks", "end", "complete", "verified", "apply", "close", "done"}

TypeInv ==
  /\ shape \in Shapes /\ path \in [Files -> Nat \cup {Gone}] /\ changes \in Nat
  /\ grant \in Refusals \cup {"none"}
  /\ handle \in [version : Nat, linked : BOOLEAN]
  /\ sPc \in OriginSteps /\ rPc \in RequesterSteps
  /\ sFile \in Nat /\ sSeen \in Digest /\ sSet \in Seq(Nat \cup Digest)
  /\ rFile \in Nat /\ rSeen \in Digest /\ rGot \in Seq(Digest)
  /\ toR \in Seq(Frames) /\ toS \in Seq(Frames)
  /\ closed \subseteq {"S", "R"} /\ cut \in BOOLEAN

\* The digests computed for the first n files are those of the announcement.
FirstFiles(n, digests) ==
  /\ Len(digests) = n /\ n <= Len(Size)
  /\ \A f \in 1..n : digests[f] = Zeros(f)

\* What the origin has done by each of its steps.
OriginInv ==
  /\ sPc \in {"plan", "manifest", "recheck", "open", "opened", "blocks", "ended",
              "final"} => ~IsText
  /\ sPc = "text" => IsText
  /\ sPc \in {"authorise", "plan", "header", "manifest", "admission", "recheck"}
       => sSeen = <<>> /\ sSet = <<>>
  /\ sPc \in {"open", "opened", "blocks"}
       => sFile \in Files /\ FirstFiles(sFile - 1, sSet)
  /\ sPc = "ended" => sFile \in Files /\ FirstFiles(sFile, sSet)
  /\ sPc \in {"final", "complete"} /\ ~IsText => FirstFiles(Len(Size), sSet)
  /\ sPc \in {"authorise", "header", "manifest", "admission"} => sFile = 1
  /\ sPc \in Walks => sFile \in 1..Len(Size) + 1
  /\ sPc = "text" => Len(sSeen) <= Size[1] /\ \A b \in 1..Len(sSeen) : sSeen[b] = 0
  /\ sPc = "blocks" =>
       /\ Len(sSeen) <= Size[sFile]
       /\ handle.version = 0 => \A b \in 1..Len(sSeen) : sSeen[b] = 0
  /\ sPc = "complete" /\ IsText => sSet = Zeros(1)

\* What the requester has read by each of its steps.
RequesterInv ==
  /\ rPc \in {"manifest", "start", "blocks", "end"} => ~IsText
  /\ rPc \in {"text", "text_end"} => IsText
  /\ rPc \in {"header", "manifest", "admit", "admitted", "text", "text_end"}
       => rFile = 1 /\ rGot = <<>>
  /\ rPc \in {"header", "manifest", "admit", "admitted"} => rSeen = <<>>
  /\ rPc \in {"start", "blocks", "end"}
       => rFile \in Files /\ FirstFiles(rFile - 1, rGot)
  /\ rPc = "text" => Len(rSeen) < Size[1]
  /\ rPc = "text_end" => Len(rSeen) = Size[1]
  /\ rPc = "blocks" => Len(rSeen) < Size[rFile]
  /\ rPc = "end" => Len(rSeen) = Size[rFile]
  /\ rPc \in {"complete", "verified", "apply", "close"} =>
       /\ rGot = Announced
       /\ IsText => rSeen = Zeros(1)

\* Results and closed ends.
EndInv ==
  /\ "R" \in closed => rPc = "done"
  /\ "S" \in closed => sPc = "done"
  /\ rResult = "open" <=> rPc # "done"
  /\ sResult = "open" <=> sPc # "done"
  /\ \A i \in 1..Len(toS) :
        toS[i] = Receipt("completed") => rResult = "completed"
  /\ taken \in {<<>>, <<Announced>>}
  /\ taken # <<>> => rPc \in {"close", "done"}
  /\ rPc = "close" \/ rResult = "completed" => taken = <<Announced>>
  /\ rResult = "cancelled" => taken = <<>>

Placed(pos) ==
  /\ pos[1] = RPlace
  /\ \A i \in 1..Len(toR) :
       \/ Fits(toR[i], pos[i]) /\ pos[i + 1] = Follow(pos[i])
       \/ Ends(toR[i], pos[i]) /\ i = Len(toR) /\ SOver
  /\ ~cut /\ ~SOver => pos[Len(toR) + 1] = SPlace

\* The frames in flight lead from the requester's place to the origin's.
StreamInv ==
  rPc # "done" => \E pos \in [1..Len(toR) + 1 -> Place] : Placed(pos)

\* The origin cannot finish the file it is in.
Broken == sPc = "done" \/ (sPc = "blocks" /\ handle.version # 0)
Changed(fr) == fr.type = "block" /\ fr.version # 0

\* Bytes of a changed file are the last thing on the wire.
ChangedInv ==
  /\ \A i \in 1..Len(toR) :
       Changed(toR[i]) => Broken /\ \A j \in i..Len(toR) : toR[j].type = "block"
  /\ rPc # "done" /\ (\E b \in 1..Len(rSeen) : rSeen[b] # 0) =>
       /\ Broken /\ rPc \in {"blocks", "end"}
       /\ \A j \in 1..Len(toR) : toR[j].type = "block"

\* A code that blames the source blames it for something that happened or that
\* was wrong with it all along, and none says that the verification failed.
Honest(code) ==
  /\ code # "verification_failed"
  /\ code = "source_unavailable" => ~shape.readable \/ \E f \in Files : path[f] = Gone
  /\ code = "source_changed" => ~shape.walkable \/ \E f \in Files : path[f] # 0

HonestInv ==
  /\ Honest(rAttempt)
  /\ \A i \in 1..Len(toR) :
       toR[i].type \in {"fetch_refusal", "fetch_abort"} => Honest(toR[i].code)

\* The last walk passes only over a source that was whole when it began, and a
\* requester at fetch_complete or past it has an origin past that walk.
Snapshot == ~IsText /\ Files # {} => whole
Completing ==
  \/ \E i \in 1..Len(toR) : toR[i].type = "fetch_complete"
  \/ rPc \in {"verified", "apply", "close"}
  \/ rResult = "completed"
SnapshotInv ==
  /\ sPc = "final" => Snapshot \/ \E f \in sFile..Len(Size) : path[f] # 0
  /\ sPc \in {"complete", "receipt"} => Snapshot
  /\ Completing => sPc \in {"receipt", "done"} /\ Snapshot

IInv ==
  /\ TypeInv /\ OriginInv /\ RequesterInv /\ EndInv /\ StreamInv /\ ChangedInv
  /\ HonestInv /\ SnapshotInv

-----------------------------------------------------------------------------
(* The shape of the offer, and the types of the frames.                    *)

\* An offer has finitely many files of finite size, and a text is one, not empty.
LEMMA ShapeFacts ==
  ASSUME TypeInv
  PROVE  /\ Size \in Seq(Nat) /\ Len(Size) \in Nat
         /\ \A f \in Files : f \in Nat /\ Size[f] \in Nat
         /\ IsText => Len(Size) = 1 /\ 1 \in Files /\ Size[1] > 0
BY FetchSessionAssumption DEF TypeInv, Size, Files, IsText

\* The digest of an unchanged file covers every block of it.
LEMMA ZerosFacts ==
  ASSUME TypeInv, NEW f \in Files
  PROVE  Zeros(f) \in Digest /\ Len(Zeros(f)) = Size[f]
<1>1. Size[f] \in Nat
  BY ShapeFacts
<1>2. QED
  BY <1>1 DEF Zeros, Digest

\* What was announced is the digest of every file as it was then.
LEMMA AnnouncedFacts ==
  ASSUME TypeInv
  PROVE  /\ Announced \in Seq(Digest) /\ Len(Announced) = Len(Size)
         /\ Announced = [f \in Files |-> Zeros(f)]
<1>1. Announced = [f \in Files |-> Zeros(f)]
  BY DEF Announced, Zeros
<1>2. Len(Size) \in Nat
  BY ShapeFacts
<1>3. \A f \in Files : Zeros(f) \in Digest
  BY ZerosFacts
<1>4. QED
  BY <1>1, <1>2, <1>3 DEF Files

\* The announced digests of all files are the announcement.
LEMMA FirstFilesAll ==
  ASSUME TypeInv, NEW digests \in Seq(Nat \cup Digest), FirstFiles(Len(Size), digests)
  PROVE  digests = Announced
<1>1. Len(Size) \in Nat /\ Announced = [f \in Files |-> Zeros(f)]
  BY ShapeFacts, AnnouncedFacts
<1>2. QED
  BY <1>1 DEF FirstFiles, Files

\* Another unchanged file adds its announced digest.
LEMMA FirstFilesMore ==
  ASSUME TypeInv, NEW f \in Files, NEW digests \in Seq(Nat \cup Digest),
         FirstFiles(f - 1, digests)
  PROVE  FirstFiles(f, Append(digests, Zeros(f)))
<1>1. f \in Nat /\ f >= 1 /\ f <= Len(Size) /\ Len(Size) \in Nat
  BY ShapeFacts DEF Files
<1>2. Zeros(f) \in Nat \cup Digest
  BY ZerosFacts
<1>3. QED
  BY <1>1, <1>2 DEF FirstFiles

\* A digest of zeros as long as the file is the announced one.
LEMMA AllZeros ==
  ASSUME TypeInv, NEW f \in Files, NEW d \in Digest, Len(d) = Size[f],
         \A b \in 1..Len(d) : d[b] = 0
  PROVE  d = Zeros(f)
<1>1. Size[f] \in Nat
  BY ShapeFacts
<1>2. QED
  BY <1>1 DEF Zeros, Digest

\* The constructors make frames.
LEMMA FrameTypes ==
  /\ \A t \in {"fetch_header", "manifest"} : Frame(t) \in Frames
  /\ \A v \in Nat : Block(v) \in Frames
  /\ \A t \in CodedTypes, c \in Codes : Coded(t, c) \in Frames
  /\ \A d \in Digest : TextEnd(d) \in Frames
  /\ \A f \in Nat, d \in Digest : FileEnd(f, d) \in Frames
  /\ \A n \in Nat, s \in Seq(Nat \cup Digest) : FetchComplete(n, s) \in Frames
  /\ \A f \in Nat : Size[f] \in Nat => FileStart(f) \in Frames
BY DEF Frames, Frame, Block, Coded, TextEnd, FileEnd, FetchComplete, FileStart

\* A sequence over a set is one over a larger set.
LEMMA WiderSeq ==
  ASSUME NEW S, NEW T, S \subseteq T, NEW q \in Seq(S)
  PROVE  q \in Seq(T)
OBVIOUS

\* What Append adds, and that it leaves the rest alone.
LEMMA AppendFacts ==
  ASSUME NEW S, NEW q \in Seq(S), NEW e \in S
  PROVE  /\ Append(q, e) \in Seq(S)
         /\ Len(Append(q, e)) = Len(q) + 1 /\ Len(q) \in Nat
         /\ \A i \in 1..Len(q) : Append(q, e)[i] = q[i]
         /\ Append(q, e)[Len(q) + 1] = e
         /\ \A i \in 1..Len(Append(q, e)) : i \in 1..Len(q) \/ i = Len(q) + 1
OBVIOUS

\* What Tail takes away, and where the rest goes.
LEMMA TailFacts ==
  ASSUME NEW S, NEW q \in Seq(S), q # <<>>
  PROVE  /\ Tail(q) \in Seq(S) /\ Len(q) \in Nat /\ Len(Tail(q)) = Len(q) - 1
         /\ Len(q) >= 1 /\ Head(q) = q[1] /\ Head(q) \in S
         /\ \A i \in 1..Len(Tail(q)) : i + 1 \in 1..Len(q) /\ Tail(q)[i] = q[i + 1]
         /\ \A i \in 1..Len(Tail(q)) : i + 1 = Len(q) => i = Len(Tail(q))
OBVIOUS

\* Writing a frame leaves a sequence of frames.
LEMMA PutType ==
  ASSUME NEW q \in Seq(Frames), NEW peer, NEW fr \in Frames
  PROVE  Put(q, peer, fr) \in Seq(Frames)
BY DEF Put

\* The codes the origin derives from what it finds are codes of frames.
LEMMA CodeTypes ==
  /\ \A c \in Refusals : c \in Codes
  /\ \A v : SourceFailure(v) \in Codes
  /\ \A v : \A c \in WalkCodes(v) : c \in Codes
<1>1. \A c \in Refusals : c \in Codes
  BY DEF Codes
<1>2. \A v : SourceFailure(v) \in Codes
  BY DEF Codes, SourceFailure
<1>3. ASSUME NEW v, NEW c \in WalkCodes(v)
      PROVE  c \in Codes
  BY <1>2, <1>3 DEF Codes, WalkCodes
<1>4. QED
  BY <1>1, <1>2, <1>3

\* What writing a frame and returning leave of the types.
LEMMA SendType ==
  ASSUME TypeInv, NEW fr \in Frames, NEW pc \in OriginSteps, SendThen(fr, pc)
  PROVE  /\ toR' \in Seq(Frames) /\ toS' \in Seq(Frames) /\ cut' \in BOOLEAN
         /\ closed' \subseteq {"S", "R"} /\ sPc' \in OriginSteps
<1>1. toR' \in Seq(Frames)
  BY PutType DEF SendThen, TypeInv
<1>2. QED
  BY <1>1 DEF SendThen, TypeInv, ResetBy

\* An origin that returns keeps the types.
LEMMA ReturnType ==
  ASSUME TypeInv, NEW result, NEW rest, SReturn(result, rest)
  PROVE  /\ toS' \in Seq(Frames) /\ cut' \in BOOLEAN
         /\ closed' \subseteq {"S", "R"} /\ sPc' \in OriginSteps
         /\ handle' \in [version : Nat, linked : BOOLEAN]
BY DEF SReturn, TypeInv, OriginSteps

\* A requester that finishes keeps the types.
LEMMA FinishType ==
  ASSUME TypeInv, NEW result, NEW attempt, NEW fr \in Frames \cup {NoFrame},
         NEW rest, Finish(result, attempt, fr, rest)
  PROVE  /\ toS' \in Seq(Frames) /\ toR' \in Seq(Frames) /\ cut' \in BOOLEAN
         /\ closed' \subseteq {"S", "R"} /\ rPc' \in RequesterSteps
<1>1. toS' \in Seq(Frames)
  BY PutType DEF Finish, TypeInv
<1>2. QED
  BY <1>1 DEF Finish, TypeInv, RequesterSteps

\* Every step of the origin keeps the types.
LEMMA OriginType ==
  ASSUME IInv, OriginStep
  PROVE  TypeInv'
<1>0. TypeInv /\ OriginInv
  BY DEF IInv
<1>1. CASE Authorise
  <2>1. CASE grant = "none"
    BY <1>0, <1>1, <2>1 DEF TypeInv, Files, Size, source, origin, requester, wire,
                          OriginSteps, Authorise
  <2>2. CASE grant # "none"
    <3>1. grant \in Refusals /\ Coded("fetch_refusal", grant) \in Frames
      BY <1>0, <2>2, FrameTypes, CodeTypes DEF TypeInv, CodedTypes
    <3>2. SendThen(Coded("fetch_refusal", grant), "refused")
      BY <1>1, <2>2 DEF Authorise
    <3>3. QED
      BY <1>0, <1>1, <3>1, <3>2, SendType DEF TypeInv, Files, Size, source, requester,
                                           OriginSteps, Authorise
  <2>3. QED
    BY <2>1, <2>2
<1>2. CASE Refused
  BY <1>0, <1>2, ReturnType
  DEF TypeInv, Files, Size, source, origin, requester, wire, OriginSteps, Refused
<1>3. CASE WalkFile
  BY <1>0, <1>3, ReturnType
  DEF TypeInv, Files, Size, source, origin, requester, wire, OriginSteps, WalkFile, Walks
<1>4. CASE WalkEnds
  BY <1>0, <1>4, ReturnType
  DEF TypeInv, Files, Size, source, origin, requester, wire, OriginSteps, WalkEnds, AfterWalk, Walks
<1>5. CASE WalkFails
  <2>1. PICK code \in WalkCodes(path[sFile]) :
          IF sPc = "plan" THEN SendThen(Coded("fetch_refusal", code), "refused")
                          ELSE SendThen(Coded("fetch_abort", code), "aborted")
    BY <1>5 DEF WalkFails
  <2>2. \A type \in CodedTypes : Coded(type, code) \in Frames
    BY CodeTypes, FrameTypes DEF CodedTypes
  <2>3. UNCHANGED <<source, requester, sFile, sSeen, sSet>>
    BY <1>5 DEF WalkFails
  <2>4. \E type \in CodedTypes, pc \in OriginSteps : SendThen(Coded(type, code), pc)
    BY <2>1 DEF CodedTypes, OriginSteps
  <2>5. QED
    BY <1>0, <2>2, <2>3, <2>4, SendType
    DEF TypeInv, Files, Size, source, requester
<1>6. CASE PlanMalformed \/ UnchangedSourceFails
  <2>1. UNCHANGED <<source, requester, sFile, sSeen, sSet>>
    BY <1>6 DEF PlanMalformed, UnchangedSourceFails
  <2>2. PICK code \in Codes, type \in CodedTypes, pc \in OriginSteps :
          SendThen(Coded(type, code), pc)
    BY <1>6 DEF PlanMalformed, UnchangedSourceFails, Grievances, Codes, Refusals, CodedTypes,
       OriginSteps
  <2>3. Coded(type, code) \in Frames
    BY FrameTypes
  <2>4. QED
    BY <1>0, <2>1, <2>2, <2>3, SendType DEF TypeInv, Files, Size, source, requester
<1>7. CASE SendHeader
  BY <1>0, <1>7, SendType, FrameTypes, CodeTypes
  DEF TypeInv, Files, Size, source, origin, requester, wire, OriginSteps, SendHeader
<1>8. CASE SendManifest
  BY <1>0, <1>8, SendType, FrameTypes, CodeTypes
  DEF TypeInv, Files, Size, source, origin, requester, wire, OriginSteps, SendManifest
<1>9. CASE ReadAdmission
  <2>1. CASE Head(toS) = Coded("fetch_admission", "accepted")
    <3>1. Tail(toS) \in Seq(Frames)
      BY <1>0, <1>9 DEF TypeInv, ReadAdmission
    <3>2. QED
      BY <1>0, <1>9, <2>1, <3>1
      DEF TypeInv, Files, Size, requester, OriginSteps, ReadAdmission
  <2>2. CASE Head(toS) # Coded("fetch_admission", "accepted")
    <3>1. SReturn("failed", Tail(toS))
      BY <1>9, <2>2 DEF ReadAdmission
    <3>2. QED
      BY <1>0, <1>9, <3>1, ReturnType DEF TypeInv, Files, Size, requester, ReadAdmission
  <2>3. QED
    BY <2>1, <2>2
<1>10. CASE SendText
  <2>1. Block(0) \in Frames /\ TextEnd(sSeen) \in Frames
    BY <1>0, FrameTypes DEF TypeInv
  <2>2. Append(sSeen, 0) \in Digest /\ sSeen \in Seq(Nat \cup Digest)
    <3>1. sSeen \in Seq(Nat)
      BY <1>0 DEF TypeInv, Digest
    <3>2. Append(sSeen, 0) \in Digest
      BY <3>1 DEF Digest
    <3>3. QED
      BY <3>1, <3>2, WiderSeq
  <2>3. UNCHANGED <<source, requester, sFile>>
    BY <1>10 DEF SendText
  <2>4. CASE Len(sSeen) < Size[1]
    BY <1>0, <1>10, <2>1, <2>2, <2>3, <2>4, SendType
    DEF TypeInv, Files, Size, source, requester, OriginSteps, SendText
  <2>5. CASE ~(Len(sSeen) < Size[1])
    BY <1>0, <1>10, <2>1, <2>2, <2>3, <2>5, SendType
    DEF TypeInv, Files, Size, source, requester, OriginSteps, SendText
  <2>6. QED
    BY <2>4, <2>5
<1>11. CASE VerifyPath
  <2>1. CASE path[sFile] = 0
    BY <1>0, <1>11, <2>1 DEF TypeInv, Files, Size, source, requester, wire,
                          OriginSteps, VerifyPath
  <2>2. CASE path[sFile] # 0
    <3>1. Coded("fetch_abort", SourceFailure(path[sFile])) \in Frames
      BY CodeTypes, FrameTypes DEF CodedTypes
    <3>2. QED
      BY <1>0, <1>11, <2>2, <3>1, SendType DEF TypeInv, Files, Size, source, requester,
                                           OriginSteps, VerifyPath, Abort
  <2>3. QED
    BY <2>1, <2>2
<1>12. CASE OpenFile
  <2>1. UNCHANGED <<shape, grant, path, changes, whole, requester, sFile, sSet>>
    BY <1>12 DEF OpenFile
  <2>2. CASE path[sFile] = 0
    <3>1. FileStart(sFile) \in Frames
      BY <1>0, <1>12, ShapeFacts, FrameTypes DEF OriginInv, TypeInv, OpenFile
    <3>2. SendThen(FileStart(sFile), "blocks") /\ sSeen' = <<>>
          /\ handle' = [version |-> 0, linked |-> TRUE]
      BY <1>12, <2>2 DEF OpenFile
    <3>3. <<>> \in Digest
      BY DEF Digest
    <3>4. QED
      BY <1>0, <2>1, <3>1, <3>2, <3>3, SendType
      DEF TypeInv, Files, Size, requester, OriginSteps
  <2>3. CASE path[sFile] # 0
    <3>1. Coded("fetch_abort", SourceFailure(path[sFile])) \in Frames
      BY CodeTypes, FrameTypes DEF CodedTypes
    <3>2. QED
      BY <1>0, <1>12, <2>1, <2>3, <3>1, SendType
      DEF TypeInv, Files, Size, requester, OriginSteps, OpenFile, Abort
  <2>4. QED
    BY <2>2, <2>3
<1>13. CASE SendBlock
  <2>1. handle.version \in Nat
    BY <1>0 DEF TypeInv
  <2>2. Block(handle.version) \in Frames /\ Append(sSeen, handle.version) \in Digest
    BY <1>0, <2>1, FrameTypes DEF TypeInv, Digest
  <2>3. QED
    BY <1>0, <1>13, <2>2, SendType
    DEF TypeInv, Files, Size, source, requester, OriginSteps, SendBlock
<1>14. CASE MidStream
  BY <1>0, <1>14, ReturnType
  DEF TypeInv, Files, Size, source, origin, requester, wire, OriginSteps, MidStream
<1>15. CASE SendFileEnd
  BY <1>0, <1>15, SendType, FrameTypes, CodeTypes
  DEF TypeInv, Files, Size, source, origin, requester, wire, OriginSteps, SendFileEnd
<1>16. CASE FileDone
  <2>1. UNCHANGED <<shape, grant, path, changes, requester, sSeen, sSet>>
    BY <1>16 DEF FileDone
  <2>2. CASE path[sFile] = 0
    <3>1. /\ sPc' \in {"final", "open"} /\ sFile' \in {1, sFile + 1}
          /\ handle' = [version |-> 0, linked |-> FALSE]
          /\ UNCHANGED wire
      BY <1>16, <2>2 DEF FileDone
    <3>2. QED
      BY <1>0, <2>1, <3>1 DEF TypeInv, Files, Size, requester, wire, OriginSteps
  <2>3. CASE path[sFile] # 0
    <3>1. Coded("fetch_abort", SourceFailure(path[sFile])) \in Frames
      BY CodeTypes, FrameTypes DEF CodedTypes
    <3>2. QED
      BY <1>0, <1>16, <2>1, <2>3, <3>1, SendType
      DEF TypeInv, Files, Size, requester, OriginSteps, FileDone, Abort
  <2>4. QED
    BY <2>2, <2>3
<1>17. CASE SendComplete
  BY <1>0, <1>17, SendType, FrameTypes, CodeTypes
  DEF TypeInv, Files, Size, source, origin, requester, wire, OriginSteps, SendComplete
<1>18. CASE ReadReceipt
  BY <1>0, <1>18, ReturnType
  DEF TypeInv, Files, Size, source, origin, requester, wire, OriginSteps, ReadReceipt
<1>19. CASE OriginFails
  BY <1>0, <1>19, ReturnType
  DEF TypeInv, Files, Size, source, origin, requester, wire, OriginSteps, OriginFails
<1>20. QED
  BY OriginStep, <1>1, <1>2, <1>3, <1>4, <1>5, <1>6, <1>7, <1>8, <1>9, <1>10,
     <1>11, <1>12, <1>13, <1>14, <1>15, <1>16, <1>17, <1>18, <1>19 DEF OriginStep

-----------------------------------------------------------------------------
(* What the requester finds when it reads, and so what each of its reads   *)
(* does.                                                                   *)

\* The first frame in flight fits the requester's place or ends the stream there.
LEMMA HeadPlaced ==
  ASSUME IInv, rPc # "done", toR # <<>>
  PROVE  Fits(Head(toR), RPlace) \/ Ends(Head(toR), RPlace)
<1>1. PICK pos \in [1..Len(toR) + 1 -> Place] : Placed(pos)
  BY DEF IInv, StreamInv
<1>2. 1 \in 1..Len(toR) /\ Head(toR) = toR[1]
  BY DEF IInv, TypeInv
<1>3. QED
  BY <1>1, <1>2 DEF Placed

\* So each read of the requester meets the frame it asks for, or a refusal or
\* abort where it accepts one.
LEMMA HeadIs ==
  ASSUME IInv, toR # <<>>
  PROVE  LET fr == Head(toR) IN
         /\ rPc = "header" => fr = Frame("fetch_header") \/ fr.type = "fetch_refusal"
         /\ rPc = "manifest" => fr = Frame("manifest")
         /\ rPc = "text" => fr.type = "block" /\ fr.version = 0
         /\ rPc = "text_end" => fr = TextEnd(Zeros(1))
         /\ rPc = "start" => fr = FileStart(rFile) \/ fr.type = "fetch_abort"
         /\ rPc = "blocks" => fr.type = "block" /\ fr.version \in Nat
         /\ rPc = "end" => fr = FileEnd(rFile, Zeros(rFile))
         /\ rPc = "complete" =>
              \/ fr = IF IsText THEN FetchComplete(0, Zeros(1))
                      ELSE FetchComplete(Len(Size), Announced)
              \/ fr.type = "fetch_abort"
<1> DEFINE fr == Head(toR)
<1>1. rPc # "done" => Fits(fr, RPlace) \/ Ends(fr, RPlace)
  BY HeadPlaced
<1>2. RequesterInv
  BY DEF IInv
<1> HIDE DEF fr
<1>3. rPc = "header" => fr = Frame("fetch_header") \/ fr.type = "fetch_refusal"
  BY <1>1 DEF Fits, Ends, RPlace, At
<1>4. rPc = "manifest" => fr = Frame("manifest")
  BY <1>1 DEF Fits, Ends, RPlace, At
<1>5. rPc = "text" => fr.type = "block" /\ fr.version = 0
  BY <1>1, <1>2 DEF Fits, Ends, RPlace, InBlock, RequesterInv
<1>6. rPc = "text_end" => fr = TextEnd(Zeros(1))
  BY <1>1, <1>2 DEF Fits, Ends, RPlace, End, RequesterInv
<1>7. rPc = "start" => fr = FileStart(rFile) \/ fr.type = "fetch_abort"
  BY <1>1 DEF Fits, Ends, RPlace, Start
<1>8. rPc = "blocks" => fr.type = "block" /\ fr.version \in Nat
  BY <1>1 DEF Fits, Ends, RPlace, InBlock
<1>9. rPc = "end" => fr = FileEnd(rFile, Zeros(rFile))
  BY <1>1, <1>2 DEF Fits, Ends, RPlace, End, RequesterInv
<1>10. rPc = "complete" =>
          \/ fr = IF IsText THEN FetchComplete(0, Zeros(1))
                  ELSE FetchComplete(Len(Size), Announced)
          \/ fr.type = "fetch_abort"
  BY <1>1 DEF Fits, Ends, RPlace, At
<1>11. QED
  BY <1>3, <1>4, <1>5, <1>6, <1>7, <1>8, <1>9, <1>10 DEF fr

\* At the end of a file the requester has hashed what was announced.
LEMMA SeenIsAnnounced ==
  ASSUME IInv, toR # <<>>, rPc \in {"text_end", "end"}
  PROVE  rFile \in Files /\ rSeen = Zeros(rFile)
<1>1. TypeInv /\ RequesterInv /\ ChangedInv
  BY DEF IInv
<1>2. rFile \in Files /\ Len(rSeen) = Size[rFile] /\ rSeen \in Digest
  BY <1>1, ShapeFacts DEF RequesterInv, TypeInv
<1>3. 1 \in 1..Len(toR) /\ Head(toR) = toR[1]
  BY <1>1 DEF TypeInv
<1>4. toR[1].type # "block"
  BY <1>3, HeadIs DEF TextEnd, FileEnd
<1>5. \A b \in 1..Len(rSeen) : rSeen[b] = 0
  BY <1>1, <1>3, <1>4 DEF ChangedInv
<1>6. QED
  BY <1>1, <1>2, <1>5, AllZeros

\* read_header: the header, or a refusal; nothing else is met.
LEMMA ReadHeaderStep ==
  ASSUME IInv, ReadHeader
  PROVE  /\ rPc = "header" /\ toR # <<>>
         /\ UNCHANGED <<source, origin, rFile, rSeen, rGot, taken>>
         /\ \/ /\ Head(toR) = Frame("fetch_header") /\ Take(toR)
               /\ Go(IF IsText THEN "admit" ELSE "manifest")
            \/ /\ Head(toR).type = "fetch_refusal"
               /\ Finish("failed", RefusalAttempt(Head(toR).code), NoFrame, Tail(toR))
BY HeadIs DEF ReadHeader, CanRead, Frame

\* read_manifest: the manifest; nothing else is met.
LEMMA ReadManifestStep ==
  ASSUME IInv, ReadManifest
  PROVE  /\ rPc = "manifest" /\ toR # <<>> /\ Head(toR) = Frame("manifest")
         /\ Take(toR) /\ Go("admit")
         /\ UNCHANGED <<source, origin, rFile, rSeen, rGot, taken>>
BY HeadIs DEF ReadManifest, CanRead, Frame

\* A block of a text is as announced.
LEMMA ReadTextStep ==
  ASSUME IInv, ReadText
  PROVE  /\ rPc = "text" /\ toR # <<>> /\ rSeen' = Append(rSeen, 0)
         /\ Head(toR).type = "block" /\ Head(toR).version = 0
         /\ Take(toR) /\ Go(IF Len(rSeen) + 1 = Size[1] THEN "text_end" ELSE "text")
         /\ UNCHANGED <<source, origin, rFile, rGot, taken>>
BY HeadIs DEF ReadText, CanRead, Raw

\* The digest at the end of a text agrees.
LEMMA ReadTextEndStep ==
  ASSUME IInv, ReadTextEnd
  PROVE  /\ rPc = "text_end" /\ toR # <<>> /\ Head(toR) = TextEnd(Zeros(1))
         /\ rSeen = Zeros(1) /\ rGot' = <<rSeen>>
         /\ Take(toR) /\ Go("complete")
         /\ UNCHANGED <<source, origin, rFile, rSeen, taken>>
<1>1. rPc = "text_end" /\ toR # <<>>
  BY DEF ReadTextEnd, CanRead
<1>2. Head(toR) = TextEnd(Zeros(1)) /\ rSeen = Zeros(1)
  BY <1>1, HeadIs, SeenIsAnnounced DEF IInv, RequesterInv
<1>3. QED
  BY <1>1, <1>2 DEF ReadTextEnd

\* A file starts in its turn, or the origin aborts.
LEMMA ReadFileStartStep ==
  ASSUME IInv, ReadFileStart
  PROVE  /\ rPc = "start" /\ toR # <<>>
         /\ UNCHANGED <<source, origin, rFile, rGot, taken>>
         /\ \/ /\ Head(toR) = FileStart(rFile) /\ Take(toR) /\ rSeen' = <<>>
               /\ Go(IF Size[rFile] = 0 THEN "end" ELSE "blocks")
            \/ /\ Head(toR).type = "fetch_abort" /\ UNCHANGED rSeen
               /\ Aborted(Head(toR).code, Tail(toR))
BY HeadIs DEF ReadFileStart, CanRead

\* A block of a file, of whatever version; no frame is read as one.
LEMMA ReadBlockStep ==
  ASSUME IInv, ReadBlock
  PROVE  /\ rPc = "blocks" /\ toR # <<>> /\ rSeen' = Append(rSeen, Head(toR).version)
         /\ Head(toR).type = "block" /\ Head(toR).version \in Nat
         /\ Take(toR) /\ Go(IF Len(rSeen) + 1 = Size[rFile] THEN "end" ELSE "blocks")
         /\ UNCHANGED <<source, origin, rFile, rGot, taken>>
BY HeadIs DEF ReadBlock, CanRead, Raw

\* A file that gets to its end has the digest announced.
LEMMA ReadFileEndStep ==
  ASSUME IInv, ReadFileEnd
  PROVE  /\ rPc = "end" /\ toR # <<>> /\ Head(toR) = FileEnd(rFile, Zeros(rFile))
         /\ rSeen = Zeros(rFile) /\ rGot' = Append(rGot, rSeen)
         /\ Take(toR) /\ Go(IF rFile = Len(Size) THEN "complete" ELSE "start")
         /\ rFile' = IF rFile = Len(Size) THEN rFile ELSE rFile + 1
         /\ UNCHANGED <<source, origin, rSeen, taken>>
<1>1. rPc = "end" /\ toR # <<>>
  BY DEF ReadFileEnd, CanRead
<1>2. Head(toR) = FileEnd(rFile, Zeros(rFile)) /\ rSeen = Zeros(rFile)
  BY <1>1, HeadIs, SeenIsAnnounced
<1>3. QED
  BY <1>1, <1>2 DEF ReadFileEnd

\* The stream completes with what was announced, or the origin aborts.
LEMMA ReadCompleteStep ==
  ASSUME IInv, ReadComplete
  PROVE  /\ rPc = "complete" /\ toR # <<>>
         /\ UNCHANGED <<source, origin, rFile, rSeen, rGot, taken>>
         /\ \/ /\ Head(toR) = IF IsText THEN FetchComplete(0, Zeros(1))
                              ELSE FetchComplete(Len(Size), Announced)
               /\ Take(toR) /\ Go("verified")
            \/ /\ Head(toR).type = "fetch_abort"
               /\ Aborted(Head(toR).code, Tail(toR))
<1>1. rPc = "complete" /\ toR # <<>>
  BY DEF ReadComplete, CanRead
<1>2. rGot = Announced /\ Len(rGot) = Len(Size) /\ (IsText => rSeen = Zeros(1))
  BY <1>1, AnnouncedFacts DEF IInv, RequesterInv
<1>3. \/ Head(toR) = IF IsText THEN FetchComplete(0, Zeros(1))
                     ELSE FetchComplete(Len(Size), Announced)
      \/ Head(toR).type = "fetch_abort"
  BY <1>1, HeadIs
<1>4. QED
  BY <1>1, <1>2, <1>3 DEF ReadComplete

-----------------------------------------------------------------------------
(* A step of the requester ends the fetch, or reads the frame it is at, or  *)
(* moves on without reading.                                               *)

Answers == {NoFrame} \cup [type : {"fetch_admission", "fetch_receipt"}, code : Codes]

EndsWith(result, attempt, fr, rest) ==
  /\ Finish(result, attempt, fr, rest)
  /\ UNCHANGED <<source, origin, rFile, rSeen, rGot>>
  /\ result \in {"failed", "refused", "cancelled", "uncertain", "completed"}
  /\ fr \in Answers /\ (fr = Receipt("completed") => result = "completed")
  /\ Honest(attempt)
  /\ rPc # "done" /\ (result = "completed" => rPc = "close")
  /\ taken' \in {taken, <<rGot>>}
  /\ taken' # taken => result = "uncertain" /\ rPc \in {"apply", "close"}
  /\ result = "cancelled" => rPc # "close"

RequesterEnds == \E result, attempt, fr, rest : EndsWith(result, attempt, fr, rest)

Moves(next) ==
  /\ Go(next) /\ UNCHANGED <<source, origin, toR, rFile, rSeen, rGot>>

RequesterMoves ==
  \/ Admit
  \/ /\ rPc = "admitted" /\ UNCHANGED taken
     /\ Moves(IF IsText THEN "text" ELSE IF Len(Size) = 0 THEN "complete" ELSE "start")
  \/ rPc = "verified" /\ Moves("apply") /\ UNCHANGED taken
  \/ rPc = "apply" /\ Moves("close") /\ taken' = <<rGot>>

Reading(fr, next) ==
  /\ toR # <<>> /\ Head(toR) = fr /\ toR' = Tail(toR) /\ Go(next)
  /\ UNCHANGED <<source, origin, taken>>

RequesterReads ==
  \/ /\ rPc = "header" /\ UNCHANGED <<rFile, rSeen, rGot>>
     /\ Reading(Frame("fetch_header"), IF IsText THEN "admit" ELSE "manifest")
  \/ /\ rPc = "manifest" /\ UNCHANGED <<rFile, rSeen, rGot>>
     /\ Reading(Frame("manifest"), "admit")
  \/ /\ rPc \in {"text", "blocks"} /\ UNCHANGED <<rFile, rGot>>
     /\ Reading(Head(toR), IF Len(rSeen) + 1 < Size[rFile] THEN rPc
                           ELSE IF IsText THEN "text_end" ELSE "end")
     /\ Head(toR).type = "block" /\ Head(toR).version \in Nat
     /\ IsText => Head(toR).version = 0
     /\ rSeen' = Append(rSeen, Head(toR).version)
  \/ /\ rPc = "text_end" /\ UNCHANGED <<rFile, rSeen>>
     /\ Reading(TextEnd(Zeros(1)), "complete")
     /\ rSeen = Zeros(1) /\ rGot' = <<Zeros(1)>>
  \/ /\ rPc = "start" /\ UNCHANGED <<rFile, rGot>> /\ rSeen' = <<>>
     /\ Reading(FileStart(rFile), IF Size[rFile] = 0 THEN "end" ELSE "blocks")
  \/ /\ rPc = "end" /\ UNCHANGED rSeen
     /\ Reading(FileEnd(rFile, Zeros(rFile)),
                IF rFile = Len(Size) THEN "complete" ELSE "start")
     /\ rSeen = Zeros(rFile) /\ rGot' = Append(rGot, Zeros(rFile))
     /\ rFile' = IF rFile = Len(Size) THEN rFile ELSE rFile + 1
  \/ /\ rPc = "complete" /\ UNCHANGED <<rFile, rSeen, rGot>>
     /\ Reading(IF IsText THEN FetchComplete(0, Zeros(1))
                ELSE FetchComplete(Len(Size), Announced), "verified")

\* What the requester may send as its last frame.
LEMMA AnswerTypes ==
  /\ NoFrame \in Answers
  /\ \A c \in Codes : Coded("fetch_admission", c) \in Answers /\ Receipt(c) \in Answers
  /\ \A fr \in Answers : fr \in Frames \cup {NoFrame}
BY DEF Answers, Coded, Receipt, Frames, CodedTypes

\* A refusal or an abort that arrives has its reason.
LEMMA HeadHonest ==
  ASSUME IInv, toR # <<>>, Head(toR).type \in {"fetch_refusal", "fetch_abort"}
  PROVE  Honest(Head(toR).code)
<1>1. 1 \in 1..Len(toR) /\ Head(toR) = toR[1]
  BY DEF IInv, TypeInv
<1>2. QED
  BY <1>1 DEF IInv, HonestInv

\* The codes that blame nobody need none.
LEMMA AttemptHonest ==
  ASSUME IInv, NEW code \in {"failed", "busy", "cancelled", "completed",
                             "clipboard_failed", "uncertain_no_replay"} \cup {rAttempt}
  PROVE  Honest(code)
BY DEF IInv, HonestInv, Honest

\* The ways receive_one ends.
LEMMA EndingSteps ==
  ASSUME IInv,
         \/ RefuseAdmission \/ ServiceFails \/ ReadFails \/ ReadCancelled
         \/ LocalIo \/ ApplyFails \/ Uncertain \/ Close
  PROVE  RequesterEnds
<1>1. CASE RefuseAdmission
  <2>1. PICK code \in {"refused_busy", "destination_unavailable",
                       "insufficient_space", "allocation_failed"} :
          Refuse("refused", IF code = "refused_busy" THEN "busy" ELSE "failed",
                 code, toR)
    BY <1>1 DEF RefuseAdmission
  <2>2. PICK attempt \in {"busy", "failed", rAttempt} :
          Finish("refused", attempt, Coded("fetch_admission", code), toR)
    BY <2>1 DEF Refuse
  <2>3. Honest(attempt) /\ code \in Codes
    BY <2>2, AttemptHonest DEF Codes
  <2>4. Coded("fetch_admission", code) \in Answers
    BY <2>3, AnswerTypes
  <2>5. Coded("fetch_admission", code) # Receipt("completed")
    BY DEF Coded, Receipt
  <2>6. EndsWith("refused", attempt, Coded("fetch_admission", code), toR)
    BY <1>1, <2>2, <2>3, <2>4, <2>5 DEF EndsWith, RefuseAdmission
  <2>7. QED
    BY <2>6 DEF RequesterEnds
<1>2. CASE ServiceFails
  <2>1. EndsWith("failed", rAttempt, NoFrame, toR)
    BY <1>2, AttemptHonest, AnswerTypes
    DEF EndsWith, ServiceFails, NoFrame, Receipt, Coded
  <2>2. QED
    BY <2>1 DEF RequesterEnds
<1>3. CASE ReadFails
  <2>1. PICK attempt \in {"failed", rAttempt} :
          Finish("failed", attempt, NoFrame, toR)
    BY <1>3 DEF ReadFails
  <2>2. EndsWith("failed", attempt, NoFrame, toR)
    BY <1>3, <2>1, AttemptHonest, AnswerTypes
    DEF EndsWith, ReadFails, NoFrame, Receipt, Coded, Reads
  <2>3. QED
    BY <2>2 DEF RequesterEnds
<1>4. CASE ReadCancelled
  <2>1. PICK attempt \in {"failed", "cancelled", rAttempt},
             fr \in {NoFrame, Coded("fetch_admission", "cancelled"), Receipt("cancelled")} :
          Finish("cancelled", attempt, fr, toR)
    <3>1. \/ Refuse("cancelled", "cancelled", "cancelled", toR)
          \/ Finish("cancelled", "failed", NoFrame, toR)
          \/ Finish("cancelled", "cancelled", Receipt("cancelled"), toR)
      BY <1>4 DEF ReadCancelled
    <3>2. Refuse("cancelled", "cancelled", "cancelled", toR) =>
            \E a \in {"cancelled", rAttempt} :
              Finish("cancelled", a, Coded("fetch_admission", "cancelled"), toR)
      BY DEF Refuse
    <3>3. QED
      BY <3>1, <3>2
  <2>2. Honest(attempt)
    BY <2>1, AttemptHonest
  <2>3. fr \in Answers /\ fr # Receipt("completed")
    <3>1. fr \in Answers
      BY <2>1, AnswerTypes DEF Codes
    <3>2. QED
      BY <2>1, <3>1 DEF NoFrame, Receipt, Coded
  <2>4. EndsWith("cancelled", attempt, fr, toR)
    BY <1>4, <2>1, <2>2, <2>3 DEF EndsWith, ReadCancelled, Reads
  <2>5. QED
    BY <2>4 DEF RequesterEnds
<1>5. CASE LocalIo
  <2>1. EndsWith("failed", "failed", NoFrame, toR)
    BY <1>5, AttemptHonest, AnswerTypes
    DEF EndsWith, LocalIo, NoFrame, Receipt, Coded
  <2>2. QED
    BY <2>1 DEF RequesterEnds
<1>6. CASE ApplyFails
  <2>1. PICK code \in {"internal_error", "clipboard_failed"},
             attempt \in {"failed", "clipboard_failed"} :
          Finish("failed", attempt, Receipt(code), toR)
    BY <1>6 DEF ApplyFails
  <2>2. Honest(attempt)
    BY <2>1, AttemptHonest
  <2>3. Receipt(code) \in Answers /\ Receipt(code) # Receipt("completed")
    BY <2>1, AnswerTypes DEF Codes, Receipt, Coded
  <2>4. EndsWith("failed", attempt, Receipt(code), toR)
    BY <1>6, <2>1, <2>2, <2>3 DEF EndsWith, ApplyFails
  <2>5. QED
    BY <2>4 DEF RequesterEnds
<1>7. CASE Uncertain
  <2>1. Honest("uncertain_no_replay")
    BY AttemptHonest
  <2>2. /\ Receipt("uncertain_no_replay") \in Answers
        /\ Receipt("uncertain_no_replay") # Receipt("completed")
    BY AnswerTypes DEF Codes, Receipt, Coded
  <2>3. EndsWith("uncertain", "uncertain_no_replay", Receipt("uncertain_no_replay"), toR)
    BY <1>7, <2>1, <2>2 DEF EndsWith, Uncertain
  <2>4. QED
    BY <2>3 DEF RequesterEnds
<1>8. CASE Close
  <2>1. Honest("completed")
    BY AttemptHonest
  <2>2. Receipt("completed") \in Answers
    BY AnswerTypes DEF Codes
  <2>3. EndsWith("completed", "completed", Receipt("completed"), toR)
    BY <1>8, <2>1, <2>2 DEF EndsWith, Close
  <2>4. QED
    BY <2>3 DEF RequesterEnds
<1>9. QED
  BY <1>1, <1>2, <1>3, <1>4, <1>5, <1>6, <1>7, <1>8

\* A refusal or an abort that arrives ends it too.
LEMMA RefusedSteps ==
  ASSUME IInv, toR # <<>>, Head(toR).type \in {"fetch_refusal", "fetch_abort"},
         rPc \in Reads, UNCHANGED <<source, origin, rFile, rSeen, rGot, taken>>,
         \/ Finish("failed", RefusalAttempt(Head(toR).code), NoFrame, Tail(toR))
         \/ Aborted(Head(toR).code, Tail(toR))
  PROVE  RequesterEnds
<1> DEFINE code == Head(toR).code
<1>1. Honest(code) /\ Honest("failed")
  BY HeadHonest, AttemptHonest
<1> HIDE DEF code
<1>2. Honest(RefusalAttempt(code))
  BY <1>1 DEF RefusalAttempt
<1>3. CASE Finish("failed", RefusalAttempt(code), NoFrame, Tail(toR))
  <2>1. EndsWith("failed", RefusalAttempt(code), NoFrame, Tail(toR))
    BY <1>2, <1>3, AnswerTypes DEF EndsWith, Reads, NoFrame, Receipt, Coded
  <2>2. QED
    BY <2>1 DEF RequesterEnds
<1>4. CASE Aborted(code, Tail(toR))
  <2>1. /\ Receipt("internal_error") \in Answers
        /\ Receipt("internal_error") # Receipt("completed")
    BY AnswerTypes DEF Codes, Receipt, Coded
  <2>2. EndsWith("failed", code, Receipt("internal_error"), Tail(toR))
    BY <1>1, <1>4, <2>1 DEF EndsWith, Reads, Aborted
  <2>3. QED
    BY <2>2 DEF RequesterEnds
<1>5. QED
  BY <1>3, <1>4 DEF code

\* Every step of the requester reads the frame of its place, moves on, or ends.
LEMMA RequesterDoes ==
  ASSUME IInv, RequesterStep
  PROVE  RequesterEnds \/ RequesterMoves \/ RequesterReads
<1>0. /\ rPc \in {"text", "blocks"} => Len(rSeen) < Size[rFile]
      /\ rPc \in {"text", "blocks"} => rFile \in Files /\ Size[rFile] \in Nat
      /\ rPc \in {"text"} => IsText /\ rFile = 1
      /\ rPc \in {"blocks"} => ~IsText
      /\ Len(rSeen) \in Nat
  <2>1. TypeInv /\ RequesterInv
    BY DEF IInv
  <2>2. QED
    BY <2>1, ShapeFacts DEF RequesterInv, TypeInv, Digest
<1>1. CASE ReadHeader
  BY <1>1, ReadHeaderStep, RefusedSteps DEF RequesterReads, Reading, Take, Reads
<1>2. CASE ReadManifest
  BY <1>2, ReadManifestStep DEF RequesterReads, Reading, Take
<1>3. CASE ReadText
  <2>1. Go(IF Len(rSeen) + 1 < Size[rFile] THEN rPc
           ELSE IF IsText THEN "text_end" ELSE "end")
    BY <1>0, <1>3, ReadTextStep
  <2>2. QED
    BY <1>0, <1>3, <2>1, ReadTextStep DEF RequesterReads, Reading, Take
<1>4. CASE ReadTextEnd
  BY <1>4, ReadTextEndStep DEF RequesterReads, Reading, Take
<1>5. CASE ReadFileStart
  BY <1>5, ReadFileStartStep, RefusedSteps DEF RequesterReads, Reading, Take, Reads
<1>6. CASE ReadBlock
  <2>1. Go(IF Len(rSeen) + 1 < Size[rFile] THEN rPc
           ELSE IF IsText THEN "text_end" ELSE "end")
    BY <1>0, <1>6, ReadBlockStep
  <2>2. QED
    BY <1>0, <1>6, <2>1, ReadBlockStep DEF RequesterReads, Reading, Take
<1>7. CASE ReadFileEnd
  BY <1>7, ReadFileEndStep DEF RequesterReads, Reading, Take
<1>8. CASE ReadComplete
  BY <1>8, ReadCompleteStep, RefusedSteps DEF RequesterReads, Reading, Take, Reads
<1>9. CASE Admitted
  <2>1. CASE cancel = "no"
    BY <1>9, <2>1 DEF Admitted, RequesterMoves, Moves
  <2>2. CASE cancel # "no"
    <3>1. EndsWith("cancelled", "cancelled", NoFrame, toR)
      BY <1>9, <2>2, AttemptHonest, AnswerTypes
      DEF Admitted, EndsWith, NoFrame, Receipt, Coded
    <3>2. QED
      BY <3>1 DEF RequesterEnds
  <2>3. QED
    BY <2>1, <2>2
<1>10. CASE Verified
  <2>1. CASE cancel = "no"
    BY <1>10, <2>1 DEF Verified, RequesterMoves, Moves
  <2>2. CASE cancel # "no"
    <3>1. EndsWith("cancelled", "cancelled", NoFrame, toR)
      BY <1>10, <2>2, AttemptHonest, AnswerTypes
      DEF Verified, EndsWith, NoFrame, Receipt, Coded
    <3>2. QED
      BY <3>1 DEF RequesterEnds
  <2>3. QED
    BY <2>1, <2>2
<1>11. CASE Apply
  BY <1>11 DEF Apply, RequesterMoves, Moves
<1>12. CASE Admit
  BY <1>12 DEF RequesterMoves
<1>13. QED
  BY <1>1, <1>2, <1>3, <1>4, <1>5, <1>6, <1>7, <1>8, <1>9, <1>10, <1>11, <1>12,
     EndingSteps
  DEF RequesterStep

-----------------------------------------------------------------------------
(* What a step leaves alone when it leaves the variables alone.            *)

\* The places of a stream depend on the offer only.
LEMMA SameShape ==
  ASSUME shape' = shape
  PROVE  /\ IsText' = IsText /\ Size' = Size /\ Files' = Files
         /\ Announced' = Announced /\ Payload' = Payload
         /\ \A f : Zeros(f)' = Zeros(f)
         /\ \A n, d : FirstFiles(n, d)' = FirstFiles(n, d)
         /\ \A f, b : InFile(f, b)' = InFile(f, b)
         /\ \A f : AfterFile(f)' = AfterFile(f)
         /\ \A p : Follow(p)' = Follow(p)
         /\ \A fr, p : Fits(fr, p)' = Fits(fr, p) /\ Ends(fr, p)' = Ends(fr, p)
<1>1. IsText' = IsText /\ Size' = Size /\ Files' = Files
  BY DEF IsText, Size, Files
<1>2. Announced' = Announced
  BY <1>1 DEF Announced
<1>3. \A f : Zeros(f)' = Zeros(f)
  BY <1>1 DEF Zeros
<1>4. \A n, d : FirstFiles(n, d)' = FirstFiles(n, d)
  BY <1>1, <1>3 DEF FirstFiles
<1>5. \A f, b : InFile(f, b)' = InFile(f, b)
  BY <1>1 DEF InFile, InBlock, End
<1>6. \A f : AfterFile(f)' = AfterFile(f)
  BY <1>1 DEF AfterFile, Start, At
<1>7. Payload' = Payload
  BY <1>1 DEF Payload, InBlock, Start, At
<1>8. \A p : Follow(p)' = Follow(p)
  BY <1>1, <1>5, <1>6, <1>7 DEF Follow, At
<1>9. \A fr, p : Ends(fr, p)' = Ends(fr, p)
  BY DEF Ends
<1>10. \A f : FileStart(f)' = FileStart(f)
  BY <1>1 DEF FileStart
<1>11. \A fr, p : Fits(fr, p)' = Fits(fr, p)
  BY <1>1, <1>2, <1>3, <1>10
  DEF Fits, Frame, TextEnd, FileEnd, FetchComplete
<1>12. QED
  BY <1>1, <1>2, <1>3, <1>4, <1>5, <1>6, <1>7, <1>8, <1>9, <1>11

\* A step that leaves the origin alone leaves its place.
LEMMA OriginKept ==
  ASSUME OriginInv, UNCHANGED <<shape, handle, origin>>
  PROVE  OriginInv' /\ SPlace' = SPlace /\ SOver' = SOver /\ Broken' = Broken
<1>1. UNCHANGED <<sPc, sFile, sSeen, sSet, handle>>
  BY DEF origin
<1>2. OriginInv'
  BY <1>1, SameShape DEF OriginInv
<1>3. SPlace' = SPlace
  BY <1>1, SameShape DEF SPlace, At, Start
<1>4. QED
  BY <1>1, <1>2, <1>3 DEF SOver, Broken

\* A step that leaves the requester alone leaves its place.
LEMMA RequesterKept ==
  ASSUME RequesterInv, UNCHANGED <<shape, rPc, rFile, rSeen, rGot>>
  PROVE  RequesterInv' /\ RPlace' = RPlace
<1>1. RequesterInv'
  BY SameShape DEF RequesterInv
<1>2. RPlace' = RPlace
  BY SameShape DEF RPlace, At, Start, InBlock, End
<1>3. QED
  BY <1>1, <1>2

\* A reason does not go away while the source is left alone.
LEMMA HonestKept ==
  ASSUME UNCHANGED <<shape, path>>, NEW code, Honest(code)
  PROVE  Honest(code)'
BY SameShape DEF Honest

-----------------------------------------------------------------------------
(* The requester's steps keep the invariant.                               *)

\* A requester that ends keeps the invariant.
LEMMA EndsKeeps ==
  ASSUME IInv, RequesterEnds
  PROVE  IInv'
<1>0. /\ TypeInv /\ OriginInv /\ RequesterInv /\ EndInv /\ StreamInv /\ ChangedInv
      /\ HonestInv /\ SnapshotInv
  BY DEF IInv
<1>1. PICK result, attempt, fr, rest : EndsWith(result, attempt, fr, rest)
  BY DEF RequesterEnds
<1>2. /\ UNCHANGED <<shape, grant, path, handle, changes, whole, origin,
                     sPc, sFile, sSeen, sSet, sResult, rFile, rSeen, rGot>>
      /\ Finish(result, attempt, fr, rest)
      /\ rPc' = "done" /\ toR' = <<>> /\ rResult' = result /\ rAttempt' = attempt
      /\ closed' = closed \cup {"R"}
      /\ toS' = toS \/ (fr # NoFrame /\ toS' = Append(toS, fr))
  BY <1>1 DEF EndsWith, Finish, Put, source, origin
<1>3. TypeInv'
  <2>1. fr \in Frames \cup {NoFrame}
    BY <1>1, AnswerTypes DEF EndsWith
  <2>2. QED
    BY <1>0, <1>2, <2>1, FinishType DEF TypeInv, Files, Size
<1>4. OriginInv' /\ SPlace' = SPlace /\ SOver' = SOver /\ Broken' = Broken
  BY <1>0, <1>2, OriginKept
<1>5. RequesterInv'
  BY <1>2 DEF RequesterInv
<1>6. EndInv'
  <2>1. Announced' = Announced /\ rGot = rGot'
    BY <1>2, SameShape
  <2>2. rPc \in {"apply", "close"} => rGot = Announced
    BY <1>0 DEF RequesterInv
  <2>3. taken' \in {<<>>, <<Announced>>}
    BY <1>0, <1>1, <2>2 DEF EndsWith, EndInv
  <2>4. /\ result = "completed" => taken' = <<Announced>>
        /\ result = "cancelled" => taken' = <<>>
    BY <1>0, <1>1 DEF EndsWith, EndInv
  <2>5. rResult = "open" /\ result # "open" /\ ("S" \in closed' => "S" \in closed)
    BY <1>0, <1>1, <1>2 DEF EndsWith, EndInv
  <2>6. \A i \in 1..Len(toS') : toS'[i] = Receipt("completed") => result = "completed"
    <3>1. \A i \in 1..Len(toS) : toS[i] # Receipt("completed")
      BY <1>0, <2>5 DEF EndInv
    <3>2. fr = Receipt("completed") => result = "completed"
      BY <1>1 DEF EndsWith
    <3>3. fr # NoFrame => fr \in Frames
      BY <1>1, AnswerTypes DEF EndsWith
    <3>4. CASE toS' = toS
      BY <3>1, <3>4
    <3>5. CASE fr # NoFrame /\ toS' = Append(toS, fr)
      <4>1. toS \in Seq(Frames) /\ fr \in Frames
        BY <1>0, <3>3, <3>5 DEF TypeInv
      <4>2. QED
        BY <3>1, <3>2, <3>5, <4>1, AppendFacts
    <3>6. QED
      BY <1>2, <3>4, <3>5
  <2>7. Receipt("completed")' = Receipt("completed")
    BY DEF Receipt, Coded
  <2>8. QED
    BY <1>0, <1>1, <1>2, <2>1, <2>3, <2>4, <2>5, <2>6, <2>7 DEF EndInv, EndsWith
<1>7. StreamInv' /\ ChangedInv'
  BY <1>2 DEF StreamInv, ChangedInv
<1>8. HonestInv'
  <2>1. Honest(attempt)'
    BY <1>1, <1>2, HonestKept DEF EndsWith
  <2>2. QED
    BY <1>2, <2>1 DEF HonestInv
<1>9. SnapshotInv'
  <2>1. Snapshot => Snapshot'
    BY <1>2, SameShape DEF Snapshot
  <2>2. result = "completed" => sPc \in {"receipt", "done"} /\ Snapshot
    BY <1>0, <1>1 DEF EndsWith, SnapshotInv, Completing
  <2>3. sPc = "final" => Snapshot \/ \E f \in sFile'..Len(Size') : path'[f] # 0
    BY <1>0, <1>2, SameShape DEF SnapshotInv
  <2>4. QED
    BY <1>0, <1>2, <2>1, <2>2, <2>3 DEF SnapshotInv, Completing
<1>10. QED
  BY <1>3, <1>4, <1>5, <1>6, <1>7, <1>8, <1>9 DEF IInv

-----------------------------------------------------------------------------
(* How the frames in flight move: one is read, one is written, or neither. *)

\* What follows a place is a place.
LEMMA FollowType ==
  ASSUME NEW p \in Place
  PROVE  Follow(p) \in Place
<1>1. p[1] \in Phases /\ p[2] \in Nat /\ p[3] \in Nat
  BY DEF Place
<1>2. Payload \in Place
  BY DEF Payload, InBlock, At, Start, Place, Phases
<1>3. \A f, b \in Nat : InFile(f, b) \in Place
  BY DEF InFile, InBlock, End, Place, Phases
<1>4. \A f \in Nat : AfterFile(f) \in Place
  BY DEF AfterFile, Start, At, Place, Phases
<1>5. At("manifest") \in Place /\ At("over") \in Place
  BY DEF At, Place, Phases
<1>6. QED
  BY <1>1, <1>2, <1>3, <1>4, <1>5 DEF Follow

\* A frame that fits its place does not end the stream there.
LEMMA FitsDoesNotEnd ==
  ASSUME NEW fr, NEW p, Fits(fr, p)
  PROVE  ~Ends(fr, p)
BY DEF Fits, Ends, Frame, FileStart, FetchComplete

\* The stream is kept when neither end changes its place.
LEMMA StreamKept ==
  ASSUME StreamInv, rPc # "done", shape' = shape, toR' = toR, RPlace' = RPlace,
         SOver => SOver',
         ~cut' /\ ~SOver' => ~cut /\ ~SOver /\ SPlace' = SPlace
  PROVE  StreamInv'
<1>1. PICK pos \in [1..Len(toR) + 1 -> Place] : Placed(pos)
  BY DEF StreamInv
<1>2. pos \in [1..Len(toR') + 1 -> Place]
  OBVIOUS
<1>3. \A p : Follow(p)' = Follow(p)
  BY SameShape
<1>4. \A fr, p : Fits(fr, p) => Fits(fr, p)'
  BY SameShape
<1>5. \A fr, p : Ends(fr, p) => Ends(fr, p)'
  BY DEF Ends
<1>6. Placed(pos)'
  BY <1>1, <1>3, <1>4, <1>5 DEF Placed
<1>7. QED
  BY <1>2, <1>6 DEF StreamInv, Place, Phases

\* Reading the frame of its place takes the requester to the next.
LEMMA StreamRead ==
  ASSUME TypeInv, StreamInv, rPc # "done", shape' = shape,
         toR # <<>>, toR' = Tail(toR), Fits(Head(toR), RPlace),
         RPlace' = Follow(RPlace),
         SOver => SOver', SPlace' = SPlace, ~SOver' => ~SOver, cut' = cut
  PROVE  StreamInv'
<1>1. PICK pos \in [1..Len(toR) + 1 -> Place] : Placed(pos)
  BY DEF StreamInv
<1>2. PICK new : new = [i \in 1..Len(toR') + 1 |-> pos[i + 1]]
  OBVIOUS
<1>3. /\ Len(toR) \in Nat /\ Len(toR') = Len(toR) - 1 /\ Len(toR) >= 1
      /\ Head(toR) = toR[1]
      /\ \A i \in 1..Len(toR') : i + 1 \in 1..Len(toR) /\ toR'[i] = toR[i + 1]
  BY TailFacts DEF TypeInv
<1>4. \A i \in 1..Len(toR') : i + 1 = Len(toR) => i = Len(toR')
  BY TailFacts DEF TypeInv
<1>5. new \in [1..Len(toR') + 1 -> Place]
  BY <1>3, <1>2
<1>6. \A i \in 1..Len(toR') : new[i] = pos[i + 1] /\ new[i + 1] = pos[i + 2]
  BY <1>3, <1>2
<1>7. new[Len(toR') + 1] = pos[Len(toR) + 1] /\ new[1] = pos[2]
  BY <1>3, <1>2
<1>8. pos[2] = Follow(RPlace)
  <2>1. 1 \in 1..Len(toR) /\ 1 + 1 = 2
    BY <1>3
  <2>2. Fits(toR[1], pos[1]) /\ pos[1] = RPlace
    BY <1>1, <1>3 DEF Placed
  <2>3. ~Ends(toR[1], pos[1])
    BY <2>2, FitsDoesNotEnd
  <2>4. QED
    BY <1>1, <2>1, <2>2, <2>3 DEF Placed
<1>9. ASSUME NEW i \in 1..Len(toR')
      PROVE  \/ Fits(toR'[i], new[i]) /\ new[i + 1] = Follow(new[i])
             \/ Ends(toR'[i], new[i]) /\ i = Len(toR') /\ SOver'
  <2>1. /\ i + 1 \in 1..Len(toR) /\ toR'[i] = toR[i + 1]
        /\ new[i] = pos[i + 1] /\ new[i + 1] = pos[i + 2]
    BY <1>3, <1>6
  <2>2. \/ Fits(toR[i + 1], pos[i + 1]) /\ pos[(i + 1) + 1] = Follow(pos[i + 1])
        \/ Ends(toR[i + 1], pos[i + 1]) /\ i + 1 = Len(toR) /\ SOver
    BY <1>1, <2>1 DEF Placed
  <2>3. i + 1 = Len(toR) => i = Len(toR')
    BY <1>4
  <2>4. (i + 1) + 1 = i + 2
    BY <1>3
  <2>5. QED
    BY <2>1, <2>2, <2>3, <2>4
<1>10. /\ \A p : Follow(p) = Follow(p)'
       /\ \A f, p : Fits(f, p) => Fits(f, p)'
       /\ \A f, p : Ends(f, p) => Ends(f, p)'
  BY SameShape
<1>11. Placed(new)'
  BY <1>1, <1>3, <1>7, <1>8, <1>9, <1>10 DEF Placed
<1>12. QED
  BY <1>5, <1>11 DEF StreamInv, Place, Phases

\* Writing the frame of its place takes the origin to the next.
LEMMA StreamWrite ==
  ASSUME TypeInv, StreamInv, rPc # "done", shape' = shape,
         RPlace' = RPlace, ~cut, ~SOver,
         NEW fr \in Frames, toR' = Append(toR, fr),
         \/ Fits(fr, SPlace) /\ SPlace' = Follow(SPlace)
         \/ Ends(fr, SPlace) /\ SOver'
  PROVE  StreamInv'
<1>1. PICK pos \in [1..Len(toR) + 1 -> Place] : Placed(pos)
  BY DEF StreamInv
<1> DEFINE n == Len(toR)
<1>2. PICK new :
        new = [i \in 1..Len(toR') + 1 |-> IF i = n + 2 THEN Follow(SPlace) ELSE pos[i]]
  OBVIOUS
<1>3. n \in Nat /\ Len(toR') = n + 1 /\ toR'[n + 1] = fr
      /\ \A i \in 1..n : toR'[i] = toR[i]
  BY AppendFacts DEF TypeInv
<1>4. pos[n + 1] = SPlace
  BY <1>1 DEF Placed
<1>5. Follow(SPlace) \in Place
  BY <1>3, <1>4, FollowType
<1>6. new \in [1..Len(toR') + 1 -> Place]
  BY <1>3, <1>5, <1>2
<1>7. new[n + 2] = Follow(SPlace) /\ \A i \in 1..n + 1 : new[i] = pos[i]
  BY <1>3, <1>2
<1>8. ASSUME NEW i \in 1..Len(toR')
      PROVE  \/ Fits(toR'[i], new[i]) /\ new[i + 1] = Follow(new[i])
             \/ Ends(toR'[i], new[i]) /\ i = Len(toR') /\ SOver'
  <2>2. CASE i \in 1..n
    <3>1. Fits(toR[i], pos[i]) /\ pos[i + 1] = Follow(pos[i])
      BY <1>1, <2>2 DEF Placed
    <3>2. i + 1 \in 1..n + 1 /\ i \in 1..n + 1
      BY <1>3, <2>2
    <3>3. toR'[i] = toR[i] /\ new[i] = pos[i] /\ new[i + 1] = pos[i + 1]
      BY <1>3, <1>7, <2>2, <3>2
    <3>4. QED
      BY <3>1, <3>3
  <2>3. CASE i = n + 1
    <3>1. n + 1 \in 1..n + 1 /\ (n + 1) + 1 = n + 2 /\ i = Len(toR')
      BY <1>3, <2>3
    <3>2. toR'[i] = fr /\ new[i] = SPlace /\ new[i + 1] = Follow(SPlace)
      BY <1>3, <1>7, <1>4, <2>3, <3>1
    <3>3. QED
      BY <3>1, <3>2
  <2>4. QED
    BY <1>3, <2>2, <2>3
<1>9. new[1] = RPlace' /\ (~SOver' => new[Len(toR') + 1] = SPlace')
  <2>1. 1 \in 1..n + 1 /\ Len(toR') + 1 = n + 2
    BY <1>3
  <2>2. QED
    BY <1>1, <1>7, <2>1 DEF Placed
<1>10. /\ \A p : Follow(p) = Follow(p)'
       /\ \A f, p : Fits(f, p) => Fits(f, p)'
       /\ \A f, p : Ends(f, p) => Ends(f, p)'
  BY SameShape
<1>11. Placed(new)'
  BY <1>8, <1>9, <1>10 DEF Placed
<1>12. QED
  BY <1>6, <1>11 DEF StreamInv, Place, Phases

-----------------------------------------------------------------------------
(* A requester that moves on stays at its place in the stream, and one that *)
(* reads moves to the place that follows.                                  *)

\* A requester that moves on keeps the invariant.
LEMMA MovesKeeps ==
  ASSUME IInv, RequesterMoves
  PROVE  IInv'
<1>0. /\ TypeInv /\ OriginInv /\ RequesterInv /\ EndInv /\ StreamInv /\ ChangedInv
      /\ HonestInv /\ SnapshotInv
  BY DEF IInv
<1>1. /\ UNCHANGED <<shape, grant, path, handle, changes, whole, origin, sPc, sFile,
                     sSeen, sSet, sResult, toR, rFile, rSeen, rGot, rResult, rAttempt,
                     closed>>
      /\ cut => cut'
  <2>1. /\ UNCHANGED <<source, origin, toR, rFile, rSeen, rGot, rResult, rAttempt, closed>>
        /\ cut' = cut \/ cut' = ResetBy("S")
    BY DEF RequesterMoves, Moves, Admit, Go
  <2>2. cut => cut'
    BY <2>1 DEF ResetBy
  <2>3. QED
    BY <2>1, <2>2 DEF source, origin
<1>2. \/ rPc = "admit" /\ rPc' = "admitted" /\ taken' = taken
      \/ /\ rPc = "admitted" /\ taken' = taken
         /\ rPc' = IF IsText THEN "text" ELSE IF Len(Size) = 0 THEN "complete" ELSE "start"
      \/ rPc = "verified" /\ rPc' = "apply" /\ taken' = taken
      \/ rPc = "apply" /\ rPc' = "close" /\ taken' = <<rGot>>
  BY DEF RequesterMoves, Moves, Admit, Go
<1>3. rPc # "done" /\ rPc' # "done"
  BY <1>2
<1>4. toS' = toS \/ toS' = Append(toS, Coded("fetch_admission", "accepted"))
  BY DEF RequesterMoves, Moves, Admit, Go, Put
<1>5. Coded("fetch_admission", "accepted") \in Frames
  BY FrameTypes DEF CodedTypes, Codes
<1>6. TypeInv'
  <2>1. toS' \in Seq(Frames)
    <3>1. toS \in Seq(Frames)
      BY <1>0 DEF TypeInv
    <3>2. QED
      BY <1>4, <1>5, <3>1, AppendFacts
  <2>2. cut' \in BOOLEAN
    <3>1. cut' = cut \/ cut' = ResetBy("S")
      BY DEF RequesterMoves, Moves, Admit, Go
    <3>2. QED
      BY <1>0, <3>1 DEF ResetBy, TypeInv
  <2>3. rPc' \in RequesterSteps
    BY <1>2 DEF RequesterSteps
  <2>4. QED
    BY <1>0, <1>1, <2>1, <2>2, <2>3 DEF TypeInv, Files, Size
<1>7. OriginInv' /\ SPlace' = SPlace /\ SOver' = SOver /\ Broken' = Broken
  BY <1>0, <1>1, OriginKept
<1>8. RequesterInv' /\ RPlace' = RPlace
  <2>1. /\ Len(Size) \in Nat /\ Len(<<>>) = 0
        /\ IsText => Size[1] > 0 /\ Size[1] \in Nat
        /\ rFile \in Nat
    BY <1>0, ShapeFacts DEF TypeInv
  <2>2. /\ IsText' = IsText /\ Size' = Size /\ Files' = Files
        /\ Announced' = Announced /\ Payload' = Payload
        /\ \A n, d : FirstFiles(n, d)' = FirstFiles(n, d)
        /\ \A f : Zeros(f)' = Zeros(f)
    BY <1>1, SameShape
  <2>3. CASE rPc \in {"admit", "verified", "apply"}
    <3>1. RequesterInv'
      BY <1>0, <1>1, <1>2, <2>2, <2>3 DEF RequesterInv
    <3>2. RPlace' = RPlace
      BY <1>2, <2>2, <2>3 DEF RPlace, At
    <3>3. QED
      BY <3>1, <3>2
  <2>4. CASE rPc = "admitted"
    <3>1. rFile = 1 /\ rGot = <<>> /\ rSeen = <<>>
      BY <1>0, <2>4 DEF RequesterInv
    <3>2. CASE IsText
      <4>1. rPc' = "text"
        BY <1>2, <2>4, <3>2
      <4>2. RequesterInv'
        BY <1>1, <2>1, <2>2, <3>1, <3>2, <4>1 DEF RequesterInv
      <4>3. RPlace' = RPlace
        BY <1>1, <2>1, <2>2, <2>4, <3>1, <3>2, <4>1 DEF RPlace, Payload, InBlock
      <4>4. QED
        BY <4>2, <4>3
    <3>3. CASE ~IsText /\ Len(Size) = 0
      <4>1. rPc' = "complete"
        BY <1>2, <2>4, <3>3
      <4>2. FirstFiles(Len(Size), rGot)
        BY <2>1, <3>1, <3>3 DEF FirstFiles
      <4>3. rGot = Announced
        <5>1. rGot \in Seq(Nat \cup Digest)
          BY <1>0, WiderSeq DEF TypeInv
        <5>2. QED
          BY <1>0, <4>2, <5>1, FirstFilesAll
      <4>4. RequesterInv'
        BY <1>1, <2>1, <2>2, <3>1, <3>3, <4>1, <4>3 DEF RequesterInv
      <4>5. RPlace' = RPlace
        BY <2>2, <2>4, <3>3, <4>1 DEF RPlace, Payload, At
      <4>6. QED
        BY <4>4, <4>5
    <3>4. CASE ~IsText /\ Len(Size) # 0
      <4>1. rPc' = "start"
        BY <1>2, <2>4, <3>4
      <4>2. FirstFiles(rFile - 1, rGot) /\ rFile \in Files
        BY <2>1, <3>1, <3>4 DEF FirstFiles, Files
      <4>3. RequesterInv'
        BY <1>1, <2>2, <3>4, <4>1, <4>2 DEF RequesterInv
      <4>4. RPlace' = RPlace
        BY <1>1, <2>2, <2>4, <3>1, <3>4, <4>1 DEF RPlace, Payload, Start
      <4>5. QED
        BY <4>3, <4>4
    <3>5. QED
      BY <3>2, <3>3, <3>4
  <2>5. QED
    BY <1>2, <2>3, <2>4
<1>9. EndInv'
  <2>1. rPc = "apply" => rGot = Announced
    BY <1>0 DEF RequesterInv
  <2>2. Announced' = Announced
    BY <1>1, SameShape
  <2>3. \A i \in 1..Len(toS') : toS'[i] # Receipt("completed")
    <3>1. \A i \in 1..Len(toS) : toS[i] # Receipt("completed")
      BY <1>0, <1>3 DEF EndInv
    <3>2. Coded("fetch_admission", "accepted") # Receipt("completed")
      BY DEF Coded, Receipt
    <3>3. CASE toS' = toS
      BY <3>1, <3>3
    <3>4. CASE toS' = Append(toS, Coded("fetch_admission", "accepted"))
      <4>1. toS \in Seq(Frames)
        BY <1>0 DEF TypeInv
      <4>2. QED
        BY <1>5, <3>1, <3>2, <3>4, <4>1, AppendFacts
    <3>5. QED
      BY <1>4, <3>3, <3>4
  <2>4. Receipt("completed")' = Receipt("completed")
    BY DEF Receipt, Coded
  <2>5. QED
    BY <1>0, <1>1, <1>2, <2>1, <2>2, <2>3, <2>4 DEF EndInv
<1>10. StreamInv'
  BY <1>0, <1>1, <1>3, <1>7, <1>8, StreamKept
<1>11. ChangedInv'
  <2>1. rPc \notin {"blocks", "end"}
    BY <1>2
  <2>2. QED
    BY <1>0, <1>1, <1>3, <1>7, <2>1 DEF ChangedInv, Changed
<1>12. HonestInv'
  BY <1>0, <1>1, HonestKept DEF HonestInv
<1>13. SnapshotInv'
  <2>1. Snapshot => Snapshot'
    BY <1>1, SameShape DEF Snapshot
  <2>2. Completing' => Completing
    BY <1>1, <1>2 DEF Completing
  <2>3. sPc = "final" => Snapshot \/ \E f \in sFile'..Len(Size') : path'[f] # 0
    BY <1>0, <1>1, SameShape DEF SnapshotInv
  <2>4. QED
    BY <1>0, <1>1, <2>1, <2>2, <2>3 DEF SnapshotInv
<1>14. QED
  BY <1>6, <1>7, <1>8, <1>9, <1>10, <1>11, <1>12, <1>13 DEF IInv

\* A frame read is the one the requester is at, and it moves the requester to
\* the place that follows.
LEMMA ReadsFollow ==
  ASSUME IInv, RequesterReads
  PROVE  /\ RequesterInv'
         /\ Fits(Head(toR), RPlace) /\ RPlace' = Follow(RPlace)
         /\ rFile' \in Nat /\ rSeen' \in Digest /\ rGot' \in Seq(Digest)
<1>0. TypeInv /\ RequesterInv /\ shape' = shape
  BY DEF IInv, RequesterReads, Reading, source
<1>1. /\ IsText' = IsText /\ Size' = Size /\ Files' = Files
      /\ Announced' = Announced /\ Payload' = Payload
      /\ \A n, d : FirstFiles(n, d)' = FirstFiles(n, d)
      /\ \A f : Zeros(f)' = Zeros(f)
  BY <1>0, SameShape
<1>2. /\ Len(Size) \in Nat /\ \A f \in Files : f \in Nat /\ Size[f] \in Nat
      /\ IsText => 1 \in Files /\ Size[1] > 0 /\ Len(Size) = 1
  BY <1>0, ShapeFacts
<1>3. rSeen \in Seq(Nat) /\ Len(rSeen) \in Nat /\ rFile \in Nat /\ rGot \in Seq(Digest)
  BY <1>0 DEF TypeInv, Digest
<1>4. CASE /\ rPc = "header" /\ UNCHANGED <<rFile, rSeen, rGot>>
           /\ Reading(Frame("fetch_header"), IF IsText THEN "admit" ELSE "manifest")
  <2>1. Head(toR) = Frame("fetch_header") /\ rPc' = IF IsText THEN "admit" ELSE "manifest"
    BY <1>4 DEF Reading, Go
  <2>2. RequesterInv'
    BY <1>0, <1>1, <1>4, <2>1 DEF RequesterInv
  <2>3. Fits(Head(toR), RPlace) /\ RPlace' = Follow(RPlace)
    BY <1>1, <1>4, <2>1 DEF Fits, RPlace, Follow, At
  <2>4. QED
    BY <1>0, <1>4, <2>2, <2>3 DEF TypeInv
<1>5. CASE /\ rPc = "manifest" /\ UNCHANGED <<rFile, rSeen, rGot>>
           /\ Reading(Frame("manifest"), "admit")
  <2>1. Head(toR) = Frame("manifest") /\ rPc' = "admit"
    BY <1>5 DEF Reading, Go
  <2>2. RequesterInv'
    BY <1>0, <1>1, <1>5, <2>1 DEF RequesterInv
  <2>3. Fits(Head(toR), RPlace) /\ RPlace' = Follow(RPlace)
    BY <1>1, <1>5, <2>1 DEF Fits, RPlace, Follow, At
  <2>4. QED
    BY <1>0, <1>5, <2>2, <2>3 DEF TypeInv
<1>6. CASE /\ rPc \in {"text", "blocks"} /\ UNCHANGED <<rFile, rGot>>
           /\ Reading(Head(toR), IF Len(rSeen) + 1 < Size[rFile] THEN rPc
                                 ELSE IF IsText THEN "text_end" ELSE "end")
           /\ Head(toR).type = "block" /\ Head(toR).version \in Nat
           /\ IsText => Head(toR).version = 0
           /\ rSeen' = Append(rSeen, Head(toR).version)
  <2>1. rPc' = IF Len(rSeen) + 1 < Size[rFile] THEN rPc
               ELSE IF IsText THEN "text_end" ELSE "end"
    BY <1>6 DEF Reading, Go
  <2>2. rSeen' \in Seq(Nat) /\ Len(rSeen') = Len(rSeen) + 1
    BY <1>3, <1>6
  <2>3. /\ rFile \in Files /\ Size[rFile] \in Nat /\ Len(rSeen) < Size[rFile]
        /\ rPc = "text" => IsText /\ rFile = 1
        /\ rPc = "blocks" => ~IsText
    BY <1>0, <1>2, <1>6 DEF RequesterInv
  <2>4. ASSUME Len(rSeen) + 1 < Size[rFile]
        PROVE  RequesterInv' /\ RPlace' = InFile(rFile, Len(rSeen) + 1)
    <3>1. rPc' = rPc
      BY <2>1, <2>4
    <3>2. RequesterInv'
      BY <1>0, <1>1, <1>6, <2>2, <2>3, <2>4, <3>1 DEF RequesterInv
    <3>3. RPlace' = InBlock(rFile, Len(rSeen) + 2)
      BY <1>1, <1>3, <1>6, <2>2, <2>3, <3>1 DEF RPlace, InBlock
    <3>4. (Len(rSeen) + 1) + 1 = Len(rSeen) + 2
      BY <1>3
    <3>5. QED
      BY <2>4, <3>2, <3>3, <3>4 DEF InFile
  <2>5. ASSUME ~(Len(rSeen) + 1 < Size[rFile])
        PROVE  RequesterInv' /\ RPlace' = InFile(rFile, Len(rSeen) + 1)
    <3>1. rPc' = IF IsText THEN "text_end" ELSE "end"
      BY <2>1, <2>5
    <3>2. Len(rSeen') = Size[rFile]
      BY <1>3, <2>2, <2>3, <2>5
    <3>3. RequesterInv'
      BY <1>0, <1>1, <1>6, <2>3, <3>1, <3>2 DEF RequesterInv
    <3>4. RPlace' = End(rFile)
      BY <1>1, <1>6, <2>3, <3>1 DEF RPlace, End
    <3>5. QED
      BY <2>5, <3>3, <3>4 DEF InFile
  <2>6. RPlace = InBlock(rFile, Len(rSeen) + 1)
    BY <1>6, <2>3 DEF RPlace, InBlock
  <2>7. Fits(Head(toR), RPlace)
    BY <1>6, <2>6 DEF Fits, InBlock
  <2>8. Follow(RPlace) = InFile(rFile, Len(rSeen) + 1)
    BY <2>6 DEF Follow, InBlock
  <2>9. RPlace' = Follow(RPlace)
    BY <2>4, <2>5, <2>8
  <2>10. QED
    BY <1>3, <1>6, <2>2, <2>4, <2>5, <2>7, <2>9 DEF Digest
<1>7. CASE /\ rPc = "text_end" /\ UNCHANGED <<rFile, rSeen>>
           /\ Reading(TextEnd(Zeros(1)), "complete")
           /\ rSeen = Zeros(1) /\ rGot' = <<Zeros(1)>>
  <2>1. Head(toR) = TextEnd(Zeros(1)) /\ rPc' = "complete"
    BY <1>7 DEF Reading, Go
  <2>2. IsText /\ rFile = 1
    BY <1>0, <1>7 DEF RequesterInv
  <2>3. <<Zeros(1)>> = Announced /\ Announced \in Seq(Digest)
    <3>1. Files = {1} /\ Announced = [f \in Files |-> Zeros(f)]
      BY <1>0, <1>2, <2>2, AnnouncedFacts DEF Files
    <3>2. QED
      BY <1>0, <3>1, AnnouncedFacts
  <2>4. RequesterInv'
    BY <1>1, <1>7, <2>1, <2>3 DEF RequesterInv
  <2>5. RPlace = End(1) /\ RPlace' = At("complete")
    BY <1>7, <2>1 DEF RPlace
  <2>6. Fits(Head(toR), RPlace)
    BY <2>1, <2>2, <2>5 DEF Fits, End
  <2>7. Follow(RPlace) = At("complete")
    <3>1. Follow(RPlace) = AfterFile(1)
      BY <2>5 DEF Follow, End
    <3>2. Len(Size) = 1
      BY <1>2, <2>2
    <3>3. ~(1 < Len(Size))
      BY <3>2
    <3>4. QED
      BY <3>1, <3>3 DEF AfterFile
  <2>8. QED
    BY <1>3, <1>7, <2>3, <2>4, <2>5, <2>6, <2>7 DEF Digest
<1>8. CASE /\ rPc = "start" /\ UNCHANGED <<rFile, rGot>> /\ rSeen' = <<>>
           /\ Reading(FileStart(rFile), IF Size[rFile] = 0 THEN "end" ELSE "blocks")
  <2>1. Head(toR) = FileStart(rFile) /\ rPc' = IF Size[rFile] = 0 THEN "end" ELSE "blocks"
    BY <1>8 DEF Reading, Go
  <2>2. /\ ~IsText /\ rFile \in Files /\ Size[rFile] \in Nat /\ Len(<<>>) = 0
        /\ FirstFiles(rFile - 1, rGot) /\ <<>> \in Digest
    BY <1>0, <1>2, <1>8 DEF RequesterInv, Digest
  <2>3. RequesterInv'
    BY <1>1, <1>8, <2>1, <2>2 DEF RequesterInv
  <2>4. RPlace = Start(rFile)
    BY <1>8 DEF RPlace
  <2>5. Fits(Head(toR), RPlace)
    BY <2>1, <2>4 DEF Fits, Start
  <2>6. Follow(RPlace) = InFile(rFile, 0)
    BY <2>4 DEF Follow, Start
  <2>7. RPlace' = InFile(rFile, 0)
    BY <1>8, <2>1, <2>2 DEF RPlace, InFile, InBlock, End
  <2>8. QED
    BY <1>3, <1>8, <2>2, <2>3, <2>5, <2>6, <2>7
<1>9. CASE /\ rPc = "end" /\ UNCHANGED rSeen
           /\ Reading(FileEnd(rFile, Zeros(rFile)),
                      IF rFile = Len(Size) THEN "complete" ELSE "start")
           /\ rSeen = Zeros(rFile) /\ rGot' = Append(rGot, Zeros(rFile))
           /\ rFile' = IF rFile = Len(Size) THEN rFile ELSE rFile + 1
  <2>1. /\ Head(toR) = FileEnd(rFile, Zeros(rFile))
        /\ rPc' = IF rFile = Len(Size) THEN "complete" ELSE "start"
    BY <1>9 DEF Reading, Go
  <2>2. ~IsText /\ rFile \in Files /\ FirstFiles(rFile - 1, rGot)
    BY <1>0, <1>9 DEF RequesterInv
  <2>3. rGot \in Seq(Nat \cup Digest)
    BY <1>3, WiderSeq
  <2>4. FirstFiles(rFile, rGot')
    BY <1>0, <1>9, <2>2, <2>3, FirstFilesMore
  <2>5. Zeros(rFile) \in Digest
    BY <1>0, <2>2, ZerosFacts
  <2>6. rGot' \in Seq(Digest)
    BY <1>3, <1>9, <2>5, AppendFacts
  <2>7. RPlace = End(rFile)
    BY <1>9 DEF RPlace
  <2>8. Fits(Head(toR), RPlace)
    BY <2>1, <2>2, <2>7 DEF Fits, End
  <2>9. Follow(RPlace) = AfterFile(rFile)
    BY <2>7 DEF Follow, End
  <2>10. CASE rFile = Len(Size)
    <3>1. rPc' = "complete" /\ rFile' = rFile
      BY <1>9, <2>1, <2>10
    <3>2. rGot' \in Seq(Nat \cup Digest)
      BY <2>6, WiderSeq
    <3>3. rGot' = Announced
      BY <1>0, <2>4, <2>10, <3>2, FirstFilesAll
    <3>4. RequesterInv'
      BY <1>1, <2>2, <3>1, <3>3 DEF RequesterInv
    <3>5. RPlace' = AfterFile(rFile)
      BY <1>2, <2>10, <3>1 DEF RPlace, AfterFile, At
    <3>6. QED
      BY <1>3, <1>9, <2>6, <2>8, <2>9, <3>1, <3>4, <3>5 DEF Digest
  <2>11. CASE rFile # Len(Size)
    <3>1. rPc' = "start" /\ rFile' = rFile + 1
      BY <1>9, <2>1, <2>11
    <3>2. rFile + 1 \in Files /\ rFile < Len(Size) /\ (rFile + 1) - 1 = rFile
      BY <1>2, <1>3, <2>2, <2>11 DEF Files
    <3>3. RequesterInv'
      BY <1>1, <2>2, <2>4, <3>1, <3>2 DEF RequesterInv
    <3>4. RPlace' = AfterFile(rFile)
      BY <3>1, <3>2 DEF RPlace, AfterFile, Start
    <3>5. QED
      BY <1>3, <1>9, <2>6, <2>8, <2>9, <3>1, <3>3, <3>4 DEF Digest
  <2>12. QED
    BY <2>10, <2>11
<1>10. CASE /\ rPc = "complete" /\ UNCHANGED <<rFile, rSeen, rGot>>
            /\ Reading(IF IsText THEN FetchComplete(0, Zeros(1))
                       ELSE FetchComplete(Len(Size), Announced), "verified")
  <2>1. /\ Head(toR) = IF IsText THEN FetchComplete(0, Zeros(1))
                       ELSE FetchComplete(Len(Size), Announced)
        /\ rPc' = "verified"
    BY <1>10 DEF Reading, Go
  <2>2. RequesterInv'
    BY <1>0, <1>1, <1>10, <2>1 DEF RequesterInv
  <2>3. RPlace = At("complete") /\ RPlace' = At("over")
    BY <1>10, <2>1 DEF RPlace, At
  <2>4. Fits(Head(toR), RPlace) /\ Follow(RPlace) = At("over")
    BY <2>1, <2>3 DEF Fits, Follow, At
  <2>5. QED
    BY <1>3, <1>10, <2>2, <2>3, <2>4 DEF Digest
<1>11. QED
  BY <1>4, <1>5, <1>6, <1>7, <1>8, <1>9, <1>10 DEF RequesterReads

\* A requester that reads keeps the invariant.
LEMMA ReadsKeeps ==
  ASSUME IInv, RequesterReads
  PROVE  IInv'
<1>0. /\ TypeInv /\ OriginInv /\ RequesterInv /\ EndInv /\ StreamInv /\ ChangedInv
      /\ HonestInv /\ SnapshotInv
  BY DEF IInv
<1>1. /\ UNCHANGED <<source, origin, rResult, rAttempt, toS, closed, cut, taken>>
      /\ toR # <<>> /\ toR' = Tail(toR)
      /\ rPc \in Reads
      /\ rPc' \in Reads \cup {"admit", "verified"}
  BY DEF RequesterReads, Reading, Go, Reads
<1>2. UNCHANGED <<shape, grant, path, handle, changes, whole, sPc, sFile, sSeen, sSet,
                  sResult>>
  BY <1>1 DEF source, origin
<1>3. /\ toR' \in Seq(Frames) /\ Len(toR) \in Nat /\ Len(toR') = Len(toR) - 1
      /\ Len(toR) >= 1 /\ Head(toR) = toR[1]
      /\ \A i \in 1..Len(toR') : i + 1 \in 1..Len(toR) /\ toR'[i] = toR[i + 1]
  BY <1>0, <1>1, TailFacts DEF TypeInv
<1>4. /\ RequesterInv' /\ Fits(Head(toR), RPlace) /\ RPlace' = Follow(RPlace)
      /\ rFile' \in Nat /\ rSeen' \in Digest /\ rGot' \in Seq(Digest)
  BY ReadsFollow
<1>5. TypeInv'
  <2>1. rPc' \in RequesterSteps
    BY <1>1 DEF RequesterSteps, Reads
  <2>2. QED
    BY <1>0, <1>1, <1>2, <1>3, <1>4, <2>1 DEF TypeInv, Files, Size
<1>6. OriginInv' /\ SPlace' = SPlace /\ SOver' = SOver /\ Broken' = Broken
  BY <1>0, <1>1, <1>2, OriginKept
<1>7. EndInv'
  <2>1. Announced' = Announced
    BY <1>2, SameShape
  <2>2. rPc \notin {"close", "done"} /\ rPc' \notin {"close", "done"}
    BY <1>1 DEF Reads
  <2>3. Receipt("completed")' = Receipt("completed")
    BY DEF Receipt, Coded
  <2>4. QED
    BY <1>0, <1>1, <1>2, <2>1, <2>2, <2>3 DEF EndInv
<1>8. StreamInv'
  <2>1. rPc # "done"
    BY <1>1 DEF Reads
  <2>2. QED
    BY <1>0, <1>1, <1>2, <1>4, <1>6, <2>1, StreamRead
<1>9. ChangedInv'
  <2>1. ASSUME NEW i \in 1..Len(toR'), Changed(toR'[i])
        PROVE  Broken' /\ \A j \in i..Len(toR') : toR'[j].type = "block"
    <3>1. i + 1 \in 1..Len(toR) /\ Changed(toR[i + 1])
      BY <1>3, <2>1
    <3>2. Broken /\ \A j \in (i + 1)..Len(toR) : toR[j].type = "block"
      BY <1>0, <3>1 DEF ChangedInv
    <3>3. \A j \in i..Len(toR') : j + 1 \in (i + 1)..Len(toR) /\ toR'[j] = toR[j + 1]
      BY <1>3
    <3>4. QED
      BY <1>6, <3>2, <3>3
  <2>2. rPc # "done"
    BY <1>1 DEF Reads
  <2>3. ASSUME Broken, \A j \in 1..Len(toR) : toR[j].type = "block"
        PROVE  Broken' /\ \A j \in 1..Len(toR') : toR'[j].type = "block"
    BY <1>3, <1>6, <2>3
  <2>4. ASSUME NEW b \in 1..Len(rSeen'), rSeen'[b] # 0
        PROVE  /\ Broken' /\ rPc' \in {"blocks", "end"}
               /\ \A j \in 1..Len(toR') : toR'[j].type = "block"
    <3>1. CASE rSeen' = rSeen
      <4>1. /\ \A j \in 1..Len(toR) : toR[j].type = "block"
            /\ rPc \in {"blocks", "end"}
        BY <1>0, <2>2, <2>4, <3>1 DEF ChangedInv
      <4>2. toR[1].type = "block"
        BY <1>3, <4>1
      <4>3. CASE rPc = "end"
        BY <1>1, <1>3, <4>2, <4>3, HeadIs DEF FileEnd
      <4>4. CASE rPc = "blocks"
        BY <1>0, <3>1, <4>4, AppendFacts DEF RequesterReads, TypeInv, Digest
      <4>5. QED
        BY <4>1, <4>3, <4>4
    <3>2. CASE rSeen' = <<>>
      BY <2>4, <3>2
    <3>3. CASE /\ rPc \in {"text", "blocks"} /\ Head(toR).type = "block"
               /\ Head(toR).version \in Nat /\ (IsText => Head(toR).version = 0)
               /\ rSeen' = Append(rSeen, Head(toR).version)
               /\ rPc' = IF Len(rSeen) + 1 < Size[rFile] THEN rPc
                         ELSE IF IsText THEN "text_end" ELSE "end"
      <4>1. rSeen \in Seq(Nat)
        BY <1>0 DEF TypeInv, Digest
      <4>2. (b \in 1..Len(rSeen) /\ rSeen[b] # 0) \/ Head(toR).version # 0
        BY <2>4, <3>3, <4>1, AppendFacts
      <4>3. CASE b \in 1..Len(rSeen) /\ rSeen[b] # 0
        <5>1. /\ Broken /\ rPc = "blocks"
              /\ \A j \in 1..Len(toR) : toR[j].type = "block"
          BY <1>0, <2>2, <3>3, <4>3 DEF ChangedInv
        <5>2. ~IsText
          BY <1>0, <5>1 DEF RequesterInv
        <5>3. rPc' \in {"blocks", "end"}
          BY <3>3, <5>1, <5>2
        <5>4. QED
          BY <2>3, <5>1, <5>3
      <4>4. CASE Head(toR).version # 0
        <5>1. 1 \in 1..Len(toR) /\ Changed(toR[1])
          BY <1>3, <3>3, <4>4 DEF Changed
        <5>2. Broken /\ \A j \in 1..Len(toR) : toR[j].type = "block"
          BY <1>0, <5>1 DEF ChangedInv
        <5>3. ~IsText
          BY <3>3, <4>4
        <5>4. rPc = "blocks"
          BY <1>0, <3>3, <5>3 DEF RequesterInv
        <5>5. rPc' \in {"blocks", "end"}
          BY <3>3, <5>3, <5>4
        <5>6. QED
          BY <2>3, <5>2, <5>5
      <4>5. QED
        BY <4>2, <4>3, <4>4
    <3>4. QED
      BY <3>1, <3>2, <3>3 DEF RequesterReads, Reading, Go
  <2>5. QED
    BY <2>1, <2>4 DEF ChangedInv, Changed
<1>10. HonestInv'
  <2>1. \A i \in 1..Len(toR') : toR'[i].type \in {"fetch_refusal", "fetch_abort"}
                                 => Honest(toR'[i].code)
    BY <1>0, <1>3 DEF HonestInv
  <2>2. \A code : Honest(code) => Honest(code)'
    BY <1>2, HonestKept
  <2>3. QED
    BY <1>0, <1>1, <2>1, <2>2 DEF HonestInv
<1>11. SnapshotInv'
  <2>1. Snapshot => Snapshot'
    BY <1>2, SameShape DEF Snapshot
  <2>2. Completing' => Completing
    <3>1. CASE \E i \in 1..Len(toR') : toR'[i].type = "fetch_complete"
      BY <1>3, <3>1 DEF Completing
    <3>2. CASE rPc' = "verified"
      <4>1. rPc = "complete"
        BY <3>2 DEF RequesterReads, Reading, Go
      <4>2. Head(toR).type = "fetch_complete"
        BY <1>4, <4>1 DEF Fits, RPlace, At, FetchComplete
      <4>3. QED
        BY <1>3, <4>2 DEF Completing
    <3>3. CASE rResult' = "completed"
      BY <1>1, <3>3 DEF Completing
    <3>4. QED
      BY <1>1, <3>1, <3>2, <3>3 DEF Completing, Reads
  <2>3. sPc = "final" => Snapshot \/ \E f \in sFile'..Len(Size') : path'[f] # 0
    BY <1>0, <1>2, SameShape DEF SnapshotInv
  <2>4. QED
    BY <1>0, <1>2, <2>1, <2>2, <2>3 DEF SnapshotInv
<1>12. QED
  BY <1>4, <1>5, <1>6, <1>7, <1>8, <1>9, <1>10, <1>11 DEF IInv

-----------------------------------------------------------------------------
(* A step of the origin writes the frame it is at, or one that ends the     *)
(* stream there; or it returns; or it moves on without writing.            *)

OriginWrites(fr) ==
  /\ fr \in Frames /\ toR' = Put(toR, "R", fr) /\ cut' = ResetBy("R")
  /\ UNCHANGED <<shape, path, whole, requester, toS, closed, sResult>>
  /\ ~SOver /\ sPc # "receipt" /\ sPc' \notin {"done", "final"}
  /\ \/ Fits(fr, SPlace) /\ SPlace' = Follow(SPlace)
     \/ Ends(fr, SPlace) /\ SOver'
  /\ Changed(fr) => Broken'
  /\ Broken => Broken' /\ fr.type = "block"
  /\ fr.type \in {"fetch_refusal", "fetch_abort"} => Honest(fr.code)
  /\ fr.type = "fetch_complete" => sPc' = "receipt"
  /\ sPc' \in {"complete", "receipt"} => Snapshot

OriginReturns ==
  /\ sPc # "done" /\ sPc' = "done" /\ toR' = toR /\ toS' = <<>>
  /\ closed' = closed \cup {"S"} /\ (cut => cut')
  /\ UNCHANGED <<shape, path, whole, requester>>
  /\ sResult' # "open" /\ (sResult' = "delivered" => rResult = "completed")

OriginMoves ==
  /\ UNCHANGED <<shape, path, requester, toR, closed, cut, sResult>>
  /\ toS' = toS \/ (toS # <<>> /\ toS' = Tail(toS))
  /\ ~SOver /\ ~SOver' /\ ~Broken /\ sPc # "receipt" /\ SPlace' = SPlace
  /\ sPc' = "final" => \/ Files = {} \/ whole'
                       \/ \E f \in sFile'..Len(Size) : path[f] # 0
  /\ sPc' # "receipt"
  /\ sPc' = "complete" => Snapshot'

\* An origin that writes keeps the invariant.
LEMMA WritesKeeps ==
  ASSUME IInv, TypeInv', OriginInv', NEW fr, OriginWrites(fr)
  PROVE  IInv'
<1>0. /\ TypeInv /\ OriginInv /\ RequesterInv /\ EndInv /\ StreamInv /\ ChangedInv
      /\ HonestInv /\ SnapshotInv
  BY DEF IInv
<1>1. /\ UNCHANGED <<shape, path, whole, rPc, rFile, rSeen, rGot, cancel, rResult,
                     rAttempt, taken, toS, closed, sResult>>
      /\ sPc \notin {"receipt", "done"} /\ sPc' # "done" /\ ~SOver
  BY DEF OriginWrites, requester, SOver
<1>2. RequesterInv' /\ RPlace' = RPlace
  BY <1>0, <1>1, RequesterKept
<1>3. Announced' = Announced /\ Receipt("completed")' = Receipt("completed")
  BY <1>1, SameShape DEF Receipt, Coded
<1>4. EndInv'
  BY <1>0, <1>1, <1>3 DEF EndInv
<1>5. (Snapshot => Snapshot') /\ (\A code : Honest(code) => Honest(code)')
  BY <1>1, SameShape, HonestKept DEF Snapshot
<1>6. ~Completing
  BY <1>0, <1>1 DEF SnapshotInv
<1>7. CASE cut \/ "R" \in closed
  <2>1. toR' = toR /\ cut'
    BY <1>7 DEF OriginWrites, Put, ResetBy
  <2>2. StreamInv'
    <3>1. CASE rPc = "done"
      BY <1>1, <3>1 DEF StreamInv
    <3>2. CASE rPc # "done"
      BY <1>0, <1>1, <1>2, <2>1, <3>2, StreamKept
    <3>3. QED
      BY <3>1, <3>2
  <2>3. ChangedInv'
    BY <1>0, <1>1, <2>1 DEF ChangedInv, OriginWrites, Changed
  <2>4. HonestInv'
    BY <1>0, <1>1, <1>5, <2>1 DEF HonestInv
  <2>5. SnapshotInv'
    BY <1>1, <1>5, <1>6, <2>1 DEF SnapshotInv, OriginWrites, Completing
  <2>6. QED
    BY <1>2, <1>4, <2>2, <2>3, <2>4, <2>5 DEF IInv
<1>8. CASE ~(cut \/ "R" \in closed)
  <2>1. toR' = Append(toR, fr) /\ toR \in Seq(Frames) /\ fr \in Frames
    BY <1>0, <1>8 DEF OriginWrites, Put, TypeInv
  <2>2. /\ Len(toR) \in Nat /\ Len(toR') = Len(toR) + 1 /\ toR'[Len(toR) + 1] = fr
        /\ \A i \in 1..Len(toR) : toR'[i] = toR[i]
        /\ \A i \in 1..Len(toR') : i \in 1..Len(toR) \/ i = Len(toR) + 1
    BY <2>1, AppendFacts
  <2>3. StreamInv'
    <3>1. CASE rPc = "done"
      BY <1>1, <3>1 DEF StreamInv
    <3>2. CASE rPc # "done"
      BY <1>0, <1>1, <1>2, <1>8, <2>1, <3>2, StreamWrite DEF OriginWrites
    <3>3. QED
      BY <3>1, <3>2
  <2>4. ChangedInv'
    <3>1. /\ Changed(fr) => Broken' /\ fr.type = "block"
          /\ Broken => Broken' /\ fr.type = "block"
      BY DEF OriginWrites, Changed
    <3>2. ASSUME NEW i \in 1..Len(toR'), Changed(toR'[i])
          PROVE  Broken' /\ \A j \in i..Len(toR') : toR'[j].type = "block"
      <4>1. CASE i \in 1..Len(toR)
        <5>1. Broken /\ \A j \in i..Len(toR) : toR[j].type = "block"
          BY <1>0, <2>2, <3>2, <4>1 DEF ChangedInv
        <5>2. \A j \in i..Len(toR') : (j \in i..Len(toR) /\ toR'[j] = toR[j]) \/ toR'[j] = fr
          BY <2>2, <4>1
        <5>3. QED
          BY <3>1, <5>1, <5>2
      <4>2. CASE i = Len(toR) + 1
        <5>1. toR'[i] = fr /\ \A j \in i..Len(toR') : toR'[j] = fr
          BY <2>2, <4>2
        <5>2. QED
          BY <3>1, <3>2, <5>1
      <4>3. QED
        BY <2>2, <4>1, <4>2
    <3>3. ASSUME rPc # "done", \E b \in 1..Len(rSeen) : rSeen[b] # 0
          PROVE  /\ Broken' /\ rPc \in {"blocks", "end"}
                 /\ \A j \in 1..Len(toR') : toR'[j].type = "block"
      <4>1. /\ Broken /\ rPc \in {"blocks", "end"}
            /\ \A j \in 1..Len(toR) : toR[j].type = "block"
        BY <1>0, <3>3 DEF ChangedInv
      <4>2. QED
        BY <2>2, <3>1, <4>1
    <3>4. QED
      BY <1>1, <3>2, <3>3 DEF ChangedInv, Changed
  <2>5. HonestInv'
    <3>1. \A i \in 1..Len(toR') : toR'[i].type \in {"fetch_refusal", "fetch_abort"}
                                   => Honest(toR'[i].code)
      BY <1>0, <2>2 DEF HonestInv, OriginWrites
    <3>2. QED
      BY <1>0, <1>1, <1>5, <3>1 DEF HonestInv
  <2>6. SnapshotInv'
    <3>1. Completing' => fr.type = "fetch_complete"
      BY <1>1, <1>6, <2>2 DEF Completing
    <3>2. QED
      BY <1>1, <1>5, <3>1 DEF SnapshotInv, OriginWrites
  <2>7. QED
    BY <1>2, <1>4, <2>3, <2>4, <2>5, <2>6 DEF IInv
<1>9. QED
  BY <1>7, <1>8

\* An origin that returns keeps the invariant.
LEMMA ReturnsKeeps ==
  ASSUME IInv, TypeInv', OriginReturns
  PROVE  IInv'
<1>0. /\ TypeInv /\ OriginInv /\ RequesterInv /\ EndInv /\ StreamInv /\ ChangedInv
      /\ HonestInv /\ SnapshotInv
  BY DEF IInv
<1>1. /\ UNCHANGED <<shape, path, whole, rPc, rFile, rSeen, rGot, cancel, rResult,
                     rAttempt, taken, toR>>
      /\ sPc' = "done" /\ SOver' /\ Broken'
  BY DEF OriginReturns, requester, SOver, Broken
<1>2. RequesterInv' /\ RPlace' = RPlace
  BY <1>0, <1>1, RequesterKept
<1>3. OriginInv'
  BY <1>1 DEF OriginInv, Walks
<1>4. EndInv'
  <2>1. Announced' = Announced
    BY <1>1, SameShape
  <2>2. QED
    BY <1>0, <1>1, <2>1 DEF EndInv, OriginReturns
<1>5. StreamInv'
  <2>1. CASE rPc = "done"
    BY <1>1, <2>1 DEF StreamInv
  <2>2. CASE rPc # "done"
    BY <1>0, <1>1, <1>2, <2>2, StreamKept
  <2>3. QED
    BY <2>1, <2>2
<1>6. ChangedInv'
  BY <1>0, <1>1 DEF ChangedInv, Changed
<1>7. HonestInv'
  BY <1>0, <1>1, HonestKept DEF HonestInv
<1>8. SnapshotInv'
  <2>1. Snapshot => Snapshot'
    BY <1>1, SameShape DEF Snapshot
  <2>2. Completing' => Completing
    BY <1>1 DEF Completing
  <2>3. QED
    BY <1>0, <1>1, <2>1, <2>2 DEF SnapshotInv
<1>9. QED
  BY <1>2, <1>3, <1>4, <1>5, <1>6, <1>7, <1>8 DEF IInv

\* An origin that moves on keeps the invariant.
LEMMA OriginMovesKeeps ==
  ASSUME IInv, TypeInv', OriginInv', OriginMoves
  PROVE  IInv'
<1>0. /\ TypeInv /\ OriginInv /\ RequesterInv /\ EndInv /\ StreamInv /\ ChangedInv
      /\ HonestInv /\ SnapshotInv
  BY DEF IInv
<1>1. /\ UNCHANGED <<shape, path, rPc, rFile, rSeen, rGot, cancel, rResult,
                     rAttempt, taken, toR, closed, cut, sResult>>
      /\ sPc \notin {"receipt", "done"} /\ sPc' # "done" /\ ~Broken
  BY DEF OriginMoves, requester, SOver
<1>2. RequesterInv' /\ RPlace' = RPlace
  BY <1>0, <1>1, RequesterKept
<1>3. EndInv'
  <2>1. Announced' = Announced
    BY <1>1, SameShape
  <2>2. \A i \in 1..Len(toS') : toS'[i] = Receipt("completed") => rResult = "completed"
    <3>1. CASE toS' = toS
      BY <1>0, <3>1 DEF EndInv
    <3>2. CASE toS # <<>> /\ toS' = Tail(toS)
      <4>1. \A i \in 1..Len(toS') : i + 1 \in 1..Len(toS) /\ toS'[i] = toS[i + 1]
        BY <1>0, <3>2, TailFacts DEF TypeInv
      <4>2. QED
        BY <1>0, <4>1 DEF EndInv
    <3>3. QED
      BY <3>1, <3>2 DEF OriginMoves
  <2>3. Receipt("completed")' = Receipt("completed")
    BY DEF Receipt, Coded
  <2>4. QED
    BY <1>0, <1>1, <2>1, <2>2, <2>3 DEF EndInv
<1>4. StreamInv'
  <2>1. CASE rPc = "done"
    BY <1>1, <2>1 DEF StreamInv
  <2>2. CASE rPc # "done"
    BY <1>0, <1>1, <1>2, <2>2, StreamKept DEF OriginMoves
  <2>3. QED
    BY <2>1, <2>2
<1>5. ChangedInv'
  BY <1>0, <1>1 DEF ChangedInv, Changed
<1>6. HonestInv'
  BY <1>0, <1>1, HonestKept DEF HonestInv
<1>7. SnapshotInv'
  <2>1. ~Completing'
    <3>1. ~Completing
      BY <1>0, <1>1 DEF SnapshotInv
    <3>2. QED
      BY <1>1, <3>1 DEF Completing
  <2>2. /\ Files' = Files /\ Size' = Size
    BY <1>1, SameShape
  <2>3. QED
    BY <1>1, <2>1, <2>2 DEF SnapshotInv, OriginMoves, Snapshot
<1>8. QED
  BY <1>2, <1>3, <1>4, <1>5, <1>6, <1>7 DEF IInv

\* A walk that fails blames the file it is at.
LEMMA WalkHonest ==
  ASSUME TypeInv, sFile \in Files, path[sFile] # 0
  PROVE  /\ Honest(SourceFailure(path[sFile]))
         /\ \A code \in WalkCodes(path[sFile]) : Honest(code)
<1>1. Honest(SourceFailure(path[sFile])) /\ Honest("source_changed")
  BY DEF Honest, SourceFailure
<1>2. QED
  BY <1>1 DEF WalkCodes

\* The frames that end the stream, and the places where the origin sends them.
LEMMA EndingWrites ==
  ASSUME IInv, NEW type, NEW code \in Codes, Honest(code),
         \/ /\ type = "fetch_refusal" /\ sPc \in {"authorise", "plan"}
            /\ SendThen(Coded(type, code), "refused")
         \/ /\ type = "fetch_abort" /\ sPc \in {"recheck", "final", "open", "opened", "ended"}
            /\ SendThen(Coded(type, code), "aborted"),
         UNCHANGED <<shape, path, whole, requester>>
  PROVE  OriginInv' /\ OriginWrites(Coded(type, code))
<1> DEFINE fr == Coded(type, code)
<1>1. fr.type = type /\ fr.code = code /\ type \in {"fetch_refusal", "fetch_abort"}
  BY DEF Coded
<1>2. fr \in Frames
  BY <1>1, FrameTypes DEF CodedTypes
<1>3. sPc' \in {"refused", "aborted"} /\ SOver' /\ ~SOver /\ ~Broken
  BY DEF SendThen, SOver, Broken
<1>4. OriginInv'
  BY <1>3 DEF OriginInv, Walks
<1>5. Ends(fr, SPlace)
  <2>1. CASE sPc \in {"authorise", "plan"}
    BY <1>1, <2>1 DEF Ends, SPlace, At
  <2>2. CASE sPc = "recheck"
    <3>1. ~IsText
      BY <2>2 DEF IInv, OriginInv
    <3>2. SPlace \in {Start(1), At("complete")}
      BY <2>2, <3>1 DEF SPlace, Payload
    <3>3. QED
      BY <1>1, <2>2, <3>2 DEF Ends, Start, At
  <2>3. CASE sPc = "final"
    BY <1>1, <2>3 DEF Ends, SPlace, At
  <2>4. CASE sPc \in {"open", "opened"}
    BY <1>1, <2>4 DEF Ends, SPlace, Start
  <2>5. CASE sPc = "ended"
    BY <1>1, <2>5 DEF Ends, SPlace, AfterFile, Start, At
  <2> QED
    BY <2>1, <2>2, <2>3, <2>4, <2>5
<1>6. /\ toR' = Put(toR, "R", fr) /\ cut' = ResetBy("R")
      /\ UNCHANGED <<toS, closed, sResult>>
  BY DEF SendThen
<1> HIDE DEF fr
<1>7. OriginWrites(fr)
  BY <1>1, <1>2, <1>3, <1>5, <1>6 DEF OriginWrites, Changed
<1>8. QED
  BY <1>4, <1>7 DEF fr

\* Returning, for whatever reason, ends the origin's side.
LEMMA ReturningSteps ==
  ASSUME IInv, sPc # "done", UNCHANGED <<shape, path, whole, requester, toR>>,
         NEW result \in {"refused", "failed", "closed", "aborted", "delivered"},
         result = "delivered" => rResult = "completed",
         NEW rest, SReturn(result, rest)
  PROVE  OriginReturns
BY DEF SReturn, OriginReturns

-----------------------------------------------------------------------------
(* The origin's actions, one by one.                                       *)

OriginKeeps == OriginInv' /\ (OriginMoves \/ OriginReturns \/ \E fr : OriginWrites(fr))

\* handle_fetch authorises, or refuses for a reason of its own.
LEMMA AuthoriseDoes ==
  ASSUME IInv, Authorise
  PROVE  OriginKeeps
<1>0. TypeInv /\ OriginInv /\ shape' = shape
  BY DEF IInv, Authorise, source
<1>1. CASE grant # "none"
  <2>1. grant \in Codes /\ Honest(grant)
    BY <1>0, <1>1 DEF TypeInv, Codes, Refusals, Honest
  <2>2. OriginInv' /\ OriginWrites(Coded("fetch_refusal", grant))
    BY <1>1, <2>1, EndingWrites DEF Authorise, source
  <2>3. QED
    BY <2>2 DEF OriginKeeps
<1>2. CASE grant = "none"
  <2>1. /\ sPc = "authorise" /\ sPc' = IF IsText THEN "header" ELSE "plan"
        /\ UNCHANGED <<shape, path, requester, toR, toS, closed, cut, sResult,
                       sFile, sSeen, sSet>>
    BY <1>2 DEF Authorise, wire, source
  <2>2. sSeen = <<>> /\ sSet = <<>> /\ sFile = 1 /\ Len(Size) \in Nat
    BY <1>0, <2>1, ShapeFacts DEF OriginInv
  <2>3. IsText' = IsText /\ Size' = Size
    BY <1>0, SameShape
  <2>4. OriginInv'
    BY <2>1, <2>2, <2>3 DEF OriginInv, Walks
  <2>5. SPlace' = SPlace
    BY <2>1 DEF SPlace, At
  <2>6. OriginMoves
    BY <2>1, <2>5 DEF OriginMoves, SOver, Broken
  <2>7. QED
    BY <2>4, <2>6 DEF OriginKeeps
<1>3. QED
  BY <1>1, <1>2

\* A walk passes a file that is as announced.
LEMMA WalkFileDoes ==
  ASSUME IInv, WalkFile
  PROVE  OriginKeeps
<1>0. TypeInv /\ OriginInv /\ SnapshotInv /\ shape' = shape
  BY DEF IInv, WalkFile, source
<1>1. /\ sPc \in Walks /\ sFile <= Len(Size) /\ path[sFile] = 0 /\ sFile' = sFile + 1
      /\ UNCHANGED <<path, whole, handle, requester, toR, toS, closed, cut, sResult,
                     sPc, sSeen, sSet>>
  BY DEF WalkFile, wire, source
<1>2. Len(Size) \in Nat /\ sFile \in Nat /\ sFile \in 1..Len(Size) + 1 /\ ~IsText
  BY <1>0, <1>1, ShapeFacts DEF OriginInv, Walks
<1>3. sFile' \in 1..Len(Size) + 1
  BY <1>1, <1>2
<1>4. /\ IsText' = IsText /\ Size' = Size /\ Files' = Files /\ Payload' = Payload
      /\ \A n, d : FirstFiles(n, d)' = FirstFiles(n, d)
  BY <1>0, SameShape
<1>5. OriginInv'
  BY <1>0, <1>1, <1>2, <1>3, <1>4 DEF OriginInv, Walks
<1>6. SPlace' = SPlace
  BY <1>1, <1>4 DEF SPlace, Walks, At
<1>7. sPc = "final" => \/ Files = {} \/ whole'
                       \/ \E f \in sFile'..Len(Size) : path[f] # 0
  <2>1. CASE sPc = "final" /\ \E f \in sFile..Len(Size) : path[f] # 0
    <3>1. PICK f \in sFile..Len(Size) : path[f] # 0
      BY <2>1
    <3>2. f \in sFile'..Len(Size)
      BY <1>1, <1>2, <3>1
    <3>3. QED
      BY <3>1, <3>2
  <2>2. QED
    BY <1>0, <1>1, <1>2, <2>1 DEF SnapshotInv, Snapshot
<1>8. OriginMoves
  BY <1>0, <1>1, <1>6, <1>7 DEF OriginMoves, SOver, Broken, Walks
<1>9. QED
  BY <1>5, <1>8 DEF OriginKeeps

\* A walk that ends found every file it passed as announced.
LEMMA WalkEndsDoes ==
  ASSUME IInv, WalkEnds
  PROVE  OriginKeeps
<1>0. TypeInv /\ OriginInv /\ SnapshotInv /\ shape' = shape
  BY DEF IInv, WalkEnds, source
<1>1. /\ sPc \in Walks /\ sFile > Len(Size) /\ sFile' = 1
      /\ UNCHANGED <<path, whole, handle, requester, toR, toS, closed, cut, sResult,
                     sSeen, sSet>>
  BY DEF WalkEnds, wire, source
<1>2. \/ sPc = "plan" /\ sPc' = "header"
      \/ sPc = "recheck" /\ Len(Size) = 0 /\ sPc' = "final"
      \/ sPc = "recheck" /\ Len(Size) # 0 /\ sPc' = "open"
      \/ sPc = "final" /\ sPc' = "complete"
  BY <1>1 DEF WalkEnds, Walks, AfterWalk
<1>3. Len(Size) \in Nat /\ ~IsText /\ sFile \in Nat
  BY <1>0, <1>1, ShapeFacts DEF OriginInv, Walks, TypeInv
<1>4. /\ IsText' = IsText /\ Size' = Size /\ Files' = Files /\ Payload' = Payload
      /\ \A n, d : FirstFiles(n, d)' = FirstFiles(n, d)
  BY <1>0, SameShape
<1>5. sPc = "recheck" => sSet = <<>> /\ sSeen = <<>> /\ FirstFiles(0, sSet)
  BY <1>0, <1>3 DEF OriginInv, FirstFiles
<1>6. OriginInv' /\ SPlace' = SPlace
  <2>1. CASE sPc = "plan" /\ sPc' = "header"
    <3>1. OriginInv'
      BY <1>0, <1>1, <1>3, <1>4, <2>1 DEF OriginInv, Walks
    <3>2. QED
      BY <2>1, <3>1 DEF SPlace, At
  <2>2. CASE sPc = "recheck" /\ Len(Size) = 0 /\ sPc' = "final"
    <3>1. OriginInv'
      BY <1>1, <1>3, <1>4, <1>5, <2>2 DEF OriginInv, Walks
    <3>2. QED
      BY <1>3, <2>2, <3>1 DEF SPlace, At, Payload
  <2>3. CASE sPc = "recheck" /\ Len(Size) # 0 /\ sPc' = "open"
    <3>1. sFile' \in Files /\ sFile' - 1 = 0
      BY <1>1, <1>3, <2>3 DEF Files
    <3>2. OriginInv'
      BY <1>1, <1>3, <1>4, <1>5, <2>3, <3>1 DEF OriginInv, Walks
    <3>3. QED
      BY <1>1, <1>3, <2>3, <3>2 DEF SPlace, Start, Payload
  <2>4. CASE sPc = "final" /\ sPc' = "complete"
    <3>1. OriginInv'
      BY <1>0, <1>1, <1>3, <1>4, <2>4 DEF OriginInv, Walks
    <3>2. QED
      BY <2>4, <3>1 DEF SPlace, At
  <2>5. QED
    BY <1>2, <2>1, <2>2, <2>3, <2>4
<1>7. sPc = "final" => Snapshot'
  <2>1. \A f \in sFile..Len(Size) : FALSE
    BY <1>1, <1>3
  <2>2. QED
    BY <1>0, <1>1, <1>4, <2>1 DEF SnapshotInv, Snapshot
<1>8. Len(Size) = 0 => Files = {}
  BY DEF Files
<1>9. OriginMoves
  BY <1>0, <1>1, <1>2, <1>6, <1>7, <1>8 DEF OriginMoves, SOver, Broken
<1>10. QED
  BY <1>6, <1>9 DEF OriginKeeps

\* A walk that fails, or a plan with no encoding, is a refusal or an abort.
LEMMA WalkFailsDoes ==
  ASSUME IInv, WalkFails \/ UnchangedSourceFails \/ PlanMalformed
  PROVE  OriginKeeps
<1>1. CASE WalkFails
  <2>1. PICK code \in WalkCodes(path[sFile]) :
          IF sPc = "plan" THEN SendThen(Coded("fetch_refusal", code), "refused")
                          ELSE SendThen(Coded("fetch_abort", code), "aborted")
    BY <1>1 DEF WalkFails
  <2>2. /\ sPc \in Walks /\ sFile <= Len(Size) /\ path[sFile] # 0
        /\ UNCHANGED <<shape, path, whole, requester>>
    BY <1>1 DEF WalkFails, source
  <2>3. TypeInv /\ sFile \in 1..Len(Size) + 1 /\ Len(Size) \in Nat
    BY <2>2, ShapeFacts DEF IInv, OriginInv
  <2>4. sFile \in Files
    BY <2>2, <2>3 DEF Files
  <2>5. code \in Codes /\ Honest(code)
    BY <2>2, <2>3, <2>4, CodeTypes, WalkHonest
  <2>6. \E type : OriginInv' /\ OriginWrites(Coded(type, code))
    BY <2>1, <2>2, <2>5, EndingWrites DEF Walks
  <2>7. QED
    BY <2>6 DEF OriginKeeps
<1>2. CASE PlanMalformed
  <2>1. "malformed" \in Codes /\ Honest("malformed")
    BY DEF Codes, Refusals, Honest
  <2>2. OriginInv' /\ OriginWrites(Coded("fetch_refusal", "malformed"))
    BY <1>2, <2>1, EndingWrites DEF PlanMalformed, source
  <2>3. QED
    BY <2>2 DEF OriginKeeps
<1>3. CASE UnchangedSourceFails
  <2>1. PICK code \in Grievances :
          IF sPc = "plan" THEN SendThen(Coded("fetch_refusal", code), "refused")
                          ELSE SendThen(Coded("fetch_abort", code), "aborted")
    BY <1>3 DEF UnchangedSourceFails
  <2>2. /\ sPc \in Walks \cup {"open", "opened", "ended"}
        /\ UNCHANGED <<shape, path, whole, requester>>
    BY <1>3 DEF UnchangedSourceFails, source
  <2>3. code \in Codes /\ Honest(code)
    BY <2>1 DEF Grievances, Codes, Honest
  <2>4. \E type : OriginInv' /\ OriginWrites(Coded(type, code))
    BY <2>1, <2>2, <2>3, EndingWrites DEF Walks
  <2>5. QED
    BY <2>4 DEF OriginKeeps
<1>4. QED
  BY <1>1, <1>2, <1>3

\* Header and manifest are the first frames.
LEMMA SendHeaderDoes ==
  ASSUME IInv, SendHeader \/ SendManifest
  PROVE  OriginKeeps
<1>0. TypeInv /\ OriginInv /\ UNCHANGED <<shape, path, whole, requester, sFile, sSeen, sSet>>
  BY DEF IInv, SendHeader, SendManifest, source
<1>1. IsText' = IsText /\ Payload' = Payload /\ Len(Size) \in Nat /\ Size' = Size
  BY <1>0, SameShape, ShapeFacts
<1>2. CASE SendHeader
  <2>1. /\ sPc = "header" /\ sPc' = IF IsText THEN "admission" ELSE "manifest"
        /\ toR' = Put(toR, "R", Frame("fetch_header")) /\ cut' = ResetBy("R")
        /\ UNCHANGED <<toS, closed, sResult>>
    BY <1>2 DEF SendHeader, SendThen
  <2>2. OriginInv'
    BY <1>0, <1>1, <2>1 DEF OriginInv, Walks
  <2>3. Fits(Frame("fetch_header"), SPlace)
    BY <2>1 DEF Fits, SPlace, At
  <2>4. SPlace' = Follow(SPlace)
    BY <1>1, <2>1 DEF SPlace, Follow, At
  <2>5. Frame("fetch_header") \in Frames /\ Frame("fetch_header").type = "fetch_header"
    BY FrameTypes DEF Frame
  <2>6. OriginWrites(Frame("fetch_header"))
    BY <1>0, <2>1, <2>3, <2>4, <2>5 DEF OriginWrites, SOver, Broken, Changed
  <2>7. QED
    BY <2>2, <2>6 DEF OriginKeeps
<1>3. CASE SendManifest
  <2>1. /\ sPc = "manifest" /\ sPc' = "admission"
        /\ toR' = Put(toR, "R", Frame("manifest")) /\ cut' = ResetBy("R")
        /\ UNCHANGED <<toS, closed, sResult>>
    BY <1>3 DEF SendManifest, SendThen
  <2>2. OriginInv'
    BY <1>0, <1>1, <2>1 DEF OriginInv, Walks
  <2>3. Fits(Frame("manifest"), SPlace)
    BY <2>1 DEF Fits, SPlace, At
  <2>4. SPlace' = Follow(SPlace)
    BY <1>1, <2>1 DEF SPlace, Follow, At
  <2>5. Frame("manifest") \in Frames /\ Frame("manifest").type = "manifest"
    BY FrameTypes DEF Frame
  <2>6. OriginWrites(Frame("manifest"))
    BY <1>0, <2>1, <2>3, <2>4, <2>5 DEF OriginWrites, SOver, Broken, Changed
  <2>7. QED
    BY <2>2, <2>6 DEF OriginKeeps
<1>4. QED
  BY <1>2, <1>3

\* Only an accepted admission starts the payload.
LEMMA ReadAdmissionDoes ==
  ASSUME IInv, ReadAdmission
  PROVE  OriginKeeps
<1>0. /\ TypeInv /\ OriginInv /\ sPc = "admission" /\ toS # <<>>
      /\ UNCHANGED <<shape, path, whole, requester, toR, sFile, sSeen, sSet>>
  BY DEF IInv, ReadAdmission
<1>1. CASE Head(toS) = Coded("fetch_admission", "accepted")
  <2>1. /\ sPc' = IF IsText THEN "text" ELSE "recheck"
        /\ toS' = Tail(toS) /\ UNCHANGED <<closed, cut, sResult, handle>>
    BY <1>1 DEF ReadAdmission
  <2>2. /\ sSeen = <<>> /\ sSet = <<>> /\ sFile = 1 /\ Len(Size) \in Nat
        /\ IsText => Size[1] > 0 /\ Size[1] \in Nat
    BY <1>0, ShapeFacts DEF OriginInv
  <2>3. /\ IsText' = IsText /\ Size' = Size /\ Payload' = Payload
        /\ \A f, b : InFile(f, b)' = InFile(f, b)
    BY <1>0, SameShape
  <2>4. OriginInv'
    BY <1>0, <2>1, <2>2, <2>3 DEF OriginInv, Walks
  <2>5. IsText => Payload = InFile(1, 0)
    BY <2>2 DEF Payload, InFile
  <2>6. SPlace' = SPlace
    BY <1>0, <2>1, <2>2, <2>3, <2>5 DEF SPlace
  <2>7. OriginMoves
    BY <1>0, <2>1, <2>6 DEF OriginMoves, SOver, Broken
  <2>8. QED
    BY <2>4, <2>7 DEF OriginKeeps
<1>2. CASE Head(toS) # Coded("fetch_admission", "accepted")
  <2>1. SReturn("failed", Tail(toS))
    BY <1>2 DEF ReadAdmission
  <2>2. OriginInv'
    BY <2>1 DEF OriginInv, Walks, SReturn
  <2>3. QED
    BY <1>0, <2>1, <2>2, ReturningSteps DEF OriginKeeps
<1>3. QED
  BY <1>1, <1>2

\* A text is sent as it was stored.
LEMMA SendTextDoes ==
  ASSUME IInv, SendText
  PROVE  OriginKeeps
<1>0. /\ TypeInv /\ OriginInv /\ sPc = "text" /\ IsText
      /\ UNCHANGED <<shape, path, whole, requester, sFile>>
      /\ toR' = Put(toR, "R", IF Len(sSeen) < Size[1] THEN Block(0) ELSE TextEnd(sSeen))
      /\ cut' = ResetBy("R") /\ UNCHANGED <<toS, closed, sResult>>
  BY DEF IInv, SendText, SendThen, OriginInv, source
<1>1. /\ 1 \in Files /\ Size[1] \in Nat /\ sSeen \in Seq(Nat) /\ Len(sSeen) \in Nat
      /\ Len(sSeen) <= Size[1] /\ (\A b \in 1..Len(sSeen) : sSeen[b] = 0)
      /\ Len(Size) = 1
  BY <1>0, ShapeFacts DEF TypeInv, OriginInv, Digest
<1>2. /\ IsText' = IsText /\ Size' = Size /\ \A f : Zeros(f)' = Zeros(f)
      /\ \A f, b : InFile(f, b)' = InFile(f, b)
  BY <1>0, SameShape
<1>3. CASE Len(sSeen) < Size[1]
  <2>1. sPc' = "text" /\ sSeen' = Append(sSeen, 0) /\ sSet' = sSet
    BY <1>0, <1>3 DEF SendText, SendThen
  <2>2. Len(sSeen') = Len(sSeen) + 1 /\ \A b \in 1..Len(sSeen') : sSeen'[b] = 0
    BY <1>1, <2>1, AppendFacts
  <2>3. OriginInv'
    BY <1>0, <1>1, <1>2, <1>3, <2>1, <2>2 DEF OriginInv, Walks
  <2>4. SPlace = InBlock(1, Len(sSeen) + 1)
    BY <1>0, <1>3 DEF SPlace, InFile
  <2>5. SPlace' = InFile(1, Len(sSeen) + 1)
    BY <1>2, <2>1, <2>2 DEF SPlace
  <2>6. Follow(SPlace) = InFile(1, Len(sSeen) + 1)
    BY <2>4 DEF Follow, InBlock
  <2>7. Block(0) \in Frames /\ Block(0).type = "block" /\ Block(0).version = 0
    BY FrameTypes DEF Block
  <2>8. Fits(Block(0), SPlace)
    BY <2>4, <2>7 DEF Fits, InBlock
  <2>9. OriginWrites(Block(0))
    BY <1>0, <1>3, <2>1, <2>5, <2>6, <2>7, <2>8 DEF OriginWrites, SOver, Broken, Changed
  <2>10. QED
    BY <2>3, <2>9 DEF OriginKeeps
<1>4. CASE ~(Len(sSeen) < Size[1])
  <2>1. sPc' = "complete" /\ sSet' = sSeen /\ sSeen' = sSeen
    BY <1>0, <1>4 DEF SendText, SendThen
  <2>2. sSeen = Zeros(1)
    <3>1. Len(sSeen) = Size[1] /\ sSeen \in Digest
      BY <1>1, <1>4 DEF Digest
    <3>2. QED
      BY <1>0, <1>1, <3>1, AllZeros
  <2>3. OriginInv'
    BY <1>0, <1>2, <2>1, <2>2 DEF OriginInv, Walks
  <2>4. SPlace = End(1)
    BY <1>0, <1>4 DEF SPlace, InFile
  <2>5. SPlace' = At("complete")
    BY <2>1 DEF SPlace, At
  <2>6. Follow(SPlace) = At("complete")
    <3>1. Follow(SPlace) = AfterFile(1)
      BY <2>4 DEF Follow, End
    <3>2. ~(1 < Len(Size))
      BY <1>1
    <3>3. QED
      BY <3>1, <3>2 DEF AfterFile
  <2>7. TextEnd(sSeen) \in Frames /\ TextEnd(sSeen).type = "text_end"
    BY <1>1, FrameTypes DEF TextEnd, Digest
  <2>8. Fits(TextEnd(sSeen), SPlace)
    BY <1>0, <2>2, <2>4 DEF Fits, End
  <2>9. OriginWrites(TextEnd(sSeen))
    BY <1>0, <1>4, <2>1, <2>5, <2>6, <2>7, <2>8
    DEF OriginWrites, SOver, Broken, Changed, Snapshot
  <2>10. QED
    BY <2>3, <2>9 DEF OriginKeeps
<1>5. QED
  BY <1>3, <1>4

\* A file whose metadata changed before its first byte, or after its last, is
\* answered with an abort.
LEMMA AbortDoes ==
  ASSUME IInv, sPc \in {"open", "opened", "ended"}, path[sFile] # 0,
         Abort(SourceFailure(path[sFile])), UNCHANGED <<shape, path, whole, requester>>
  PROVE  OriginKeeps
<1>1. TypeInv /\ sFile \in Files
  BY DEF IInv, OriginInv
<1>2. SourceFailure(path[sFile]) \in Codes /\ Honest(SourceFailure(path[sFile]))
  BY <1>1, CodeTypes, WalkHonest
<1>3. OriginInv' /\ OriginWrites(Coded("fetch_abort", SourceFailure(path[sFile])))
  BY <1>2, EndingWrites DEF Abort
<1>4. QED
  BY <1>3 DEF OriginKeeps

\* A path is opened if it is as announced, else the stream is aborted.
LEMMA VerifyPathDoes ==
  ASSUME IInv, VerifyPath
  PROVE  OriginKeeps
<1>0. /\ TypeInv /\ OriginInv /\ sPc = "open"
      /\ UNCHANGED <<shape, path, whole, handle, requester, sFile, sSeen, sSet>>
  BY DEF IInv, VerifyPath, source
<1>1. CASE path[sFile] # 0
  BY <1>0, <1>1, AbortDoes DEF VerifyPath
<1>2. CASE path[sFile] = 0
  <2>1. sPc' = "opened" /\ UNCHANGED <<toR, toS, closed, cut, sResult>>
    BY <1>0, <1>2 DEF VerifyPath, wire
  <2>2. /\ IsText' = IsText /\ Files' = Files
        /\ \A n, d : FirstFiles(n, d)' = FirstFiles(n, d)
    BY <1>0, SameShape
  <2>3. OriginInv'
    BY <1>0, <2>1, <2>2 DEF OriginInv, Walks
  <2>4. SPlace' = SPlace
    BY <1>0, <2>1 DEF SPlace, Start
  <2>5. OriginMoves
    BY <1>0, <2>1, <2>4 DEF OriginMoves, SOver, Broken
  <2>6. QED
    BY <2>3, <2>5 DEF OriginKeeps
<1>3. QED
  BY <1>1, <1>2

\* A file starts if what was opened is as announced, else the stream is aborted.
LEMMA OpenFileDoes ==
  ASSUME IInv, OpenFile
  PROVE  OriginKeeps
<1>0. /\ TypeInv /\ OriginInv /\ sPc = "opened" /\ ~IsText
      /\ sFile \in Files /\ FirstFiles(sFile - 1, sSet)
      /\ UNCHANGED <<shape, path, whole, requester, sFile, sSet>>
  BY DEF IInv, OpenFile, OriginInv
<1>1. CASE path[sFile] # 0
  BY <1>0, <1>1, AbortDoes DEF OpenFile
<1>2. CASE path[sFile] = 0
  <2>1. /\ sPc' = "blocks" /\ sSeen' = <<>> /\ handle' = [version |-> 0, linked |-> TRUE]
        /\ toR' = Put(toR, "R", FileStart(sFile)) /\ cut' = ResetBy("R")
        /\ UNCHANGED <<toS, closed, sResult>>
    BY <1>2 DEF OpenFile, SendThen
  <2>2. Size[sFile] \in Nat /\ Len(<<>>) = 0 /\ sFile \in Nat
    BY <1>0, ShapeFacts
  <2>3. /\ IsText' = IsText /\ Files' = Files /\ Size' = Size
        /\ \A n, d : FirstFiles(n, d)' = FirstFiles(n, d)
        /\ \A f, b : InFile(f, b)' = InFile(f, b)
    BY <1>0, SameShape
  <2>4. OriginInv'
    BY <1>0, <2>1, <2>2, <2>3 DEF OriginInv, Walks
  <2>5. SPlace = Start(sFile)
    BY <1>0 DEF SPlace
  <2>6. SPlace' = InFile(sFile, 0)
    BY <1>0, <2>1, <2>2, <2>3 DEF SPlace
  <2>7. Follow(SPlace) = InFile(sFile, 0)
    BY <2>5 DEF Follow, Start
  <2>8. FileStart(sFile) \in Frames /\ FileStart(sFile).type = "file_start"
    BY <2>2, FrameTypes DEF FileStart
  <2>9. Fits(FileStart(sFile), SPlace)
    BY <2>5 DEF Fits, Start
  <2>10. OriginWrites(FileStart(sFile))
    BY <1>0, <2>1, <2>6, <2>7, <2>8, <2>9 DEF OriginWrites, SOver, Broken, Changed
  <2>11. QED
    BY <2>4, <2>10 DEF OriginKeeps
<1>3. QED
  BY <1>1, <1>2

\* A block carries the version of the open file: after a change the file cannot
\* be finished any more.
LEMMA SendBlockDoes ==
  ASSUME IInv, SendBlock
  PROVE  OriginKeeps
<1>0. /\ TypeInv /\ OriginInv /\ sPc = "blocks" /\ ~IsText /\ sFile \in Files
      /\ Len(sSeen) < Size[sFile] /\ sPc' = "blocks"
      /\ sSeen' = Append(sSeen, handle.version)
      /\ UNCHANGED <<shape, path, whole, handle, requester, sFile, sSet>>
      /\ toR' = Put(toR, "R", Block(handle.version))
      /\ cut' = ResetBy("R") /\ UNCHANGED <<toS, closed, sResult>>
  BY DEF IInv, SendBlock, SendThen, OriginInv, source
<1>1. /\ Size[sFile] \in Nat /\ sSeen \in Seq(Nat) /\ Len(sSeen) \in Nat
      /\ handle.version \in Nat
      /\ handle.version = 0 => \A b \in 1..Len(sSeen) : sSeen[b] = 0
  BY <1>0, ShapeFacts DEF TypeInv, OriginInv, Digest
<1>2. /\ Len(sSeen') = Len(sSeen) + 1
      /\ handle.version = 0 => \A b \in 1..Len(sSeen') : sSeen'[b] = 0
  BY <1>0, <1>1, AppendFacts
<1>3. /\ IsText' = IsText /\ Files' = Files /\ Size' = Size
      /\ \A n, d : FirstFiles(n, d)' = FirstFiles(n, d)
      /\ \A f, b : InFile(f, b)' = InFile(f, b)
  BY <1>0, SameShape
<1>4. OriginInv'
  BY <1>0, <1>1, <1>2, <1>3 DEF OriginInv, Walks
<1>5. SPlace = InBlock(sFile, Len(sSeen) + 1)
  BY <1>0 DEF SPlace, InFile
<1>6. SPlace' = InFile(sFile, Len(sSeen) + 1)
  BY <1>0, <1>2, <1>3 DEF SPlace
<1>7. Follow(SPlace) = InFile(sFile, Len(sSeen) + 1)
  BY <1>5 DEF Follow, InBlock
<1>8. /\ Block(handle.version) \in Frames /\ Block(handle.version).type = "block"
      /\ Block(handle.version).version = handle.version
  BY <1>1, FrameTypes DEF Block
<1>9. Fits(Block(handle.version), SPlace)
  BY <1>0, <1>1, <1>5, <1>8 DEF Fits, InBlock
<1>10. OriginWrites(Block(handle.version))
  BY <1>0, <1>6, <1>7, <1>8, <1>9 DEF OriginWrites, SOver, Broken, Changed
<1>11. QED
  BY <1>4, <1>10 DEF OriginKeeps

\* A file ends with its digest if it did not change while it was read.
LEMMA SendFileEndDoes ==
  ASSUME IInv, SendFileEnd
  PROVE  OriginKeeps
<1>0. /\ TypeInv /\ OriginInv /\ sPc = "blocks" /\ ~IsText /\ sFile \in Files
      /\ Len(sSeen) = Size[sFile] /\ handle.version = 0 /\ sPc' = "ended"
      /\ FirstFiles(sFile - 1, sSet) /\ sSet' = Append(sSet, sSeen)
      /\ UNCHANGED <<shape, path, whole, handle, requester, sFile, sSeen>>
      /\ toR' = Put(toR, "R", FileEnd(sFile, sSeen))
      /\ cut' = ResetBy("R") /\ UNCHANGED <<toS, closed, sResult>>
  BY DEF IInv, SendFileEnd, SendThen, OriginInv, source
<1>1. /\ Size[sFile] \in Nat /\ sSeen \in Digest /\ sFile \in Nat
      /\ sSet \in Seq(Nat \cup Digest)
      /\ \A b \in 1..Len(sSeen) : sSeen[b] = 0
  BY <1>0, ShapeFacts DEF TypeInv, OriginInv
<1>2. sSeen = Zeros(sFile)
  BY <1>0, <1>1, AllZeros
<1>3. FirstFiles(sFile, sSet')
  BY <1>0, <1>1, <1>2, FirstFilesMore
<1>4. /\ IsText' = IsText /\ Files' = Files
      /\ \A n, d : FirstFiles(n, d)' = FirstFiles(n, d)
      /\ \A f : AfterFile(f)' = AfterFile(f)
  BY <1>0, SameShape
<1>5. OriginInv'
  BY <1>0, <1>3, <1>4 DEF OriginInv, Walks
<1>6. SPlace = End(sFile)
  <2>1. ~(Len(sSeen) < Size[sFile])
    BY <1>0, <1>1
  <2>2. QED
    BY <1>0, <2>1 DEF SPlace, InFile
<1>7. SPlace' = AfterFile(sFile)
  BY <1>0, <1>4 DEF SPlace
<1>8. Follow(SPlace) = AfterFile(sFile)
  BY <1>6 DEF Follow, End
<1>9. FileEnd(sFile, sSeen) \in Frames /\ FileEnd(sFile, sSeen).type = "file_end"
  BY <1>1, FrameTypes DEF FileEnd
<1>10. Fits(FileEnd(sFile, sSeen), SPlace)
  BY <1>0, <1>2, <1>6 DEF Fits, End
<1>11. OriginWrites(FileEnd(sFile, sSeen))
  BY <1>0, <1>7, <1>8, <1>9, <1>10 DEF OriginWrites, SOver, Broken, Changed
<1>12. QED
  BY <1>5, <1>11 DEF OriginKeeps

\* After a file the path is verified again.
LEMMA FileDoneDoes ==
  ASSUME IInv, FileDone
  PROVE  OriginKeeps
<1>0. /\ TypeInv /\ OriginInv /\ sPc = "ended" /\ ~IsText /\ sFile \in Files
      /\ FirstFiles(sFile, sSet)
      /\ UNCHANGED <<shape, path, requester, sSeen, sSet>>
  BY DEF IInv, FileDone, OriginInv
<1>1. CASE path[sFile] # 0
  <2>1. Abort(SourceFailure(path[sFile])) /\ UNCHANGED whole
    BY <1>1 DEF FileDone
  <2>2. QED
    BY <1>0, <1>1, <2>1, AbortDoes
<1>2. CASE path[sFile] = 0
  <2>1. /\ sPc' = IF sFile = Len(Size) THEN "final" ELSE "open"
        /\ sFile' = IF sFile = Len(Size) THEN 1 ELSE sFile + 1
        /\ sFile = Len(Size) /\ (\A f \in Files : path[f] = 0) => whole'
        /\ UNCHANGED <<toR, toS, closed, cut, sResult>>
    BY <1>2 DEF FileDone, wire
  <2>2. Len(Size) \in Nat /\ sFile \in Nat /\ sFile >= 1 /\ sFile <= Len(Size)
    BY <1>0, ShapeFacts DEF Files
  <2>3. /\ IsText' = IsText /\ Files' = Files /\ Size' = Size
        /\ \A n, d : FirstFiles(n, d)' = FirstFiles(n, d)
    BY <1>0, SameShape
  <2>4. SPlace = AfterFile(sFile)
    BY <1>0 DEF SPlace
  <2>5. CASE sFile = Len(Size)
    <3>1. sPc' = "final" /\ sFile' = 1
      BY <2>1, <2>5
    <3>2. OriginInv'
      BY <1>0, <2>2, <2>3, <2>5, <3>1 DEF OriginInv, Walks
    <3>3. SPlace' = SPlace
      BY <2>2, <2>4, <2>5, <3>1 DEF SPlace, AfterFile, At
    <3>4. whole' \/ \E f \in sFile'..Len(Size) : path[f] # 0
      BY <2>1, <2>5, <3>1 DEF Files
    <3>5. OriginMoves
      BY <1>0, <2>1, <3>1, <3>3, <3>4 DEF OriginMoves, SOver, Broken
    <3>6. QED
      BY <3>2, <3>5 DEF OriginKeeps
  <2>6. CASE sFile # Len(Size)
    <3>1. sPc' = "open" /\ sFile' = sFile + 1
      BY <2>1, <2>6
    <3>2. sFile' \in Files /\ sFile' - 1 = sFile /\ sFile < Len(Size)
      BY <2>2, <2>6, <3>1 DEF Files
    <3>3. OriginInv'
      BY <1>0, <2>3, <3>1, <3>2 DEF OriginInv, Walks
    <3>4. SPlace' = SPlace
      BY <2>4, <3>1, <3>2 DEF SPlace, AfterFile, Start
    <3>5. OriginMoves
      BY <1>0, <2>1, <3>1, <3>4 DEF OriginMoves, SOver, Broken
    <3>6. QED
      BY <3>3, <3>5 DEF OriginKeeps
  <2>7. QED
    BY <2>5, <2>6
<1>3. QED
  BY <1>1, <1>2

\* fetch_complete is sent after the last walk.
LEMMA SendCompleteDoes ==
  ASSUME IInv, SendComplete
  PROVE  OriginKeeps
<1> DEFINE fr == FetchComplete(IF IsText THEN 0 ELSE Len(sSet), sSet)
<1>0. /\ TypeInv /\ OriginInv /\ SnapshotInv /\ sPc = "complete" /\ sPc' = "receipt"
      /\ UNCHANGED <<shape, path, whole, requester, sFile, sSeen, sSet>>
      /\ toR' = Put(toR, "R", fr) /\ cut' = ResetBy("R")
      /\ UNCHANGED <<toS, closed, sResult>>
  BY DEF IInv, SendComplete, SendThen, source
<1>1. sSet \in Seq(Nat \cup Digest) /\ Len(sSet) \in Nat
  BY <1>0 DEF TypeInv
<1>2. OriginInv'
  BY <1>0 DEF OriginInv, Walks
<1>3. fr = IF IsText THEN FetchComplete(0, Zeros(1))
           ELSE FetchComplete(Len(Size), Announced)
  <2>1. CASE IsText
    BY <1>0, <2>1 DEF OriginInv
  <2>2. CASE ~IsText
    <3>1. FirstFiles(Len(Size), sSet)
      BY <1>0, <2>2 DEF OriginInv
    <3>2. sSet = Announced
      BY <1>0, <1>1, <3>1, FirstFilesAll
    <3>3. Len(sSet) = Len(Size)
      BY <3>1 DEF FirstFiles
    <3>4. QED
      BY <2>2, <3>2, <3>3
  <2>3. QED
    BY <2>1, <2>2
<1>4. fr \in Frames /\ fr.type = "fetch_complete"
  <2>1. (IF IsText THEN 0 ELSE Len(sSet)) \in Nat
    BY <1>1
  <2>2. QED
    BY <1>1, <2>1, FrameTypes DEF FetchComplete
<1> HIDE DEF fr
<1>5. SPlace = At("complete") /\ SPlace' = At("over")
  BY <1>0 DEF SPlace, At
<1>6. Fits(fr, SPlace) /\ Follow(SPlace) = At("over")
  BY <1>3, <1>5 DEF Fits, Follow, At
<1>7. Snapshot
  BY <1>0 DEF SnapshotInv
<1>8. OriginWrites(fr)
  BY <1>0, <1>4, <1>5, <1>6, <1>7 DEF OriginWrites, SOver, Broken, Changed
<1>9. QED
  BY <1>2, <1>8 DEF OriginKeeps

\* An origin that returns believes a completed receipt only.
LEMMA ReturnDoes ==
  ASSUME IInv, Refused \/ MidStream \/ ReadReceipt \/ OriginFails
  PROVE  OriginKeeps
<1>1. sPc # "done" /\ UNCHANGED <<shape, path, whole, requester, toR>>
  BY DEF Refused, MidStream, ReadReceipt, OriginFails, Walks
<1>2. PICK result \in {"refused", "failed", "closed", "aborted", "delivered"},
           rest \in {toS, Tail(toS)} :
        /\ SReturn(result, rest)
        /\ result = "delivered" => toS # <<>> /\ Head(toS) = Receipt("completed")
  BY DEF Refused, MidStream, ReadReceipt, OriginFails, Receipt
<1>3. result = "delivered" => rResult = "completed"
  <2>1. ASSUME result = "delivered"
        PROVE  1 \in 1..Len(toS) /\ toS[1] = Receipt("completed")
    BY <1>2, <2>1 DEF IInv, TypeInv
  <2>2. QED
    BY <2>1 DEF IInv, EndInv
<1>4. OriginReturns
  BY <1>1, <1>2, <1>3, ReturningSteps
<1>5. OriginInv'
  BY <1>4 DEF OriginReturns, OriginInv, Walks
<1>6. QED
  BY <1>4, <1>5 DEF OriginKeeps

\* Every step of the origin keeps the invariant.
LEMMA OriginStepKeeps ==
  ASSUME IInv, OriginStep
  PROVE  IInv'
<1>1. TypeInv'
  BY OriginType
<1>2. OriginKeeps
  BY AuthoriseDoes, WalkFileDoes, WalkEndsDoes, WalkFailsDoes, SendHeaderDoes,
     ReadAdmissionDoes, SendTextDoes, VerifyPathDoes, OpenFileDoes, SendBlockDoes,
     SendFileEndDoes, FileDoneDoes, SendCompleteDoes, ReturnDoes
  DEF OriginStep
<1>3. QED
  BY <1>1, <1>2, WritesKeeps, ReturnsKeeps, OriginMovesKeeps DEF OriginKeeps

-----------------------------------------------------------------------------
(* The world's steps.                                                      *)

\* A cancel, a reset, or nothing at all.
LEMMA QuietKeeps ==
  ASSUME IInv, cut' \in BOOLEAN, cut => cut',
         UNCHANGED <<source, origin, rPc, rFile, rSeen, rGot, rResult, rAttempt, taken,
                     toR, toS, closed>>
  PROVE  IInv'
<1>0. /\ TypeInv /\ OriginInv /\ RequesterInv /\ EndInv /\ StreamInv /\ ChangedInv
      /\ HonestInv /\ SnapshotInv
  BY DEF IInv
<1>1. UNCHANGED <<shape, grant, path, handle, changes, whole, sPc, sFile, sSeen, sSet,
                  sResult, rPc, rFile, rSeen, rGot, rResult, rAttempt, taken, toR, toS,
                  closed>>
  BY DEF source, origin
<1>2. TypeInv'
  BY <1>0, <1>1 DEF TypeInv, Files, Size
<1>3. OriginInv' /\ SPlace' = SPlace /\ SOver' = SOver /\ Broken' = Broken
  BY <1>0, <1>1, OriginKept
<1>4. RequesterInv' /\ RPlace' = RPlace
  BY <1>0, <1>1, RequesterKept
<1>5. EndInv'
  <2>1. Announced' = Announced /\ Receipt("completed")' = Receipt("completed")
    BY <1>1, SameShape DEF Receipt, Coded
  <2>2. QED
    BY <1>0, <1>1, <2>1 DEF EndInv
<1>6. StreamInv'
  <2>1. CASE rPc = "done"
    BY <1>1, <2>1 DEF StreamInv
  <2>2. CASE rPc # "done"
    BY <1>0, <1>1, <1>3, <1>4, <2>2, StreamKept
  <2>3. QED
    BY <2>1, <2>2
<1>7. ChangedInv'
  BY <1>0, <1>1, <1>3 DEF ChangedInv, Changed
<1>8. HonestInv'
  BY <1>0, <1>1, HonestKept DEF HonestInv
<1>9. SnapshotInv'
  <2>1. (Snapshot => Snapshot') /\ (Completing' => Completing)
    BY <1>1, SameShape DEF Snapshot, Completing
  <2>2. sPc = "final" => Snapshot \/ \E f \in sFile'..Len(Size') : path'[f] # 0
    BY <1>0, <1>1, SameShape DEF SnapshotInv
  <2>3. QED
    BY <1>0, <1>1, <2>1, <2>2 DEF SnapshotInv
<1>10. QED
  BY <1>2, <1>3, <1>4, <1>5, <1>6, <1>7, <1>8, <1>9 DEF IInv

\* A file of the source changes: what was said against the source stays true,
\* and a file that was broken stays so.
LEMMA ChangeKeeps ==
  ASSUME IInv, NEW f \in Files, NEW how \in {"edit", "replace", "remove"}, Change(f, how)
  PROVE  IInv'
<1>0. /\ TypeInv /\ OriginInv /\ RequesterInv /\ EndInv /\ StreamInv /\ ChangedInv
      /\ HonestInv /\ SnapshotInv
  BY DEF IInv
<1>1. /\ UNCHANGED <<shape, grant, whole, sPc, sFile, sSeen, sSet, sResult, rPc, rFile,
                     rSeen, rGot, rResult, rAttempt, taken, toR, toS, closed, cut>>
      /\ changes' = changes + 1
      /\ path[f] # Gone
      /\ path' = [path EXCEPT ![f] = IF how = "remove" THEN Gone ELSE @ + 1]
  BY DEF Change, origin, requester, wire
<1>2. \/ handle' = handle
      \/ handle' = [handle EXCEPT !.version = @ + 1]
      \/ handle' = [handle EXCEPT !.linked = FALSE]
  BY DEF Change
<1>3. /\ handle' \in [version : Nat, linked : BOOLEAN]
      /\ handle'.version = 0 => handle.version = 0
  <2>1. handle \in [version : Nat, linked : BOOLEAN]
    BY <1>0 DEF TypeInv
  <2>2. CASE handle' = handle
    BY <2>1, <2>2
  <2>3. CASE handle' = [handle EXCEPT !.version = @ + 1]
    <3>1. handle.version \in Nat /\ handle.version + 1 # 0
      BY <2>1
    <3>2. handle'.version = handle.version + 1
      BY <2>1, <2>3
    <3>3. QED
      BY <2>1, <2>3, <3>1, <3>2
  <2>4. CASE handle' = [handle EXCEPT !.linked = FALSE]
    <3>1. handle'.version = handle.version
      BY <2>1, <2>4
    <3>2. QED
      BY <2>1, <2>4, <3>1
  <2>5. QED
    BY <1>2, <2>2, <2>3, <2>4
<1>4. /\ path' \in [Files -> Nat \cup {Gone}]
      /\ \A g \in Files : (path[g] = Gone => path'[g] = Gone) /\ (path[g] # 0 => path'[g] # 0)
  <2>1. path \in [Files -> Nat \cup {Gone}]
    BY <1>0 DEF TypeInv
  <2>2. QED
    BY <1>1, <2>1 DEF Gone
<1>5. /\ IsText' = IsText /\ Size' = Size /\ Files' = Files /\ Announced' = Announced
      /\ Payload' = Payload /\ Receipt("completed")' = Receipt("completed")
      /\ \A n, d : FirstFiles(n, d)' = FirstFiles(n, d)
      /\ \A g : Zeros(g)' = Zeros(g)
      /\ \A g, b : InFile(g, b)' = InFile(g, b)
      /\ \A g : AfterFile(g)' = AfterFile(g)
  BY <1>1, SameShape DEF Receipt, Coded
<1>6. TypeInv'
  BY <1>0, <1>1, <1>3, <1>4, <1>5 DEF TypeInv
<1>7. OriginInv'
  BY <1>0, <1>1, <1>3, <1>5 DEF OriginInv
<1>8. SPlace' = SPlace /\ SOver' = SOver
  BY <1>1, <1>5 DEF SPlace, SOver, At, Start
<1>9. RequesterInv' /\ RPlace' = RPlace
  BY <1>0, <1>1, RequesterKept
<1>10. EndInv'
  BY <1>0, <1>1, <1>5 DEF EndInv
<1>11. StreamInv'
  <2>1. CASE rPc = "done"
    BY <1>1, <2>1 DEF StreamInv
  <2>2. CASE rPc # "done"
    BY <1>0, <1>1, <1>8, <1>9, <2>2, StreamKept
  <2>3. QED
    BY <2>1, <2>2
<1>12. ChangedInv'
  <2>1. Broken => Broken'
    BY <1>1, <1>3 DEF Broken
  <2>2. QED
    BY <1>0, <1>1, <2>1 DEF ChangedInv, Changed
<1>13. HonestInv'
  <2>1. \A code : Honest(code) => Honest(code)'
    BY <1>1, <1>4, <1>5 DEF Honest
  <2>2. QED
    BY <1>0, <1>1, <2>1 DEF HonestInv
<1>14. SnapshotInv'
  <2>1. (Snapshot => Snapshot') /\ (Completing' => Completing)
    BY <1>1, <1>5 DEF Snapshot, Completing
  <2>2. sPc = "final" => Snapshot \/ \E g \in sFile'..Len(Size') : path'[g] # 0
    <3>1. ASSUME sPc = "final", NEW g \in sFile..Len(Size), path[g] # 0
          PROVE  path'[g] # 0
      <4>1. g \in Files
        BY <1>0, <3>1, ShapeFacts DEF OriginInv, Walks, Files
      <4>2. QED
        BY <1>4, <3>1, <4>1
    <3>2. QED
      BY <1>0, <1>1, <1>5, <3>1 DEF SnapshotInv
  <2>3. QED
    BY <1>0, <1>1, <2>1, <2>2 DEF SnapshotInv
<1>15. QED
  BY <1>6, <1>7, <1>9, <1>10, <1>11, <1>12, <1>13, <1>14 DEF IInv

-----------------------------------------------------------------------------
(* The invariant holds in every state.                                     *)

\* The invariant holds before the first frame ...
LEMMA InitInv == Init => IInv
<1> SUFFICES ASSUME Init
             PROVE  IInv
  OBVIOUS
<1> USE DEF Init
<1>1. TypeInv
  <2>1. <<>> \in Seq(Frames) /\ <<>> \in Digest /\ <<>> \in Seq(Digest)
        /\ <<>> \in Seq(Nat \cup Digest)
    BY DEF Digest
  <2>2. QED
    BY <2>1 DEF TypeInv, OriginSteps, RequesterSteps
<1>2. Len(Size) \in Nat
  BY <1>1, ShapeFacts
<1>3. OriginInv
  BY <1>2 DEF OriginInv, Walks
<1>4. RequesterInv
  BY DEF RequesterInv
<1>5. EndInv
  BY DEF EndInv
<1>6. StreamInv
  <2> DEFINE pos == [i \in 1..Len(toR) + 1 |-> At("header")]
  <2>1. At("header") \in Place /\ Len(toR) = 0
    BY DEF At, Place, Phases
  <2>2. RPlace = At("header") /\ SPlace = At("header")
    BY DEF RPlace, SPlace
  <2>3. pos \in [1..Len(toR) + 1 -> Place] /\ Placed(pos)
    BY <2>1, <2>2 DEF Placed
  <2>4. QED
    BY <2>3 DEF StreamInv
<1>7. ChangedInv
  BY DEF ChangedInv
<1>8. HonestInv
  BY DEF HonestInv, Honest
<1>9. SnapshotInv
  BY DEF SnapshotInv, Completing
<1>10. QED
  BY <1>1, <1>3, <1>4, <1>5, <1>6, <1>7, <1>8, <1>9 DEF IInv

\* ... and every step of either end, of the source and of the connection keeps it.
LEMMA NextInv == IInv /\ [Next]_vars => IInv'
<1> SUFFICES ASSUME IInv, [Next]_vars
             PROVE  IInv'
  OBVIOUS
<1>0. cut \in BOOLEAN
  BY DEF IInv, TypeInv
<1>1. CASE OriginStep
  BY <1>1, OriginStepKeeps
<1>2. CASE RequesterStep
  BY <1>2, RequesterDoes, EndsKeeps, MovesKeeps, ReadsKeeps
<1>3. CASE PressCancel
  BY <1>0, <1>3, QuietKeeps DEF PressCancel, wire
<1>4. CASE Lose
  BY <1>0, <1>4, QuietKeeps DEF Lose, requester
<1>5. CASE \E f \in Files, how \in {"edit", "replace", "remove"} : Change(f, how)
  BY <1>5, ChangeKeeps
<1>6. CASE UNCHANGED vars
  BY <1>0, <1>6, QuietKeeps DEF vars, requester, wire
<1>7. QED
  BY <1>1, <1>2, <1>3, <1>4, <1>5, <1>6 DEF Next

\* The frames in flight always lead from where the requester is to where the
\* origin is, and the rest of the invariant that depends on it.
THEOREM FetchSessionInvariant == Spec => []IInv
<1>1. QED
  BY InitInv, NextInv, PTL DEF Spec

\* No frame sequence the origin sends, under any change of the source, reset or
\* cancel, fails the requester's verification (read_complete and the digest
\* checks), and no frame is ever taken for payload bytes.
THEOREM FramesAgreeTheorem == Spec => []FramesAgree
<1>1. IInv => FramesAgree
  BY DEF IInv, HonestInv, Honest, TypeInv, Digest, FramesAgree, Garbage, Contains
<1>2. QED
  BY <1>1, FetchSessionInvariant, PTL

\* An attempt recorded as source_unavailable or source_changed has its reason in
\* the source - a change, or a source the origin never could read or walk - and
\* a cancelled fetch has put nothing anywhere.
THEOREM AttemptIsTrueTheorem == Spec => []AttemptIsTrue
<1>1. ASSUME IInv PROVE AttemptIsTrue
  BY <1>1 DEF IInv, EndInv, HonestInv, Honest, AttemptIsTrue
<1>2. QED
  BY <1>1, FetchSessionInvariant, PTL

\* A folder or file the requester completes was whole after its last byte had
\* been read: the walk after the last file saw every path as announced.
THEOREM CompleteIsSnapshotTheorem == Spec => []CompleteIsSnapshot
<1>1. IInv => CompleteIsSnapshot
  BY DEF IInv, SnapshotInv, Completing, Snapshot, CompleteIsSnapshot
<1>2. QED
  BY <1>1, FetchSessionInvariant, PTL

-----------------------------------------------------------------------------
(* The fetch implements Transfer.                                          *)

\* Before the first frame nothing is taken, recorded or believed.
LEMMA MapInit ==
  Init => Abstract!Init
BY DEF Init, Abstract!Init, TakenContent, Recorded, Believed

\* Steps that leave the three results alone are stutters of Transfer.
LEMMA MapStutter ==
  ASSUME UNCHANGED <<shape, taken, rResult, sResult>>
  PROVE  UNCHANGED <<TakenContent, Recorded, Believed>>
<1>1. Announced' = Announced
  BY SameShape
<1>2. QED
  BY <1>1 DEF TakenContent, Recorded, Believed

\* The origin comes to believe only what is recorded.
LEMMA MapOrigin ==
  ASSUME IInv, OriginStep
  PROVE  [Abstract!Next]_<<TakenContent, Recorded, Believed>>
<1>1. OriginKeeps
  BY AuthoriseDoes, WalkFileDoes, WalkEndsDoes, WalkFailsDoes, SendHeaderDoes,
     ReadAdmissionDoes, SendTextDoes, VerifyPathDoes, OpenFileDoes, SendBlockDoes,
     SendFileEndDoes, FileDoneDoes, SendCompleteDoes, ReturnDoes
  DEF OriginStep
<1>2. CASE OriginMoves \/ \E fr : OriginWrites(fr)
  BY <1>2, MapStutter DEF OriginMoves, OriginWrites, requester
<1>3. CASE OriginReturns
  <2>1. UNCHANGED <<shape, taken, rResult>>
    BY <1>3 DEF OriginReturns, requester
  <2>2. UNCHANGED <<TakenContent, Recorded>>
    BY <2>1, SameShape DEF TakenContent, Recorded
  <2>3. sResult = "open"
    BY <1>3 DEF OriginReturns, IInv, EndInv
  <2>4. CASE sResult' = "delivered"
    <3>1. Abstract!Confirm
      BY <1>3, <2>2, <2>3, <2>4 DEF OriginReturns, Abstract!Confirm, Recorded, Believed
    <3>2. QED
      BY <3>1 DEF Abstract!Next
  <2>5. CASE sResult' # "delivered"
    <3>1. Abstract!GiveUp
      BY <1>3, <2>2, <2>3, <2>5 DEF OriginReturns, Abstract!GiveUp, Believed
    <3>2. QED
      BY <3>1 DEF Abstract!Next
  <2>6. QED
    BY <2>4, <2>5
<1>4. QED
  BY <1>1, <1>2, <1>3 DEF OriginKeeps

\* The requester takes the whole content before it records completion.
LEMMA MapRequester ==
  ASSUME IInv, RequesterStep
  PROVE  [Abstract!Next]_<<TakenContent, Recorded, Believed>>
<1>0. EndInv /\ RequesterInv
  BY DEF IInv
<1>1. CASE RequesterEnds
  <2>1. PICK result, attempt, fr, rest : EndsWith(result, attempt, fr, rest)
    BY <1>1 DEF RequesterEnds
  <2>2. /\ UNCHANGED <<shape, sResult>> /\ rResult' = result /\ rResult = "open"
        /\ rPc # "done" /\ result # "open"
    BY <1>0, <2>1 DEF EndsWith, Finish, source, origin, EndInv
  <2>3. Announced' = Announced /\ Believed' = Believed
    BY <2>2, SameShape DEF Believed
  <2>4. CASE result = "completed"
    <3>1. taken = <<Announced>> /\ taken' = taken
      BY <1>0, <2>1, <2>4 DEF EndsWith, EndInv
    <3>2. Abstract!Complete
      BY <2>2, <2>3, <2>4, <3>1 DEF Abstract!Complete, TakenContent, Recorded
    <3>3. QED
      BY <3>2 DEF Abstract!Next
  <2>5. CASE result # "completed"
    <3>1. taken' = taken \/ taken' = <<Announced>>
      BY <1>0, <2>1 DEF EndsWith, RequesterInv
    <3>2. TakenContent' \in {TakenContent, "whole"}
      BY <2>3, <3>1 DEF TakenContent
    <3>3. Abstract!EndOther
      BY <2>2, <2>3, <2>5, <3>2 DEF Abstract!EndOther, Recorded
    <3>4. QED
      BY <3>3 DEF Abstract!Next
  <2>6. QED
    BY <2>4, <2>5
<1>2. CASE RequesterMoves
  <2>1. UNCHANGED <<shape, rResult, sResult>>
    BY <1>2 DEF RequesterMoves, Moves, Admit, Go, source, origin
  <2>2. CASE UNCHANGED taken
    BY <2>1, <2>2, MapStutter
  <2>3. CASE taken' # taken
    <3>1. rPc = "apply" /\ taken' = <<rGot>>
      BY <1>2, <2>3 DEF RequesterMoves, Admit
    <3>2. rGot = Announced /\ taken = <<>> /\ rResult = "open"
      BY <1>0, <3>1 DEF RequesterInv, EndInv
    <3>3. Announced' = Announced /\ UNCHANGED <<Recorded, Believed>>
      BY <2>1, SameShape DEF Recorded, Believed
    <3>4. Abstract!Take
      BY <2>3, <3>1, <3>2, <3>3 DEF Abstract!Take, TakenContent, Recorded
    <3>5. QED
      BY <3>4 DEF Abstract!Next
  <2>4. QED
    BY <2>2, <2>3
<1>3. CASE RequesterReads
  BY <1>3, MapStutter DEF RequesterReads, Reading, Go, source, origin
<1>4. QED
  BY <1>1, <1>2, <1>3, RequesterDoes

\* Every fetch, with any number of source changes and under resets, timeouts and
\* cancels, is a Transfer: the requester publishes the announced content or
\* nothing, and the origin reports a delivery only after the requester recorded
\* it as completed.
THEOREM ImplementsTransferTheorem == Spec => ImplementsTransfer
<1>1. IInv /\ [Next]_vars => [Abstract!Next]_<<TakenContent, Recorded, Believed>>
  <2> SUFFICES ASSUME IInv, [Next]_vars
               PROVE  [Abstract!Next]_<<TakenContent, Recorded, Believed>>
    OBVIOUS
  <2>1. CASE OriginStep
    BY <2>1, MapOrigin
  <2>2. CASE RequesterStep
    BY <2>2, MapRequester
  <2>3. CASE PressCancel \/ Lose
    BY <2>3, MapStutter DEF PressCancel, Lose, source, origin, requester
  <2>4. CASE \E f \in Files, how \in {"edit", "replace", "remove"} : Change(f, how)
    BY <2>4, MapStutter DEF Change, origin, requester
  <2>5. CASE UNCHANGED vars
    BY <2>5, MapStutter DEF vars, source, origin, requester
  <2> QED
    BY <2>1, <2>2, <2>3, <2>4, <2>5 DEF Next
<1>2. QED
  BY <1>1, MapInit, FetchSessionInvariant, PTL DEF Spec, ImplementsTransfer, Abstract!Spec
=============================================================================
