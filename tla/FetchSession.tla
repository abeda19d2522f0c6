---------------------------- MODULE FetchSession ----------------------------
(***************************************************************************)
(* One fetch, from the origin's handler reading the FetchRequest to both   *)
(* ends having closed the connection: OfferFetchHandler on one side,       *)
(* FetchReceiver on the other, the byte stream between them, and the files *)
(* of the offer, which anyone may change at any time.                      *)
(*                                                                         *)
(* A file's version stands for its contents and for the metadata its       *)
(* commitment hashes: version 0 was announced and a change gives the next  *)
(* one.  Payload travels as blocks of a version; a digest is the sequence  *)
(* of the versions hashed.  All manifest frames are one frame here         *)
(* (Manifest has their chunks), and the journal, staging and clipboard     *)
(* behind the receiver's steps are those of Activation.                    *)
(***************************************************************************)
EXTENDS Integers, Sequences, SequencesExt

CONSTANTS
  Shapes,      \* the offers: their kind, the blocks of each file (of the text)
               \* in manifest order, and whether the unchanged source passes
               \* the origin's checks and can be read (a name or a path that
               \* only the origin refuses; permissions, descriptors)
  MaxChanges,  \* bound: changes of the source files
  Window,      \* bound: frames in flight one way
  MayCancel    \* the requester may press cancel

ASSUME FetchSessionAssumption ==
  /\ \A s \in Shapes : /\ s.kind \in {"text", "file", "folder"}
                       /\ s.size \in Seq(Nat)
                       /\ s.kind # "folder" => Len(s.size) = 1
                       /\ s.kind = "text" => s.size[1] > 0  \* OfferError::EmptyText
                       /\ {s.walkable, s.readable} \subseteq BOOLEAN
  /\ MaxChanges \in Nat
  /\ Window \in Nat \ {0} /\ MayCancel \in BOOLEAN

Gone    == -1   \* the path cannot be read
Garbage == -2   \* frame bytes read as payload

VARIABLES
  shape,    \* the offer
  grant,    \* what the origin's store and stream limit answer this request
  path,     \* version found at each file's path, or Gone
  handle,   \* the file the origin has open: its version, and at the path still
  changes,
  sPc, sFile, sSeen, sSet,          \* origin: step, file, blocks hashed, digests
  rPc, rFile, rSeen, rGot,          \* requester: the same
  cancel,   \* "no", "pressed" while a read waits, "seen" before the next one
  toR, toS, \* frames in flight
  closed,   \* ends that closed the connection
  cut,      \* the connection was reset: what is in flight may be lost
  sResult, rResult, rAttempt,
  taken,    \* the payload the requester published or put on the clipboard, if any
  (* History: every file was as announced when the last byte had been sent *)
  whole

source    == <<shape, grant, path, handle, changes, whole>>
origin    == <<sPc, sFile, sSeen, sSet, sResult>>
requester == <<rPc, rFile, rSeen, rGot, cancel, rResult, rAttempt, taken>>
wire      == <<toR, toS, closed, cut>>
vars      == <<source, origin, requester, wire>>

IsText == shape.kind = "text"
Size   == shape.size
Files  == 1..Len(Size)

NoFrame   == [type |-> "none"]
Frame(t)  == [type |-> t]
Block(v)  == [type |-> "block", version |-> v]
Coded(t, c)     == [type |-> t, code |-> c]
FileStart(f)    == [type |-> "file_start", file |-> f, len |-> Size[f]]
FileEnd(f, d)   == [type |-> "file_end", file |-> f, digest |-> d]
TextEnd(d)      == [type |-> "text_end", digest |-> d]
FetchComplete(n, set) == [type |-> "fetch_complete", files |-> n, set |-> set]

\* The requester's record of the announced content.
Announced == [f \in Files |-> [b \in 1..Size[f] |-> 0]]

Refusals == {"malformed", "unknown_offer", "not_announced_to_requester", "busy"}

Init ==
  /\ shape \in Shapes /\ grant \in Refusals \cup {"none"}
  /\ path = [f \in Files |-> 0] /\ handle = [version |-> 0, linked |-> FALSE]
  /\ changes = 0 /\ whole = FALSE
  /\ sPc = "authorise" /\ sFile = 1 /\ sSeen = <<>> /\ sSet = <<>>
  /\ rPc = "header" /\ rFile = 1 /\ rSeen = <<>> /\ rGot = <<>>
  /\ cancel = "no"
  /\ toR = <<>> /\ toS = <<>> /\ closed = {} /\ cut = FALSE
  /\ sResult = "open" /\ rResult = "open" /\ rAttempt = "none"
  /\ taken = <<>>

-----------------------------------------------------------------------------
(* The byte stream.                                                        *)

\* A write to a peer that has closed, or after a reset, is lost and resets.
Writable(q, peer) == cut \/ peer \in closed \/ Len(q) < Window
Put(q, peer, f)   == IF cut \/ peer \in closed THEN q ELSE Append(q, f)
ResetBy(peer)     == cut \/ peer \in closed
\* The peer reads slowly or not at all until the timeout, or is gone.
WriteMayFail(q, peer) == cut \/ peer \in closed \/ Len(q) = Window
\* (Mutant of ReadMayFail: a read waits for ever.)
ReadForEver(q) == cut

\* Nothing arrives within the timeout, or the stream is at its end.
ReadMayFail(q) == cut \/ q = <<>>

\* Returning drops the socket; unread data makes that a reset.
SReturn(result, rest) ==
  /\ sPc' = "done" /\ sResult' = result
  /\ handle' = [version |-> 0, linked |-> FALSE]
  /\ closed' = closed \cup {"S"} /\ cut' = (cut \/ rest # <<>>) /\ toS' = <<>>

SendThen(f, next) ==
  /\ Writable(toR, "R")
  /\ toR' = Put(toR, "R", f) /\ cut' = ResetBy("R")
  /\ sPc' = next /\ UNCHANGED <<toS, closed, sResult>>

-----------------------------------------------------------------------------
(* The origin: OfferFetchHandler.                                          *)

\* handle_fetch: the checks that come before any source path is read, the
\* stream permit, and the refusal for the first of them that fails.
Authorise ==
  /\ sPc = "authorise"
  /\ IF grant = "none"
     THEN /\ sPc' = IF IsText THEN "header" ELSE "plan"
          /\ UNCHANGED <<wire, sResult>>
     ELSE SendThen(Coded("fetch_refusal", grant), "refused")
  /\ UNCHANGED <<source, requester, sFile, sSeen, sSet>>

Refused ==
  /\ sPc = "refused" /\ SReturn("refused", toS)
  /\ UNCHANGED <<shape, grant, path, changes, whole, requester, toR,
                 sFile, sSeen, sSet>>

\* build_source_plan walks the source three times: before the header, after
\* the admission and after the last file.  The walk stats file by file.
Walks == {"plan", "recheck", "final"}
AfterWalk == [plan |-> "header", recheck |-> "open", final |-> "complete"]

WalkFile ==
  /\ sPc \in Walks /\ sFile <= Len(Size) /\ path[sFile] = 0
  /\ sFile' = sFile + 1
  /\ UNCHANGED <<source, requester, wire, sPc, sSeen, sSet, sResult>>

WalkEnds ==
  /\ sPc \in Walks /\ sFile > Len(Size) /\ shape.walkable
  /\ sPc' = IF sPc = "recheck" /\ Len(Size) = 0 THEN "final" ELSE AfterWalk[sPc]
  /\ sFile' = 1
  /\ UNCHANGED <<source, requester, wire, sSeen, sSet, sResult>>

SourceFailure(v) == IF v = Gone THEN "source_unavailable" ELSE "source_changed"

\* A file that is gone makes the source unavailable, any difference from the
\* commitment makes it changed.  A file missing when its folder is listed is
\* a difference.  The first walk refuses, the others abort; they cannot find
\* the plan of an unchanged source malformed.
WalkCodes(v) ==
  {SourceFailure(v)} \cup
  (IF shape.kind = "folder" THEN {"source_changed"} ELSE {})

WalkFails ==
  /\ sPc \in Walks /\ sFile <= Len(Size) /\ path[sFile] # 0
  /\ \E code \in WalkCodes(path[sFile]) :
        IF sPc = "plan" THEN SendThen(Coded("fetch_refusal", code), "refused")
                        ELSE SendThen(Coded("fetch_abort", code), "aborted")
  /\ UNCHANGED <<source, requester, sFile, sSeen, sSet>>

\* What can be held against a source nobody has touched.  walk_folder refuses
\* names and path lengths the offer was made with, and calls that source
\* changed; every error of listing, stat and open makes it unavailable.
Grievances ==
  (IF sPc = "plan" /\ ~shape.walkable THEN {"source_changed"} ELSE {}) \cup
  (IF shape.readable THEN {} ELSE {"source_unavailable"})

UnchangedSourceFails ==
  /\ sPc \in Walks \cup {"open", "opened", "ended"}
  /\ \E code \in Grievances :
        IF sPc = "plan" THEN SendThen(Coded("fetch_refusal", code), "refused")
                        ELSE SendThen(Coded("fetch_abort", code), "aborted")
  /\ UNCHANGED <<source, requester, sFile, sSeen, sSet>>

\* The manifest has no encoding within its bounds.
PlanMalformed ==
  /\ sPc = "plan"
  /\ SendThen(Coded("fetch_refusal", "malformed"), "refused")
  /\ UNCHANGED <<source, requester, sFile, sSeen, sSet>>

SendHeader ==
  /\ sPc = "header"
  /\ SendThen(Frame("fetch_header"),
              IF IsText THEN "admission" ELSE "manifest")
  /\ UNCHANGED <<source, requester, sFile, sSeen, sSet>>

SendManifest ==
  /\ sPc = "manifest" /\ SendThen(Frame("manifest"), "admission")
  /\ UNCHANGED <<source, requester, sFile, sSeen, sSet>>

\* require_accepted_admission: any other admission is an error.
ReadAdmission ==
  /\ sPc = "admission" /\ toS # <<>>
  /\ IF Head(toS) = Coded("fetch_admission", "accepted")
     THEN /\ sPc' = IF IsText THEN "text" ELSE "recheck"
          /\ toS' = Tail(toS) /\ UNCHANGED <<closed, cut, sResult, handle>>
     ELSE SReturn("failed", Tail(toS))
  /\ UNCHANGED <<shape, grant, path, changes, whole, requester, toR,
                 sFile, sSeen, sSet>>

\* stream_text: the text is a copy kept in the store.
SendText ==
  /\ sPc = "text"
  /\ IF Len(sSeen) < Size[1]
     THEN SendThen(Block(0), "text") /\ sSeen' = Append(sSeen, 0) /\ UNCHANGED sSet
     ELSE SendThen(TextEnd(sSeen), "complete") /\ sSet' = sSeen /\ UNCHANGED sSeen
  /\ UNCHANGED <<source, requester, sFile>>

Abort(code) == SendThen(Coded("fetch_abort", code), "aborted")

\* open_and_verify_file, the path's metadata.
VerifyPath ==
  /\ sPc = "open"
  /\ IF path[sFile] = 0
     THEN sPc' = "opened" /\ UNCHANGED <<wire, sResult>>
     ELSE Abort(SourceFailure(path[sFile]))
  /\ UNCHANGED <<source, requester, sFile, sSeen, sSet>>

\* open_and_verify_file, the open file's metadata; then file_start.
OpenFile ==
  /\ sPc = "opened"
  /\ IF path[sFile] = 0
     THEN /\ SendThen(FileStart(sFile), "blocks") /\ sSeen' = <<>>
          /\ handle' = [version |-> 0, linked |-> TRUE]
     ELSE Abort(SourceFailure(path[sFile])) /\ UNCHANGED <<sSeen, handle>>
  /\ UNCHANGED <<shape, grant, path, changes, whole, requester, sFile, sSet>>

SendBlock ==
  /\ sPc = "blocks" /\ Len(sSeen) < Size[sFile]
  /\ SendThen(Block(handle.version), "blocks")
  /\ sSeen' = Append(sSeen, handle.version)
  /\ UNCHANGED <<source, requester, sFile, sSet>>

\* (Mutant of MidStream: an abort in the middle of a file's bytes.)
AbortMidStream ==
  /\ sPc = "blocks" /\ handle.version # 0
  /\ Abort("source_changed")
  /\ UNCHANGED <<source, requester, sFile, sSeen, sSet>>

\* The open file ended early, could not be read, or its metadata is no longer
\* the plan's: bytes may be on the wire already, and closing is the only honest
\* framing.
MidStream ==
  /\ sPc = "blocks" /\ (handle.version # 0 \/ ~shape.readable)
  /\ SReturn("closed", toS)
  /\ UNCHANGED <<shape, grant, path, changes, whole, requester, toR,
                 sFile, sSeen, sSet>>

SendFileEnd ==
  /\ sPc = "blocks" /\ Len(sSeen) = Size[sFile] /\ handle.version = 0
  /\ SendThen(FileEnd(sFile, sSeen), "ended")
  /\ sSet' = Append(sSet, sSeen)
  /\ UNCHANGED <<source, requester, sFile, sSeen>>

\* (Mutant of FileDone: no walk after the last file.)
FileDoneNoWalk ==
  /\ sPc = "ended"
  /\ IF path[sFile] = 0
     THEN /\ sPc' = IF sFile = Len(Size) THEN "complete" ELSE "open"
          /\ sFile' = IF sFile = Len(Size) THEN 1 ELSE sFile + 1
          /\ handle' = [version |-> 0, linked |-> FALSE]
          /\ whole' = (sFile = Len(Size) /\ \A f \in Files : path[f] = 0)
          /\ UNCHANGED <<wire, sResult>>
     ELSE /\ Abort(SourceFailure(path[sFile]))
          /\ UNCHANGED <<sFile, handle, whole>>
  /\ UNCHANGED <<shape, grant, path, changes, requester, sSeen, sSet>>

\* The path's metadata after file_end: the next file, the last walk, or an
\* abort.
FileDone ==
  /\ sPc = "ended"
  /\ IF path[sFile] = 0
     THEN /\ sPc' = IF sFile = Len(Size) THEN "final" ELSE "open"
          /\ sFile' = IF sFile = Len(Size) THEN 1 ELSE sFile + 1
          /\ handle' = [version |-> 0, linked |-> FALSE]
          /\ whole' = (sFile = Len(Size) /\ \A f \in Files : path[f] = 0)
          /\ UNCHANGED <<wire, sResult>>
     ELSE /\ Abort(SourceFailure(path[sFile]))
          /\ UNCHANGED <<sFile, handle, whole>>
  /\ UNCHANGED <<shape, grant, path, changes, requester, sSeen, sSet>>

SendComplete ==
  /\ sPc = "complete"
  /\ SendThen(FetchComplete(IF IsText THEN 0 ELSE Len(sSet), sSet),
              "receipt")
  /\ UNCHANGED <<source, requester, sFile, sSeen, sSet>>

\* (Mutant of ReadReceipt: any receipt counts as a delivery.)
ReadAnyReceipt ==
  /\ sPc \in {"receipt", "aborted"} /\ toS # <<>>
  /\ SReturn(IF sPc = "aborted" THEN "aborted" ELSE "delivered", Tail(toS))
  /\ UNCHANGED <<shape, grant, path, changes, whole, requester, toR,
                 sFile, sSeen, sSet>>

\* await_completed_receipt, and the receipt send_abort waits for.
ReadReceipt ==
  /\ sPc \in {"receipt", "aborted"} /\ toS # <<>>
  /\ SReturn(IF sPc = "aborted" THEN "aborted"
             ELSE IF Head(toS) = Coded("fetch_receipt", "completed")
                  THEN "delivered" ELSE "failed", Tail(toS))
  /\ UNCHANGED <<shape, grant, path, changes, whole, requester, toR,
                 sFile, sSeen, sSet>>

\* io_timeout and I/O errors of every read and write end handle_fetch, and
\* so does an error of the store.
OriginFails ==
  /\ \/ /\ sPc \in {"admission", "receipt", "aborted"} /\ ReadMayFail(toS)
     \/ /\ sPc \in {"header", "manifest", "text", "opened", "blocks", "complete"}
        /\ WriteMayFail(toR, "R")
     \/ /\ sPc \in Walks \cup {"open", "ended"} /\ WriteMayFail(toR, "R")
        /\ Grievances # {} \/ (sFile <= Len(Size) /\ path[sFile] # 0)
     \/ sPc = "authorise"
  /\ SReturn("failed", toS)
  /\ UNCHANGED <<shape, grant, path, changes, whole, requester, toR,
                 sFile, sSeen, sSet>>

-----------------------------------------------------------------------------
(* The requester: FetchReceiver::receive_one.                              *)

\* Reading one frame; a cancel that came while the read waited is seen
\* before the next read.
Take(q) ==
  /\ toR' = Tail(q)
  /\ cancel' = IF cancel = "pressed" THEN "seen" ELSE cancel
Reads == {"header", "manifest", "text", "text_end", "start", "blocks", "end",
          "complete"}
CanRead(pc) == rPc = pc /\ cancel # "seen" /\ toR # <<>>

Go(pc) == rPc' = pc /\ UNCHANGED <<rResult, rAttempt, toS, closed, cut>>

\* The end of receive_one: the attempt is recorded, the receipt or admission
\* written if there is one, and the socket dropped.
Finish(result, attempt, frame, rest) ==
  /\ rPc' = "done" /\ rResult' = result /\ rAttempt' = attempt
  /\ toS' = IF frame = NoFrame THEN toS ELSE Put(toS, "S", frame)
  /\ toR' = <<>> /\ closed' = closed \cup {"R"} /\ cut' = (cut \/ rest # <<>>)

\* refuse_admission records the attempt after its write, if that succeeds.
Refuse(result, attempt, code, rest) ==
  \E recorded \in {attempt} \cup
                   (IF WriteMayFail(toS, "S") THEN {rAttempt} ELSE {}) :
    Finish(result, recorded, Coded("fetch_admission", code), rest)

Receipt(code)   == Coded("fetch_receipt", code)

\* (Mutant of RefusalAttempt: every refusal but busy blames the source.)
RefusalBlamesSource(code) ==
  IF code = "busy" THEN code ELSE "source_unavailable"

\* The attempt code a refusal is recorded under.
RefusalAttempt(code) ==
  IF code \in {"source_unavailable", "source_changed", "busy"} THEN code
                                                                ELSE "failed"

ReadHeader ==
  /\ CanRead("header")
  /\ LET f == Head(toR) IN
     IF f.type = "fetch_header"
     THEN Take(toR) /\ Go(IF IsText THEN "admit" ELSE "manifest")
     ELSE Finish("failed", IF f.type = "fetch_refusal" THEN RefusalAttempt(f.code)
                                                       ELSE "failed",
                 NoFrame, Tail(toR)) /\ UNCHANGED cancel
  /\ UNCHANGED <<source, origin, rFile, rSeen, rGot, taken>>

ReadManifest ==
  /\ CanRead("manifest")
  /\ IF Head(toR).type = "manifest" THEN Take(toR) /\ Go("admit")
     ELSE Refuse("refused", "failed", "invalid_manifest", Tail(toR))
          /\ UNCHANGED cancel
  /\ UNCHANGED <<source, origin, rFile, rSeen, rGot, taken>>

\* The destination, the space, the journal and the staging area are there.
Admit ==
  /\ rPc = "admit" /\ Writable(toS, "S")
  /\ toS' = Put(toS, "S", Coded("fetch_admission", "accepted")) /\ cut' = ResetBy("S")
  /\ rPc' = "admitted"
  /\ UNCHANGED <<source, origin, rFile, rSeen, rGot, cancel, rResult, rAttempt,
                 taken, toR, closed>>

RefuseAdmission ==
  /\ rPc = "admit"
  /\ \E code \in {"refused_busy", "destination_unavailable",
                  "insufficient_space", "allocation_failed"} :
       Refuse("refused", IF code = "refused_busy" THEN "busy" ELSE "failed",
              code, toR)
  /\ UNCHANGED <<source, origin, rFile, rSeen, rGot, cancel, taken>>

\* An error of the store, or of writing the admission, ends receive_one with
\* no answer and no attempt recorded.
ServiceFails ==
  /\ rPc \in {"admit", "admitted", "verified"}
  /\ Finish("failed", rAttempt, NoFrame, toR)
  /\ UNCHANGED <<source, origin, rFile, rSeen, rGot, cancel, taken>>

\* The cancel check between the admission and the first read: no receipt.
Admitted ==
  /\ rPc = "admitted"
  /\ IF cancel = "no"
     THEN /\ Go(IF IsText THEN "text"
                ELSE IF Len(Size) = 0 THEN "complete" ELSE "start")
          /\ UNCHANGED toR
     ELSE Finish("cancelled", "cancelled", NoFrame, toR)
  /\ UNCHANGED <<source, origin, rFile, rSeen, rGot, cancel, taken>>

VerificationFailed(rest) ==
  Finish("failed", "verification_failed", Receipt("verification_failed"), rest)

\* abort_failure: the abort's code is the attempt's, the receipt says
\* internal_error unless the origin cancelled.
Aborted(code, rest) ==
  Finish("failed", code, Receipt("internal_error"), rest)

\* Raw bytes are taken as they come: the stream itself says where they end.
Raw(f) == IF f.type = "block" THEN f.version ELSE Garbage

ReadText ==
  /\ CanRead("text")
  /\ Take(toR) /\ rSeen' = Append(rSeen, Raw(Head(toR)))
  /\ Go(IF Len(rSeen) + 1 = Size[1] THEN "text_end" ELSE "text")
  /\ UNCHANGED <<source, origin, rFile, rGot, taken>>

ReadTextEnd ==
  /\ CanRead("text_end")
  /\ LET f == Head(toR) IN
     IF f = TextEnd(rSeen)
     THEN Take(toR) /\ Go("complete") /\ rGot' = <<rSeen>>
     ELSE /\ IF f.type = "fetch_abort" THEN Aborted(f.code, Tail(toR))
                                       ELSE VerificationFailed(Tail(toR))
          /\ UNCHANGED <<rGot, cancel>>
  /\ UNCHANGED <<source, origin, rFile, rSeen, taken>>

ReadFileStart ==
  /\ CanRead("start")
  /\ LET f == Head(toR) IN
     IF f = FileStart(rFile)
     THEN /\ Take(toR) /\ rSeen' = <<>>
          /\ Go(IF Size[rFile] = 0 THEN "end" ELSE "blocks")
     ELSE /\ IF f.type = "fetch_abort" THEN Aborted(f.code, Tail(toR))
                                       ELSE VerificationFailed(Tail(toR))
          /\ UNCHANGED <<rSeen, cancel>>
  /\ UNCHANGED <<source, origin, rFile, rGot, taken>>

ReadBlock ==
  /\ CanRead("blocks")
  /\ Take(toR) /\ rSeen' = Append(rSeen, Raw(Head(toR)))
  /\ Go(IF Len(rSeen) + 1 = Size[rFile] THEN "end" ELSE "blocks")
  /\ UNCHANGED <<source, origin, rFile, rGot, taken>>

ReadFileEnd ==
  /\ CanRead("end")
  /\ LET f == Head(toR) IN
     IF f = FileEnd(rFile, rSeen)
     THEN /\ Take(toR) /\ rGot' = Append(rGot, rSeen)
          /\ Go(IF rFile = Len(Size) THEN "complete" ELSE "start")
          /\ rFile' = IF rFile = Len(Size) THEN rFile ELSE rFile + 1
     ELSE /\ IF f.type = "fetch_abort" THEN Aborted(f.code, Tail(toR))
                                       ELSE VerificationFailed(Tail(toR))
          /\ UNCHANGED <<rGot, rFile, cancel>>
  /\ UNCHANGED <<source, origin, rSeen, taken>>

\* read_complete: the counts and the content-set digest must be the ones the
\* requester computed.
ReadComplete ==
  /\ CanRead("complete")
  /\ LET f == Head(toR)
         expected == IF IsText THEN FetchComplete(0, rSeen)
                                      ELSE FetchComplete(Len(rGot), rGot)
     IN IF f = expected THEN Take(toR) /\ Go("verified")
        ELSE /\ IF f.type = "fetch_abort" THEN Aborted(f.code, Tail(toR))
                                          ELSE VerificationFailed(Tail(toR))
             /\ UNCHANGED cancel
  /\ UNCHANGED <<source, origin, rFile, rSeen, rGot, taken>>

\* Timeouts and lost connections leave no receipt, and in the manifest no
\* attempt either.
ReadFails ==
  /\ rPc \in Reads /\ cancel # "seen" /\ ReadMayFail(toR)
  /\ Finish("failed", IF rPc = "manifest" THEN rAttempt ELSE "failed",
            NoFrame, toR)
  /\ UNCHANGED <<source, origin, rFile, rSeen, rGot, cancel, taken>>

\* LocalCancelled in a read.  Before the header the attempt is recorded as
\* failed; in the manifest the admission says cancelled; in the payload a
\* receipt does.
ReadCancelled ==
  /\ rPc \in Reads /\ cancel # "no"
  /\ IF rPc = "manifest"
     THEN Refuse("cancelled", "cancelled", "cancelled", toR)
     ELSE IF rPc = "header"
     THEN Finish("cancelled", "failed", NoFrame, toR)
     ELSE Finish("cancelled", "cancelled", Receipt("cancelled"), toR)
  /\ UNCHANGED <<source, origin, rFile, rSeen, rGot, cancel, taken>>

\* A write to the staging area fails: no receipt.
LocalIo ==
  /\ rPc \in {"blocks", "end", "verified"} /\ ~IsText
  /\ Finish("failed", "failed", NoFrame, toR)
  /\ UNCHANGED <<source, origin, rFile, rSeen, rGot, cancel, taken>>

\* The last cancel check, then publication and the clipboard.
Verified ==
  /\ rPc = "verified"
  /\ IF cancel = "no" THEN Go("apply") /\ UNCHANGED toR
     ELSE Finish("cancelled", "cancelled", NoFrame, toR)
  /\ UNCHANGED <<source, origin, rFile, rSeen, rGot, cancel, taken>>

Apply ==
  /\ rPc = "apply" /\ taken' = <<rGot>> /\ Go("close")
  /\ UNCHANGED <<source, origin, rFile, rSeen, rGot, cancel, toR>>

ApplyFails ==
  /\ rPc = "apply"
  /\ \E code \in {"internal_error", "clipboard_failed"} :
       Finish("failed", IF code = "internal_error" THEN "failed" ELSE code,
              Receipt(code), toR)
  /\ UNCHANGED <<source, origin, rFile, rSeen, rGot, cancel, taken>>

\* finish_uncertain: the side effect may have happened.
Uncertain ==
  /\ rPc \in {"apply", "close"}
  /\ Finish("uncertain", "uncertain_no_replay", Receipt("uncertain_no_replay"),
            toR)
  /\ taken' \in {taken, <<rGot>>}
  /\ UNCHANGED <<source, origin, rFile, rSeen, rGot, cancel>>

\* The completed attempt is recorded before the receipt is written.
Close ==
  /\ rPc = "close"
  /\ Finish("completed", "completed", Receipt("completed"), toR)
  /\ UNCHANGED <<source, origin, rFile, rSeen, rGot, cancel, taken>>

PressCancel ==
  /\ MayCancel /\ cancel = "no" /\ rPc # "done"
  /\ cancel' = IF rPc \in Reads THEN "pressed" ELSE "seen"
  /\ UNCHANGED <<source, origin, wire, rPc, rFile, rSeen, rGot, rResult,
                 rAttempt, taken>>

-----------------------------------------------------------------------------
(* The world: the connection is lost, and files of the source are edited in *)
(* place, replaced by another file, or removed.                            *)

Lose ==
  /\ ~cut /\ closed = {} /\ cut' = TRUE
  /\ UNCHANGED <<source, origin, requester, toR, toS, closed>>

Change(f, how) ==
  /\ ~IsText /\ changes < MaxChanges /\ path[f] # Gone
  /\ changes' = changes + 1
  /\ path' = [path EXCEPT ![f] = IF how = "remove" THEN Gone ELSE @ + 1]
  /\ handle' = IF ~(f = sFile /\ handle.linked) THEN handle
               ELSE IF how = "edit" THEN [handle EXCEPT !.version = @ + 1]
               ELSE [handle EXCEPT !.linked = FALSE]
  /\ UNCHANGED <<shape, grant, whole, origin, requester, wire>>

OriginStep ==
  \/ Authorise \/ Refused \/ WalkFile \/ WalkEnds \/ WalkFails
  \/ UnchangedSourceFails \/ PlanMalformed \/ SendHeader \/ SendManifest \/ ReadAdmission
  \/ SendText \/ VerifyPath \/ OpenFile \/ SendBlock \/ MidStream \/ SendFileEnd
  \/ FileDone \/ SendComplete \/ ReadReceipt \/ OriginFails

RequesterStep ==
  \/ ReadHeader \/ ReadManifest \/ Admit \/ RefuseAdmission \/ ServiceFails \/ Admitted
  \/ ReadText \/ ReadTextEnd \/ ReadFileStart \/ ReadBlock \/ ReadFileEnd
  \/ ReadComplete \/ ReadFails \/ ReadCancelled \/ LocalIo \/ Verified
  \/ Apply \/ ApplyFails \/ Uncertain \/ Close

Next ==
  \/ OriginStep \/ RequesterStep \/ PressCancel \/ Lose
  \/ \E f \in Files, how \in {"edit", "replace", "remove"} : Change(f, how)

Spec == Init /\ [][Next]_vars

\* Both tasks run on the runtime, every wait of theirs has a timeout.
FairSpec == Spec /\ WF_vars(OriginStep) /\ WF_vars(RequesterStep)

-----------------------------------------------------------------------------
(* Properties.                                                             *)

\* Every variable has its type, and neither direction of the connection holds
\* more frames than fit.
TypeOK ==
  /\ shape \in Shapes /\ path \in [Files -> Gone..MaxChanges] /\ changes \in 0..MaxChanges
  /\ sFile \in 1..Len(Size) + 1 /\ rFile \in 1..Len(Size) + 1
  /\ Len(toR) <= Window /\ Len(toS) <= Window
  /\ closed \subseteq {"S", "R"} /\ cut \in BOOLEAN
  /\ cancel \in {"no", "pressed", "seen"}
  /\ sResult \in {"open", "refused", "failed", "closed", "aborted", "delivered"}
  /\ rResult \in {"open", "failed", "refused", "cancelled", "uncertain",
                  "completed"}

\* The frames of both sides agree: whatever happens to the source, to the
\* connection and to the requester's patience, no frame sequence this origin
\* sends fails the requester's verification, and no frame is taken for payload.
FramesAgree ==
  rAttempt # "verification_failed" /\ ~Contains(rSeen, Garbage)

\* What the card says of the attempt has its reason: it blames the source only
\* for a change, or for a source the origin never could walk or read, and a
\* cancelled fetch has put nothing anywhere.  No failure of the connection, of
\* the requester or of the origin's store is laid at the source's door.
AttemptIsTrue ==
  /\ rAttempt = "source_unavailable" => ~shape.readable \/ \E f \in Files : path[f] = Gone
  /\ rAttempt = "source_changed" => ~shape.walkable \/ \E f \in Files : path[f] # 0
  /\ rResult = "cancelled" => taken = <<>>

\* The card of a source that did not change never says that it did: "the offer
\* source changed; activation is disabled" (coordinator.rs).  It does not hold
\* of the code: a folder with a name or a path only the origin refuses is
\* called changed, and its card stays disabled.
ChangedMeansChanged ==
  rAttempt = "source_changed" => \E f \in Files : path[f] # 0

\* A transfer the origin completes was a snapshot: after its last byte was
\* read every file was still as announced.
CompleteIsSnapshot ==
  ~IsText /\ Files # {} /\ rResult = "completed" => whole

\* The refinement mapping: what was put anywhere, what the requester recorded
\* and what the origin believes of it, as Transfer sees them.
TakenContent == CASE taken = <<>> -> "nothing"
                  [] taken = <<Announced>> -> "whole" [] OTHER -> "torn"
Recorded == CASE rResult = "open" -> "open"
              [] rResult = "completed" -> "completed" [] OTHER -> "other"
Believed == CASE sResult = "open" -> "open"
              [] sResult = "delivered" -> "delivered" [] OTHER -> "unknown"
Abstract == INSTANCE Transfer WITH
  taken <- TakenContent, recorded <- Recorded, believed <- Believed

\* The fetch implements Transfer: content is taken whole or not at all, and
\* the origin believes in a delivery only when the requester recorded it.
ImplementsTransfer == Abstract!Spec

\* Both ends finish, whatever the other end and the connection do.
BothEnd == <>(sPc = "done" /\ rPc = "done")
=============================================================================
