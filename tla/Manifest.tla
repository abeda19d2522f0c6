------------------------------ MODULE Manifest ------------------------------
(***************************************************************************)
(* A folder offer from the user's paste to the requester's admission: the  *)
(* walk that prepares the offer, the origin's walk when the offer is       *)
(* fetched, the manifest split into control frames, the requester putting  *)
(* the frames together and validating the result, and the files it lays    *)
(* out in the staging area.                                                *)
(*                                                                         *)
(* A path is the sequence of its names; names are numbers in the order in  *)
(* which a directory listing is sorted.  What validation asks of a name is *)
(* given by the constants: its length, its lower-case form and the two     *)
(* name checks.                                                            *)
(***************************************************************************)
EXTENDS Naturals, Sequences, FiniteSets, SequencesExt

CONSTANTS
  Name,         \* names of files and directories, numbers
  Fold,         \* lower-case form of each name
  Size,         \* bytes of each name
  Offerable,    \* names validate_component lets into an offer
  Plannable,    \* names validate_source_component lets into a plan
  Lengths,      \* lengths of files
  MaxNodes,     \* bound: files and directories under the root
  MaxPath,      \* V2_MAX_RELATIVE_PATH_BYTES
  MaxEntries,   \* MAX_OFFER_MANIFEST_ENTRIES
  MaxFile,      \* MAX_OFFER_FILE_BYTES
  MaxTransfer,  \* MAX_OFFER_TRANSFER_BYTES
  MaxFrame,     \* V2_MAX_CONTROL_FRAME_BYTES
  MaxManifest   \* V2_MAX_MANIFEST_BYTES

ASSUME ManifestAssumption ==
  /\ Name \subseteq Nat /\ Fold \in [Name -> Name] /\ Size \in [Name -> Nat]
  /\ Plannable \subseteq Offerable /\ Offerable \subseteq Name
  /\ Lengths \subseteq Nat
  /\ {MaxNodes, MaxPath, MaxEntries, MaxFile, MaxTransfer, MaxFrame, MaxManifest} \subseteq Nat

Path == {<<n>> : n \in Name} \cup {<<m, n>> : m \in Name, n \in Name}

\* Bytes of a path: the names and the separators between them.
PathBytes(p) == FoldLeft(LAMBDA sum, n : sum + Size[n], Len(p) - 1, p)

Node == [path : Path, kind : {"file"}, len : Lengths]
        \cup [path : Path, kind : {"directory"}, len : {0}]

\* A folder: one node for a path, every node in a directory.
IsFolder(t) ==
  /\ \A x, y \in t : x.path = y.path => x = y
  /\ \A x \in t : Len(x.path) = 2 =>
       \E d \in t : d.kind = "directory" /\ d.path = <<x.path[1]>>

VARIABLES
  tree,     \* the folder pasted
  step,     \* what happens next
  descriptor, \* the counts announced
  plan,     \* the origin's manifest
  frames,   \* manifest frames in flight
  entries,  \* what the requester has put together
  staged,   \* files laid out in the staging area: entry and length
  verdict   \* the answer: a refusal or admission code
vars == <<tree, step, descriptor, plan, frames, entries, staged, verdict>>

Counts(es) ==
  [entries |-> Len(es),
   files   |-> Len(SelectSeq(es, LAMBDA e : e.kind = "file")),
   bytes   |-> FoldLeft(LAMBDA sum, e : sum + e.len, 0, es)]
NoCounts == [entries |-> 0, files |-> 0, bytes |-> 0]

Init ==
  /\ tree = {} /\ step = "prepare" /\ descriptor = NoCounts
  /\ plan = <<>> /\ frames = <<>> /\ entries = <<>> /\ staged = <<>>
  /\ verdict = "none"

\* The user fills the folder before offering it.
Fill(x) ==
  /\ step = "prepare" /\ Cardinality(tree) < MaxNodes
  /\ IsFolder(tree \cup {x}) /\ tree' = tree \cup {x}
  /\ UNCHANGED <<step, descriptor, plan, frames, entries, staged, verdict>>

Stop(code) ==
  /\ step' = "done" /\ verdict' = code
  /\ UNCHANGED <<tree, descriptor, plan, frames, entries, staged>>

\* Directory listings are sorted by name and a directory is followed by what
\* is in it.
Before(x, y) ==
  \/ x.path[1] < y.path[1]
  \/ /\ x.path[1] = y.path[1] /\ Len(x.path) < Len(y.path)
  \/ /\ x.path[1] = y.path[1] /\ Len(x.path) = 2 /\ Len(y.path) = 2
     /\ x.path[2] < y.path[2]
Walk(t) == SetToSortSeq(t, Before)

\* The walk stops at the first entry it cannot take.
WithinLimits(es) ==
  LET c == Counts(es)
  IN /\ c.entries <= MaxEntries /\ c.bytes <= MaxTransfer
     /\ \A i \in 1..Len(es) : es[i].len <= MaxFile
NamesIn(t, names) == \A x \in t : x.path[Len(x.path)] \in names

\* prepare_source: the offer is made or refused to the user.
Prepare ==
  /\ step = "prepare"
  /\ IF NamesIn(tree, Offerable) /\ WithinLimits(Walk(tree))
     THEN /\ step' = "plan" /\ descriptor' = Counts(Walk(tree))
          /\ UNCHANGED <<tree, plan, frames, entries, staged, verdict>>
     ELSE Stop("not_offered")

\* The length of a manifest_chunk in JSON: a frame has an envelope, an entry
\* its path.
Encoded(es) == 1 + FoldLeft(LAMBDA sum, e : sum + PathBytes(e.path) + 1, 0, es)

\* chunk_manifest: entries join the current chunk while it still fits a
\* frame.  first is the index of a chunk's first entry.
\* (Mutant of Chunks: every chunk is numbered from the first.)
ChunksFromZero(es) ==
  FoldLeft(LAMBDA chunks, e :
    IF chunks # <<>> /\ Encoded(Append(Last(chunks).entries, e)) <= MaxFrame
    THEN Front(chunks) \o <<[Last(chunks) EXCEPT !.entries = Append(@, e)]>>
    ELSE Append(chunks, [first |-> 0, entries |-> <<e>>]), <<>>, es)
Chunks(es) ==
  FoldLeft(LAMBDA chunks, e :
    IF chunks # <<>> /\ Encoded(Append(Last(chunks).entries, e)) <= MaxFrame
    THEN Front(chunks) \o <<[Last(chunks) EXCEPT !.entries = Append(@, e)]>>
    ELSE Append(chunks,
           [first |-> IF chunks = <<>> THEN 0
                      ELSE Last(chunks).first + Len(Last(chunks).entries),
            entries |-> <<e>>]), <<>>, es)
EncodedManifest(chunks) ==
  FoldLeft(LAMBDA sum, c : sum + Encoded(c.entries), 0, chunks)
Representable(es) ==
  /\ \A i \in 1..Len(es) : Encoded(<<es[i]>>) <= MaxFrame
  /\ EncodedManifest(Chunks(es)) <= MaxManifest

\* walk_folder at the origin: its check of names is stricter than the one made
\* when the folder was offered, and only it looks at the length of a path.
Walkable(t) ==
  /\ NamesIn(t, Plannable)
  /\ \A x \in t : PathBytes(x.path) <= MaxPath

\* build_folder_plan for the unchanged folder, and the manifest frames: the
\* chunks, and a manifest_end unless the manifest is empty.
Plan ==
  /\ step = "plan"
  /\ IF ~Walkable(tree) THEN Stop("source_changed")
     ELSE IF ~Representable(Walk(tree)) THEN Stop("malformed")
     ELSE /\ plan' = Walk(tree) /\ step' = "read"
          /\ frames' = IF tree = {} THEN <<>>
                       ELSE Append(Chunks(Walk(tree)),
                                   [end |-> Counts(Walk(tree))])
          /\ UNCHANGED <<tree, descriptor, entries, staged, verdict>>

\* read_manifest, one chunk: it must start where the last one ended.
ReadChunk ==
  /\ step = "read" /\ Len(entries) < Len(plan)
  /\ LET chunk == Head(frames)
     IN IF chunk.first = Len(entries)
        THEN /\ entries' = entries \o chunk.entries /\ frames' = Tail(frames)
             /\ UNCHANGED <<tree, step, descriptor, plan, staged, verdict>>
        ELSE Stop("invalid_manifest")

ReadEnd ==
  /\ step = "read" /\ Len(entries) = Len(plan)
  /\ step' = "validate"
  /\ UNCHANGED <<tree, descriptor, plan, frames, entries, staged, verdict>>

\* Two paths are one when their lower-case forms are.
Folded(p) == [i \in 1..Len(p) |-> Fold[p[i]]]

\* (Mutant of PathsValid: the paths are compared as they are spelled.)
PathsAsSpelled(es) ==
  /\ \A i \in 1..Len(es) : PathBytes(es[i].path) <= MaxPath
  /\ \A i, j \in 1..Len(es) : es[i].path = es[j].path => i = j
  /\ \A i \in 1..Len(es) : Len(es[i].path) = 2 =>
       \E j \in 1..Len(es) : es[j].kind = "directory" /\
                             es[j].path = <<es[i].path[1]>>
\* validate_manifest, entry by entry, and then the parents of each.
PathsValid(es) ==
  /\ \A i \in 1..Len(es) : PathBytes(es[i].path) <= MaxPath
  /\ \A i, j \in 1..Len(es) : Folded(es[i].path) = Folded(es[j].path) => i = j
  /\ \A i \in 1..Len(es) : Len(es[i].path) = 2 =>
       \E j \in 1..Len(es) : es[j].kind = "directory" /\
                             Folded(es[j].path) = <<Fold[es[i].path[1]]>>

\* validate_manifest, in its order; the header carries a digest of the
\* manifest for every folder, and with it a manifest_end is required.
Verdict(es) ==
  IF ~PathsValid(es) THEN "invalid_manifest"
  ELSE IF Counts(es).bytes > MaxTransfer THEN "too_large"
  ELSE IF Counts(es) # descriptor THEN "invalid_manifest"
  ELSE IF frames = <<>> \/ Head(frames).end # Counts(es) THEN "invalid_manifest"
  ELSE "accepted"

\* The admission, and prepare_staging: a file for every file entry, in order.
Validate ==
  /\ step = "validate"
  /\ step' = "done" /\ verdict' = Verdict(entries)
  /\ staged' = IF Verdict(entries) # "accepted" THEN <<>>
               ELSE SelectSeq([i \in 1..Len(entries) |->
                                 [index |-> i, kind |-> entries[i].kind,
                                  len |-> entries[i].len]],
                              LAMBDA e : e.kind = "file")
  /\ UNCHANGED <<tree, descriptor, plan, frames, entries>>

Next == (\E x \in Node : Fill(x)) \/ Prepare \/ Plan \/ ReadChunk \/ ReadEnd \/ Validate
Spec == Init /\ [][Next]_vars

-----------------------------------------------------------------------------
(* Properties.                                                             *)

\* The files the origin streams, in its order (send_plan: plan.files).
Streamed == SelectSeq([i \in 1..Len(plan) |->
                         [index |-> i, kind |-> plan[i].kind, len |-> plan[i].len]],
                      LAMBDA e : e.kind = "file")

\* An admitted manifest is the offered folder: the requester expects exactly
\* the files the origin will stream, in that order, every one of them in a
\* place of its own on a file system that ignores case, and the bytes it
\* reserves are the bytes that will come.
AdmittedIsOffered ==
  verdict = "accepted" =>
    /\ staged = Streamed /\ Cardinality(tree) = Len(entries)
    /\ Cardinality({Folded(x.path) : x \in tree}) = Cardinality(tree)
    /\ FoldLeft(LAMBDA sum, e : sum + e.len, 0, staged) = descriptor.bytes

\* Which offers can be fetched at all, the folder being unchanged: those the
\* origin's stricter walk takes, whose manifest has an encoding, that are not
\* empty and whose names differ in more than case.  Every other offer is
\* refused, and no folder is lost on the way through its frames.
AdmittedExactly ==
  step = "done" /\ verdict # "not_offered" =>
    (verdict = "accepted" <=>
       /\ Walkable(tree) /\ Representable(Walk(tree)) /\ tree # {}
       /\ Cardinality({Folded(x.path) : x \in tree}) = Cardinality(tree))

\* "File/folder cards can activate to the local native clipboard or to
\* Downloads" (README): an offer that was made can be fetched while its
\* folder is unchanged.  It does not hold of the code: what AdmittedExactly
\* leaves out is offered and never admitted.
OfferedIsAdmitted ==
  step = "done" /\ verdict # "not_offered" => verdict = "accepted"
=============================================================================
