--------------------------- MODULE MCConversation ---------------------------
(***************************************************************************)
(* Conversation for TLC: the ids of calls are interchangeable.  With the   *)
(* images its messages may have.                                           *)
(***************************************************************************)
EXTENDS Conversation, CursorImages

CallSymmetry == Permutations(Calls)

\* A chat that goes to Cursor brings all its images, or only those its agent has not had, as
\* they are; or it does not go (images.go:44, chatcompletions.go:191).
ImagesArriveWhole == chat # <<>> => ImagesGoWhole
=============================================================================
