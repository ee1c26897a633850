---------------------------- MODULE MCBinaryCache ----------------------------
(***************************************************************************)
(* Two threads and one cache, whose writes are complete or, in the other   *)
(* part, may be short.  The part that is not under check stays as it is.   *)
(***************************************************************************)
EXTENDS BinaryCache, TLC

CONSTANTS t1, t2, a, b, c

VARIABLES
  part,
  shortFile, shortPos, shortRecords, shortOwner, shortPc, shortCall, shortLocal,
  shortHandle, shortBuffer

shortVars == <<shortFile, shortPos, shortRecords, shortOwner, shortPc, shortCall,
               shortLocal, shortHandle, shortBuffer>>
allVars == <<part, vars, shortVars>>

\* A one-cell blob and a two-cell blob: the second makes a wrong offset or a
\* torn write visible.
MCCell == {a, b, c}
MCData == {<<a>>, <<b, c>>}
MCThread == {t1, t2}

\* What a full disk can and cannot damage.
Short == INSTANCE BinaryCache WITH
  WriteMayFail <- TRUE, MaxBlobs <- 2,
  file <- shortFile, pos <- shortPos, records <- shortRecords, owner <- shortOwner,
  pc <- shortPc, call <- shortCall, local <- shortLocal, handle <- shortHandle,
  buffer <- shortBuffer

MCInit == part \in {"complete", "short"} /\ Init /\ Short!Init

MCBody == part = "complete" /\ (\E t \in Thread : Body(t)) /\ UNCHANGED <<part, shortVars>>
MCNext ==
  \/ part = "complete" /\ Next /\ UNCHANGED <<part, shortVars>>
  \/ part = "short" /\ Short!Next /\ UNCHANGED <<part, vars>>

MCSpec == MCInit /\ [][MCNext]_allVars /\ WF_allVars(MCBody)

-----------------------------------------------------------------------------
\* With writes that may store less than asked, what was once readable under an id
\* still is and stays the same.
BlobsSurviveShortWrites == Short!StoredBlobsSurvive
==============================================================================
