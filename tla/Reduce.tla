-------------------------------- MODULE Reduce --------------------------------
(***************************************************************************)
(* The programs of src/reduce, reduce, run_imager and run_sourcefind:      *)
(* images are made from visibilities, and sources are found in images.     *)
(* The functions of the library that they use can be called on their own   *)
(* too (by the tests and the Python binding).                              *)
(*                                                                         *)
(* What an image contains is not known of the imager, so that sources are  *)
(* found in any image of SourceFindCalls.                                  *)
(***************************************************************************)
EXTENDS Imager, SourceFind

VARIABLE
  program          \* "idle", "imaging", "imaged", "finding", "over" or "failed"

reducevars == <<program, imagervars, sourcevars>>

ReduceInit == program = "idle" /\ ImagerIdle /\ SourceInit

\* reduce or run_imager.
StartImager ==
  /\ program = "idle"
  /\ program' = "imaging"
  /\ \E c \in ImageCalls : CallImager(c)
  /\ UNCHANGED sourcevars

Imaging ==
  /\ program = "imaging"
  /\ ImagerStep
  /\ UNCHANGED <<program, sourcevars>>

\* The result of the imager is all that is left of it.  If nothing was gridded it is
\* an empty matrix, in which reduce looks for sources nevertheless: what that does
\* is not modelled.
ImagerReturned ==
  /\ program = "imaging"
  /\ ipc = "done"
  /\ program' = IF norm_result["image"] = Empty THEN "over" ELSE "imaged"
  /\ ResetImager
  /\ UNCHANGED sourcevars

\* An exception or a failed assertion ends the program.
ImagerFailed ==
  /\ program = "imaging"
  /\ ipc \in {"threw", "aborted"}
  /\ program' = "failed"
  /\ ResetImager
  /\ UNCHANGED sourcevars

\* run_imager ends.
SaveImage ==
  /\ program = "imaged"
  /\ program' = "over"
  /\ UNCHANGED <<imagervars, sourcevars>>

\* reduce: the image is handed over.
FindInImage ==
  /\ program = "imaged"
  /\ program' = "finding"
  /\ \E c \in SourceFindCalls : CallSourceFind(c)
  /\ UNCHANGED imagervars

\* run_sourcefind passes the minimum area for the flag of the label map, and the flag
\* for the area.
Swapped(c) ==
  [c EXCEPT !.generate_labelmap = c.source_min_area # 0,
            !.source_min_area   = IF c.generate_labelmap THEN 1 ELSE 0]

StartSourceFind ==
  /\ program = "idle"
  /\ program' = "finding"
  /\ \E c \in SourceFindCalls : CallSourceFind(Swapped(c))
  /\ UNCHANGED imagervars

\* A call of one of the library's functions, on its own.
CallLibrary ==
  /\ program = "idle"
  /\ program' = "finding"
  /\ SourceCall
  /\ UNCHANGED imagervars

Finding ==
  /\ program = "finding"
  /\ SourceRun
  /\ UNCHANGED <<program, imagervars>>

\* The end of the program.
Ended ==
  /\ \/ program \in {"over", "failed"}
     \/ program = "finding" /\ SourceReturned
  /\ UNCHANGED reducevars

ReduceNext ==
  \/ StartImager
  \/ Imaging
  \/ ImagerReturned
  \/ ImagerFailed
  \/ SaveImage
  \/ FindInImage
  \/ StartSourceFind
  \/ CallLibrary
  \/ Finding
  \/ Ended

ReduceSpec == ReduceInit /\ [][ReduceNext]_reducevars

------------------------------------------------------------------------------
\* Data whose range is small enough for the number of a bin to be an int, as long as
\* the interval is not narrower than BINMEDIAN_MIN_RANGE: what is proved of the
\* statistics is proved of such data.
NarrowData(x) ==
  \A s, t \in DOMAIN x : (x[s] - x[t]) * N * MinRangeInv + N <= IntMax

NarrowCalls ==
  /\ \A c \in MedianCalls : NarrowData(c.data)
  /\ \A c \in RmsCalls : NarrowData(c.data)
  /\ \A c \in SourceFindCalls : NarrowData(c.image)
==============================================================================
