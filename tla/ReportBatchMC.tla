------------------------------ MODULE ReportBatchMC ------------------------------
(* Word 0 is in the base dictionary, word 1 in the client's, 2 and above in none. *)
EXTENDS ReportBatch

Word(w) == <<"string", w>>

MCReports ==
  {(0 :> Word(1)) @@ (1 :> <<"int64", 5>>),   \* names in the dictionary
   (0 :> Word(2)) @@ (1 :> <<"int64", 5>>),   \* a value changes
   (0 :> Word(1)),                            \* an attribute goes away
   (0 :> Word(3)) @@ (2 :> <<"map", (1 :> 3) @@ (3 :> 0)>>)}  \* words in no dictionary
================================================================================
