--------------------------- MODULE MCCallerClassify ---------------------------
(***************************************************************************)
(* Instances of CallerClassify for TLC.                                    *)
(***************************************************************************)
EXTENDS CallerClassify

Obj(s, n, c) == [solaris |-> s, strtab |-> TRUE, count |-> n, chain |-> c]

\* A patched binary that the scan could not read; one without a string table;
\* one with a count and no chain; one that needs no versions; glibc's name
\* first, last, in the second need, beyond the count; a count beyond the chain.
Samples ==
    {[Obj(TRUE, 0, <<>>) EXCEPT !.strtab = FALSE],
     [Obj(FALSE, 0, <<>>) EXCEPT !.strtab = FALSE],
     Obj(FALSE, 1, <<>>),
     Obj(FALSE, 0, <<>>),
     Obj(FALSE, 1, << <<TRUE, FALSE>> >>),
     Obj(FALSE, 2, << <<FALSE, TRUE>>, <<FALSE>> >>),
     Obj(FALSE, 2, << <<FALSE>>, <<FALSE, TRUE>> >>),
     Obj(FALSE, 1, << <<FALSE>>, <<TRUE>> >>),
     Obj(FALSE, 3, << <<FALSE, FALSE>>, <<FALSE>> >>)}
=============================================================================
