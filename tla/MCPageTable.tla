---------------------------- MODULE MCPageTable ----------------------------
EXTENDS PageTable

\* Entries of 2, 4, 8 and 16 bytes, pages of 2 bytes.
MCSpan == <<2, 4, 8, 16>>

MCPickFree(S) == CHOOSE p \in S : \A q \in S : p <= q

MCRanges == {<<9, 2>>, <<14, 2>>, <<24, 2>>, <<0, 32>>}

MCBootMaps ==
    {[va |-> 12, size |-> 2, pa |-> NPAGES, flags |-> {"PRESENT", "HUGE"}],
     [va |-> 24, size |-> 4, pa |-> NPAGES, flags |-> {"WRITE"}],
     [va |-> 16, size |-> 2, pa |-> NPAGES, flags |-> {"PRESENT", "WRITE", "NO_EXEC"}]}

\* The code, its data, a header that is not loaded and one of user space.
MCProgramHeaders ==
    LET Header(va, load, exec, write) ==
            [load |-> load, va |-> va, size |-> 2, pa |-> 1, exec |-> exec, write |-> write]
    IN  <<Header(32, TRUE, TRUE, FALSE), Header(34, TRUE, FALSE, TRUE),
          Header(36, FALSE, FALSE, FALSE), Header(4, TRUE, FALSE, FALSE)>>

MCKernelRegion ==
    [va |-> 32, size |-> 8, pa |-> 0, flags |-> {"PRESENT", "WRITE", "NO_EXEC"}]
MCStackRegion ==
    [va |-> 44, size |-> 2, pa |-> 1, flags |-> {"PRESENT", "WRITE", "NO_EXEC"}]
MCPagesRegion ==
    [va |-> 36, size |-> 10, pa |-> 2, flags |-> {"PRESENT", "WRITE", "NO_EXEC"}]

\* Memory that was never used, and memory with a page left full of references to
\* page 1, the second of them as a huge page.
MCTable ==
    [i \in Slots |->
        [page |-> 1, flags |-> IF i = 1 THEN {"PRESENT", "HUGE"} ELSE {"PRESENT"}]]

MCNoLeftovers == {[p \in Pages |-> Empty]}
MCLeftovers == MCNoLeftovers \cup {[p \in Pages |-> IF p = 2 THEN MCTable ELSE Empty]}

MCPageData == {MCTable}
=============================================================================
