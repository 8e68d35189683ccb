------------------------------ MODULE MCConsole ------------------------------
EXTENDS Console

CONSTANT key \* a printable character

MCPrintable == {key}

\* A line of two keys stands for ptdump, shorter ones for the other commands.
MCPtdumpLines == {<<key, key>>}
=============================================================================
