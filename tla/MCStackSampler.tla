--------------------------- MODULE MCStackSampler ----------------------------
(* StackSampler for TLC: Redis with an I/O thread and a process it forks; a  *)
(* binary mapped at 4 .. 7 with two aliases, a stripped library at 9 .. 10,  *)
(* and a stack region.                                                       *)
EXTENDS StackSampler

MCTgid == [t \in Threads |-> IF t = 3 THEN 3 ELSE 1]

Map(start, end, offset, path) ==
    [start |-> start, end |-> end, offset |-> offset, path |-> path]

Sym(addr, defined, name) == [addr |-> addr, defined |-> defined, name |-> name]

MCProcMaps ==
    {Map(4, 8, 1, "redis"), Map(9, 11, 0, "libc"), Map(11, 13, 0, "[stack]")}

MCElf ==
    [redis |-> [syms |-> <<Sym(4, TRUE, "call"), Sym(2, TRUE, "aeMain"),
                           Sym(0, FALSE, "write"), Sym(2, TRUE, "alias")>>,
                dynsyms |-> <<>>],
     libc |-> [syms |-> <<>>, dynsyms |-> <<Sym(1, TRUE, "read")>>]]

MCKallsyms == <<[addr |-> 13, name |-> "tcp_sendmsg"],
                [addr |-> 12, name |-> "tcp_recvmsg"]>>

\* 5 is the address of the aliases, 4 lies below all symbols, 8 between the
\* mappings, 10 in the library, 12 in the stack region.
MCUStacks == {<<5, 4, 7>>, <<8, 10, 12>>}

MCKStacks == {<<>>, <<15, 14, 11>>, <<0>>}
=============================================================================
