----------------------------- MODULE Symbolizer -----------------------------
(***************************************************************************)
(* aya-test/src/symbolizer.rs: from an instruction pointer to the name of  *)
(* a frame, through /proc/<pid>/maps, the symbol table of a binary and     *)
(* /proc/kallsyms.                                                         *)
(*                                                                         *)
(* The tables are sorted by address, stably.  Mappings never share an      *)
(* address, so they are a set here; a table of symbols keeps the numbers   *)
(* its entries have in the file, and Before is the order after sorting.    *)
(* binary_search may stop at any of several entries with the address it    *)
(* looks for; only whether that is the last of them matters, and aliasLast *)
(* says so.                                                                *)
(***************************************************************************)
EXTENDS Integers, Sequences, SequencesExt

CONSTANTS
    Top,         \* u64::MAX
    ProcMaps,    \* lines of /proc/<pid>/maps: [start, end, offset, path]
    NoFile,      \* the paths of lines without a file: none, or "[...]"
    Elf,         \* path -> [syms, dynsyms], symbols [addr, defined, name]
    Kallsyms     \* lines of /proc/kallsyms with a name: [addr, name]

Addr == 0 .. Top

Symbol == [addr : Addr, defined : BOOLEAN, name : STRING]
KernelSymbol == [addr : Addr, name : STRING \ {""}]
MemMapping == [start : Addr, end : Addr, offset : Addr, path : STRING]

\* The kernel's mappings are not empty and do not overlap; no file reaches the
\* end of the address space.  A file that cannot be parsed has no symbols.
ASSUME SymbolizerConstants ==
    /\ Top \in Nat
    /\ ProcMaps \subseteq MemMapping
    /\ \A m \in ProcMaps :
          /\ m.start < m.end
          /\ m.end - m.start + m.offset <= Top
          /\ m.path \notin NoFile => m.path \in DOMAIN Elf
    /\ \A m, n \in ProcMaps : m = n \/ m.end <= n.start \/ n.end <= m.start
    /\ \A path \in DOMAIN Elf :
          Elf[path].syms \in Seq(Symbol) /\ Elf[path].dynsyms \in Seq(Symbol)
    /\ Kallsyms \in Seq(KernelSymbol)

VARIABLES
    maps,        \* Symbolizer.mappings
    ksyms,       \* Symbolizer.ksyms
    aliasLast    \* an exact hit among equal entries is the last of them

symVars == <<maps, ksyms, aliasLast>>

\* A frame of the graph: a function, or an address when no name is found.
Frame(kind, name, at) == [kind |-> kind, name |-> name, at |-> at]

-----------------------------------------------------------------------------
\* parse_maps, empty if the process is gone.
parse_maps(alive) ==
    {m \in ProcMaps : alive /\ m.start # 0 /\ m.path \notin NoFile}

\* load_kallsyms: the addresses are zero for a reader without the privilege.
load_kallsyms(hidden) ==
    [i \in DOMAIN Kallsyms |->
        IF hidden THEN [Kallsyms[i] EXCEPT !.addr = 0] ELSE Kallsyms[i]]

\* load_syms: .symtab, or .dynsym of a stripped binary; defined symbols with
\* an address and a name.
load_syms(path) ==
    LET table == IF Elf[path].syms = <<>> THEN Elf[path].dynsyms
                                          ELSE Elf[path].syms
    IN Restrict(table, {i \in DOMAIN table :
                           /\ table[i].addr # 0 /\ table[i].defined
                           /\ table[i].name # ""})

\* A binary is read once, so its table is the same for all frames.
symbol_cache == [path \in DOMAIN Elf |-> load_syms(path)]

\* Symbolizer::new
new_symbolizer(alive) ==
    /\ maps' = parse_maps(alive)
    /\ \E hidden \in BOOLEAN : ksyms' = load_kallsyms(hidden)
    /\ aliasLast' \in BOOLEAN

-----------------------------------------------------------------------------
\* The order of the sorted table.
Before(T, i, j) ==
    T[i].addr < T[j].addr \/ (T[i].addr = T[j].addr /\ i < j)

\* The last entry at or below ip: Err(i) gives i - 1.  Mutant: Err(i) as it is.
LastBelowNext(T, ip) ==
    {i \in DOMAIN T :
        T[i].addr > ip /\ \A j \in DOMAIN T : Before(T, j, i) => T[j].addr <= ip}
LastBelow(T, ip) ==
    {i \in DOMAIN T :
        T[i].addr <= ip /\ \A j \in DOMAIN T : Before(T, i, j) => T[j].addr > ip}

\* Where the binary search for ip ends; nowhere if all entries are above.
SearchEnd(T, ip) ==
    LET earlier == {i \in DOMAIN T : T[i].addr = ip} \ LastBelow(T, ip)
    IN IF ~aliasLast /\ earlier # {} THEN earlier ELSE LastBelow(T, ip)

\* ip < next_addr, which is u64::MAX for the last entry.
BelowNext(T, i, ip) ==
    LET after == {j \in DOMAIN T : Before(T, i, j)}
    IN IF after = {} THEN ip < Top ELSE \A j \in after : ip < T[j].addr

\* The name found for ip, "" if there is none.
Name(T, ip) ==
    LET found == {i \in SearchEnd(T, ip) : BelowNext(T, i, ip)}
    IN IF found = {} THEN "" ELSE T[CHOOSE i \in found : TRUE].name

resolve_kernel[ip \in Addr] ==
    LET name == Name(ksyms, ip)
    IN Frame("kernel", name, IF name = "" THEN ip ELSE 0)

\* The mapping ip lies in: the last that starts at or below it, if ip is below
\* its end or on its start.  Mutant: the end is not looked at.
LastMapping(ip) ==
    LET below == {m \in maps : m.start <= ip}
    IN {m \in below : \A n \in below : n.start <= m.start}
MappingOfNoEnd(ip) == LastMapping(ip)
MappingOf(ip) == {m \in LastMapping(ip) : m.start = ip \/ ip < m.end}

\* The frame at an offset of a mapped file.
FrameIn(m, off) ==
    LET name == Name(symbol_cache[m.path], off)
    IN IF name = "" THEN Frame("file", m.path, off) ELSE Frame("user", name, 0)

resolve[ip \in Addr] ==
    IF MappingOf(ip) = {} THEN Frame("user", "", ip)
    ELSE CHOOSE f \in {FrameIn(m, ip - m.start + m.offset) :
                           m \in MappingOf(ip)} : TRUE
=============================================================================
