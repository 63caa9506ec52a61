--------------------------- MODULE SymbolResolver ---------------------------
(***************************************************************************)
(* DobbySymbolResolver, with which so_killer.cpp finds the linker's        *)
(* do_dlopen: the dynamic linker is asked first; then /proc/self/maps is   *)
(* read for the loaded modules, and the symbol tables in their files are   *)
(* searched, in the library that was named and then in every file.  Other  *)
(* threads may unload modules meanwhile.                                   *)
(*                                                                         *)
(* A module is what the search can tell of it.  Linked for base, it is     *)
(* loaded at LoadedAt; the symbol is Offset behind base.  A file is mapped *)
(* anywhere in MapsTo for the time of the search.  The path in the maps is  *)
(* that of the file a region is mapped from, and where in the file does not *)
(* matter to the code (region_offset is read and never used): of a library *)
(* that is mapped from inside an archive it is the archive that is opened  *)
(* and whose beginning is taken for an ELF header.                         *)
(***************************************************************************)
EXTENDS Integers, Sequences, FiniteSets, SequencesExt, FiniteSetsExt

CONSTANTS Modules,
          LoadedAt,    \* LoadedAt[m]: the address of the first region of m
          MapsTo,      \* where mmap may put a file
          Bases,       \* the addresses a module may be linked for
          Offset,
          NoModule

ASSUME SymbolResolverAssumption ==
    /\ IsFiniteSet(Modules) /\ NoModule \notin Modules
    /\ \A m \in Modules : LoadedAt[m] \in Nat \ {0}
    /\ MapsTo \subseteq Nat \ {0} /\ Bases \subseteq Nat /\ Offset \in Nat \ {0}

VARIABLES file,       \* file[m]: whether it opens and begins with the module's
                      \* ELF header, the base of the module, and which of its
                      \* tables define the symbol; an import says 0 there
          regions,    \* /proc/self/maps: the modules that are loaded; NoModule
                      \* is a region without ELF header
          library,    \* the module of the name library_name, or NoModule if
                      \* it is NULL or in no path
          named,      \* whether it is the named library that is searched
          lines,      \* lines still to be read
          found,      \* ProcessModuleMap
          todo,       \* modules whose files are still to be searched
          mapped,     \* (module, address) of files that are mapped
          step, result,
          failed      \* (history) what went wrong

resolverVars == <<file, regions, library, named, lines, found, todo, mapped, step, result,
                  failed>>
given == <<file, regions, library>>

Files == [opens : BOOLEAN, elf : BOOLEAN, base : Bases, sym : BOOLEAN, dyn : BOOLEAN]

ResolverInit ==
    /\ file \in [Modules -> Files]
    /\ regions \in {<<NoModule>> \o s : s \in SetToSeqs(Modules)}
    /\ library \in Modules \cup {NoModule}
    /\ named \in BOOLEAN /\ (library # NoModule => named)
    /\ lines = << >> /\ found = << >> /\ todo = << >> /\ mapped = {}
    /\ step = "dlsym" /\ result = 0 /\ failed = {}

\* dlsym gives an address, which is returned, or none.
Dlsym ==
    /\ step = "dlsym"
    /\ step' \in {"answered", "open"}
    /\ UNCHANGED <<given, named, lines, found, todo, mapped, result, failed>>

-----------------------------------------------------------------------------
(* get_process_map_with_proc_maps *)

\* feof tells only after the last line has been handled once more, from the
\* buffer that still holds it.
OpenMaps ==
    /\ step = "open"
    /\ lines' = Append(regions, Last(regions))
    /\ found' = << >> /\ step' = "line"
    /\ UNCHANGED <<given, named, todo, mapped, result, failed>>

OpenMapsFails ==
    /\ step = "open"
    /\ found' = << >> /\ lines' = << >> /\ step' = "line"
    /\ failed' = failed \cup {"fopen"}
    /\ UNCHANGED <<given, named, todo, mapped, result>>

SkipRegion ==
    /\ step = "line" /\ lines # << >> /\ Head(lines) = NoModule
    /\ lines' = Tail(lines)
    /\ UNCHANGED <<given, named, found, todo, mapped, step, result, failed>>

\* The ELF magic is read from the region itself, which may be gone.
ReadHeader ==
    /\ step = "line" /\ lines # << >> /\ Head(lines) # NoModule
    /\ lines' = Tail(lines)
    /\ found' = Append(found, Head(lines))
    /\ step' = IF Head(lines) \in ToSet(regions) THEN "line" ELSE "crashed"
    /\ UNCHANGED <<given, named, todo, mapped, result, failed>>

\* fgets cuts a line at LINE_MAX - 1 characters, so that the rest of a longer one
\* is never skipped but read for a line, and does not parse: FATAL aborts.
ParseFails ==
    /\ step = "line" /\ lines # << >>
    /\ step' = "crashed" /\ failed' = failed \cup {"parse"}
    /\ UNCHANGED <<given, named, lines, found, todo, mapped, result>>

\* GetProcessModule takes the first module of the name.
MapsRead ==
    /\ step = "line" /\ lines = << >>
    /\ todo' = IF ~named THEN found
               ELSE IF library \in ToSet(found) THEN <<library>> ELSE << >>
    /\ step' = "file"
    /\ UNCHANGED <<given, named, lines, found, mapped, result, failed>>

-----------------------------------------------------------------------------
(* resolve_elf_internal_symbol *)

\* Mutant: the search ends there.
NotOpenedStops ==
    /\ step = "file" /\ todo # << >> /\ ~file[Head(todo)].opens
    /\ step' = "resolved"
    /\ UNCHANGED <<given, named, lines, found, todo, mapped, result, failed>>

\* file_mmap gives NULL when the file does not open: on to the next.
NotOpened ==
    /\ step = "file" /\ todo # << >> /\ ~file[Head(todo)].opens
    /\ todo' = Tail(todo)
    /\ UNCHANGED <<given, named, lines, found, mapped, step, result, failed>>

\* When mmap fails, file_mmap gives MAP_FAILED, which is not NULL and is read.
MmapFails ==
    /\ step = "file" /\ todo # << >> /\ file[Head(todo)].opens
    /\ step' = "crashed" /\ failed' = failed \cup {"mmap"}
    /\ UNCHANGED <<given, named, lines, found, todo, mapped, result>>

MapFile(address) ==
    /\ step = "file" /\ todo # << >> /\ file[Head(todo)].opens
    /\ mapped' = mapped \cup {<<Head(todo), address>>}
    /\ step' = "search"
    /\ UNCHANGED <<given, named, lines, found, todo, result, failed>>

\* elf_ctx_init: PT_PHDR and the first PT_LOAD both give the place of the file
\* less base.  If that is 0 the second PT_LOAD, whose address is a page further
\* from its offset, is taken instead.
LoadBias(m, address) ==
    IF address # file[m].base THEN address - file[m].base ELSE -1

\* elf_ctx_iterate_symbol_table: .symtab, then .dynsym; the value, or 0.
Lookup(m) == IF file[m].sym \/ file[m].dyn THEN file[m].base + Offset ELSE 0

\* Mutant: the address the module was linked for is not taken off.
RelocatedUnbiased(m, address) == Lookup(m) + LoadedAt[m]

Relocated(m, address) == Lookup(m) + LoadedAt[m] - (address - LoadBias(m, address))

\* The tables are searched, the address is computed and the file unmapped; a
\* result ends the search.
Search(m, address) ==
    /\ step = "search" /\ m = Head(todo) /\ <<m, address>> \in mapped /\ file[m].elf
    /\ result' = IF Lookup(m) = 0 THEN 0 ELSE Relocated(m, address)
    /\ mapped' = mapped \ {<<m, address>>}
    /\ todo' = Tail(todo) /\ step' = IF result' = 0 THEN "file" ELSE "resolved"
    /\ UNCHANGED <<given, named, lines, found, failed>>

\* What elf_ctx_init takes for the header of an archive are bytes of the archive:
\* the tables they lead to cannot be read, hold no such symbol, or hold one.
SearchArchive(m, address) ==
    /\ step = "search" /\ m = Head(todo) /\ <<m, address>> \in mapped /\ ~file[m].elf
    /\ \/ /\ step' = "crashed" /\ failed' = failed \cup {"archive"}
          /\ UNCHANGED <<todo, mapped, result>>
       \/ /\ step' = "file" /\ failed' = failed \cup {"archive"}
          /\ todo' = Tail(todo) /\ mapped' = mapped \ {<<m, address>>} /\ UNCHANGED result
       \/ /\ step' = "resolved" /\ failed' = failed \cup {"archive", "misread"}
          /\ todo' = Tail(todo) /\ mapped' = mapped \ {<<m, address>>} /\ result' \in MapsTo
    /\ UNCHANGED <<given, named, lines, found>>

\* The named library did not have it: the maps are read again for all modules.
SearchAll ==
    /\ step = "file" /\ todo = << >> /\ named
    /\ named' = FALSE /\ step' = "open"
    /\ UNCHANGED <<given, lines, found, todo, mapped, result, failed>>

NotFound ==
    /\ step = "file" /\ todo = << >> /\ ~named
    /\ step' = "resolved"
    /\ UNCHANGED <<given, named, lines, found, todo, mapped, result, failed>>

\* Another thread unloads a module.
Unload(m) ==
    /\ step \notin {"answered", "resolved", "crashed"} /\ m \in ToSet(regions)
    /\ regions' = RemoveFirst(regions, m) /\ failed' = failed \cup {"unload"}
    /\ UNCHANGED <<file, library, named, lines, found, todo, mapped, step, result>>

ResolverNext ==
    \/ Dlsym \/ OpenMaps \/ OpenMapsFails \/ SkipRegion \/ ReadHeader \/ ParseFails
    \/ MapsRead \/ NotOpened \/ MmapFails \/ SearchAll \/ NotFound
    \/ \E m \in Modules : Unload(m)
    \/ \E address \in MapsTo :
         \/ MapFile(address)
         \/ \E m \in Modules : Search(m, address) \/ SearchArchive(m, address)

ResolverSpec == ResolverInit /\ [][ResolverNext]_resolverVars

-----------------------------------------------------------------------------
(* Properties *)

\* A module whose file opens and that defines the symbol.
Defines(files, m) == m # NoModule /\ files[m].opens /\ (files[m].sym \/ files[m].dyn)

\* The module the symbol should come from: the library that was named, or the
\* first region of the maps that has it.
FirstOf(files, s) ==
    LET hits == {i \in DOMAIN s : Defines(files, s[i])}
    IN  IF hits = {} THEN NoModule ELSE s[Min(hits)]
Wanted == FirstOf(file, <<library>> \o regions)

\* The symbol is found whenever the file of a module defines it, though other
\* files cannot be opened or only import it, and the name is in no path; unless
\* something fails or an archive is opened before.  A crash needs a module that
\* was unloaded while the maps were read, an mmap that fails, a library mapped
\* from inside an archive, or a line of the maps that is too long.  No file stays
\* mapped however the search ends, and files are mapped one at a time.
FoundIfDefined ==
    /\ step = "resolved" => mapped = {}
    /\ Cardinality(mapped) <= 1
    /\ step = "resolved" /\ failed = {} => (result # 0 <=> Wanted # NoModule)
    /\ step = "crashed" => failed \cap {"unload", "mmap", "archive", "parse"} # {}

\* The address is the symbol's in the module as it is loaded, the named library
\* before any other, wherever files were mapped and modules were linked for;
\* unless a file may be mapped right at the place it was linked for, or the bytes
\* of an archive were read as a symbol.  When modules come and go it is still the
\* address in one that has the symbol.
AddressOfSymbol ==
    step = "resolved" /\ result # 0 /\ "misread" \notin failed =>
        \E m \in Modules :
            /\ Defines(file, m) /\ (failed = {} => m = Wanted)
            /\ result = LoadedAt[m] + Offset \/ file[m].base \in MapsTo
=============================================================================
