---------------------------- MODULE DriverImage ----------------------------
(***************************************************************************)
(* What the driver loader does with a package image: validation, loading   *)
(* of the sections, resolution, relocation, protection and the release of  *)
(* the sections when a step fails (kernel/driver/driver_loader.cpp).       *)
(*                                                                         *)
(* Offsets, sizes and addresses are words of WordBits bits, so that every  *)
(* sum and difference wraps as uint64_t does; Ptr and Rel are the widths   *)
(* of an ABS64 and a REL32 field.  Strings, magic numbers and hashes are   *)
(* the booleans headerOk, manifestOk, namesOk and signatureOk.             *)
(***************************************************************************)
EXTENDS Integers, Sequences

CONSTANTS Images,      \* the images presented to the loader
          Bases,       \* addresses the image arena hands out
          WordBits, Ptr, Rel, PageSize,
          MaxSections, \* DRIVER_MAX_LOADED_SECTIONS
          MaxImports,  \* DRIVER_MAX_RESOLVED_IMPORTS
          EntrySize,   \* sizeof of a table entry
          ManifestSize, DependencySize, BlockSize

Word == 2^WordBits
Table == {"section", "symbol", "import", "export", "relocation"}

VARIABLES img,      \* the image
          stage,    \* the next step of the loader
          next,     \* index of the next section, relocation or import
          section,  \* section[i]: base, size, pages, kind and protection, once loaded
          patched,  \* the last field written into a section
          result

imageVars == <<img, stage, next, section, patched, result>>

NotLoaded == [base |-> 0, size |-> 0, pages |-> 0, kind |-> "none", prot |-> {}]
NoPatch == [section |-> 0, offset |-> 0, width |-> 0, value |-> 0, target |-> 0]

ImageInit ==
    /\ img \in Images
    /\ stage = "header" /\ next = 1
    /\ section = [i \in 1..Len(img.sections) |-> NotLoaded]
    /\ patched = NoPatch /\ result = "none"

-----------------------------------------------------------------------------
(* Validation.                                                             *)

Minus(a, b) == (a - b) % Word

RangeInsideBySum(offset, size, fileSize) == (offset + size) % Word <= fileSize

RangeInside(offset, size, fileSize) ==
    size = 0 \/ (offset <= fileSize /\ size <= Minus(fileSize, offset))

TableShapeValid(t, size) ==
    \/ t.count = 0
    \/ t.entry >= EntrySize /\ RangeInside(t.offset, t.count * t.entry, size)

FieldInside(offset, width, size) == offset <= size /\ Minus(size, offset) >= width

HeaderValid ==
    /\ img.headerOk
    /\ RangeInside(img.manifest.offset, img.manifest.size, img.size)
    /\ img.manifest.size >= ManifestSize
    /\ \A t \in Table : TableShapeValid(img.table[t], img.size)
    /\ RangeInside(img.signature.offset, img.signature.size, img.size)
    /\ RangeInside(img.certificate.offset, img.certificate.size, img.size)
    /\ img.signature.size # 0 /\ img.certificate.size # 0

SectionsValid ==
    /\ Len(img.sections) <= MaxSections
    /\ \A i \in 1..Len(img.sections) : LET s == img.sections[i] IN
          /\ s.kind \in {"CODE", "RODATA", "DATA", "BSS"}
          /\ s.alignment \in {2^k : k \in 0..WordBits} /\ s.alignment <= PageSize
          /\ s.memory >= s.file
          /\ IF s.kind = "BSS" THEN s.file = 0 ELSE RangeInside(s.offset, s.file, img.size)

ManifestValid ==
    img.manifestOk /\ img.manifest.size >= ManifestSize + img.dependencies * DependencySize

NamesValid ==
    /\ img.namesOk
    /\ \A i \in 1..Len(img.symbols) : LET y == img.symbols[i] IN
          /\ y.section \in 1..Len(img.sections)
          /\ FieldInside(y.value, y.size, img.sections[y.section].memory)
    /\ \A i \in 1..Len(img.imports) : LET m == img.imports[i] IN
          /\ m.section \in 1..Len(img.sections)
          /\ FieldInside(m.offset, Ptr, img.sections[m.section].memory)
    /\ \A i \in 1..Len(img.relocations) : LET r == img.relocations[i] IN
          /\ r.section \in 1..Len(img.sections) /\ r.symbol \in 1..Len(img.symbols)
          /\ FieldInside(r.offset, IF r.abs THEN Ptr ELSE Rel, img.sections[r.section].memory)

SignatureValid ==
    /\ img.signature.size >= BlockSize /\ img.certificate.size >= BlockSize
    /\ img.signatureOk

(* The stages in the order of driver_manager_validate_drv_image.            *)
Verdict(valid, then) ==
    /\ stage' = IF valid THEN then ELSE "done"
    /\ result' = IF valid THEN result ELSE "rejected"
    /\ UNCHANGED <<img, next, section, patched>>

ValidateHeader    == stage = "header" /\ Verdict(HeaderValid, "sections")
ValidateSections  == stage = "sections" /\ Verdict(SectionsValid, "manifest")
ValidateManifest  == stage = "manifest" /\ Verdict(ManifestValid, "names")
ValidateNames     == stage = "names" /\ Verdict(NamesValid, "signature")
ValidateSignature == stage = "signature" /\ Verdict(SignatureValid, "load")

-----------------------------------------------------------------------------
(* Loading.                                                                *)

MemorySize(s) == IF s.memory = 0 THEN 1 ELSE s.memory

(* align_up_u64 wraps for a size in the last page of the address space.     *)
PageCount(size) == (((size + PageSize - 1) % Word) \div PageSize)

Overlaps(a, m, b, n) == a < b + n * PageSize /\ b < a + m * PageSize

(* driver_image_va_allocate returns a range no section uses; it, the        *)
(* registry or the mapping may fail, and then nothing of the section stays. *)
AllocateSection(base, pages) ==
    /\ pages # 0 /\ base + pages * PageSize <= Word
    /\ \A i \in DOMAIN section :
          section[i].pages # 0 => ~ Overlaps(base, pages, section[i].base, section[i].pages)

LoadSection(base) ==
    /\ stage = "load" /\ next <= Len(img.sections)
    /\ LET s == img.sections[next] pages == PageCount(MemorySize(s))
       IN  /\ AllocateSection(base, pages)
           /\ section' = [section EXCEPT ![next] =
                 [base |-> base, size |-> MemorySize(s), pages |-> pages,
                  kind |-> s.kind, prot |-> {"W"}]]
           /\ patched' = [NoPatch EXCEPT !.section = next, !.width = s.file]
    /\ next' = next + 1
    /\ UNCHANGED <<img, stage, result>>

Fail(why) == stage' = "free" /\ result' = why /\ next' = 1 /\ patched' = NoPatch

NoSectionMemory ==
    /\ stage = "load" /\ next <= Len(img.sections)
    /\ Fail("OUT_OF_MEMORY")
    /\ UNCHANGED <<img, section>>

Resolve ==
    /\ stage = "load" /\ next > Len(img.sections)
    /\ IF Len(img.imports) <= MaxImports /\ img.resolvable
       THEN stage' = "relocate" /\ next' = 1 /\ patched' = NoPatch /\ UNCHANGED result
       ELSE Fail("UNRESOLVED")
    /\ UNCHANGED <<img, section>>

(* resolve_symbol_by_index: the address right behind the section is allowed. *)
SymbolAddress(y) ==
    IF y.value > section[y.section].size THEN 0 ELSE section[y.section].base + y.value

Signed(x) == IF x >= Word \div 2 THEN x - Word ELSE x

(* A REL32 field holds half a word, and is sign-extended when it is used.    *)
RelWord == 2^(WordBits \div 2)
Extended(v) == IF v >= RelWord \div 2 THEN v - RelWord ELSE v

InRel(x) == -(RelWord \div 2) <= x /\ x < RelWord \div 2

Relocate ==
    /\ stage = "relocate" /\ next <= Len(img.relocations)
    /\ LET r == img.relocations[next]
           s == section[r.section]
           width == IF r.abs THEN Ptr ELSE Rel
           target == (SymbolAddress(img.symbols[r.symbol]) + r.addend) % Word
           relative == Signed(Minus(target, s.base + r.offset + Rel))
       IN  CASE SymbolAddress(img.symbols[r.symbol]) = 0 \/ ~ FieldInside(r.offset, width, s.size)
                  -> Fail("BAD_HEADER")
             [] ~ r.abs /\ ~ InRel(relative) -> Fail("UNSUPPORTED_RELOC")
             [] OTHER ->
                  /\ patched' = [section |-> r.section, offset |-> r.offset, width |-> width,
                                 value |-> IF r.abs THEN target ELSE relative % RelWord, target |-> target]
                  /\ next' = next + 1
                  /\ UNCHANGED <<stage, result>>
    /\ UNCHANGED <<img, section>>

RelocationsDone ==
    /\ stage = "relocate" /\ next > Len(img.relocations)
    /\ IF Len(img.sections) = 0 THEN Fail("BAD_HEADER")
       ELSE stage' = "patch" /\ next' = 1 /\ patched' = NoPatch /\ UNCHANGED result
    /\ UNCHANGED <<img, section>>

PatchImport ==
    /\ stage = "patch" /\ next <= Len(img.imports)
    /\ LET m == img.imports[next]
       IN  IF FieldInside(m.offset, Ptr, section[m.section].size)
           THEN /\ patched' = [NoPatch EXCEPT !.section = m.section, !.offset = m.offset,
                                              !.width = Ptr]
                /\ next' = next + 1 /\ UNCHANGED <<stage, result>>
           ELSE Fail("BAD_HEADER")
    /\ UNCHANGED <<img, section>>

Protection(kind) ==
    CASE kind = "CODE" -> {"X"} [] kind \in {"DATA", "BSS"} -> {"W"} [] OTHER -> {}

Protect(upTo) ==
    /\ stage = "patch" /\ next > Len(img.imports)
    /\ upTo <= Len(img.sections)
    /\ section' = [i \in DOMAIN section |->
                     IF i <= upTo THEN [section[i] EXCEPT !.prot = Protection(section[i].kind)]
                     ELSE section[i]]
    /\ IF upTo = Len(img.sections)
       THEN stage' = "export" /\ next' = 1 /\ patched' = NoPatch /\ UNCHANGED result
       ELSE Fail("OUT_OF_MEMORY")
    /\ UNCHANGED img

CodeSections == {i \in DOMAIN section : section[i].kind = "CODE"}

(* Exports are offsets into the first code section; registering may fail.    *)
RegisterExport(ok) ==
    /\ stage = "export" /\ next <= Len(img.exports)
    /\ IF CodeSections = {} THEN Fail("BAD_HEADER")
       ELSE LET code == CHOOSE i \in CodeSections : \A j \in CodeSections : i <= j
            IN  IF ok /\ img.exports[next] < section[code].size
                THEN /\ patched' = [NoPatch EXCEPT !.section = code, !.value = img.exports[next]]
                     /\ next' = next + 1 /\ UNCHANGED <<stage, result>>
                ELSE Fail("BAD_HEADER")
    /\ UNCHANGED <<img, section>>

Linked ==
    /\ stage = "export" /\ next > Len(img.exports)
    /\ stage' = "done" /\ result' = "linked" /\ patched' = NoPatch
    /\ UNCHANGED <<img, next, section>>

(* free_loaded_image: a range that cannot be retired is quarantined, and     *)
(* its pages are kept from every later use.                                  *)
FreeSection(retired) ==
    /\ stage = "free" /\ next <= Len(img.sections)
    /\ section' = [section EXCEPT ![next] =
                     IF retired \/ @.pages = 0 THEN NotLoaded
                     ELSE [@ EXCEPT !.pages = 0, !.kind = "quarantined", !.prot = {}]]
    /\ next' = next + 1
    /\ UNCHANGED <<img, stage, patched, result>>

Freed ==
    /\ stage = "free" /\ next > Len(img.sections)
    /\ stage' = "done"
    /\ UNCHANGED <<img, next, section, patched, result>>

ImageNext ==
    \/ ValidateHeader \/ ValidateSections \/ ValidateManifest \/ ValidateNames
    \/ ValidateSignature \/ NoSectionMemory \/ Resolve \/ Relocate \/ RelocationsDone
    \/ PatchImport \/ Linked \/ Freed
    \/ \E base \in Bases : LoadSection(base)
    \/ \E upTo \in 0..MaxSections : Protect(upTo)
    \/ \E ok \in BOOLEAN : RegisterExport(ok) \/ FreeSection(ok)

-----------------------------------------------------------------------------
(* The bytes of the image that a stage reads, as exact integers.            *)
Reads ==
    CASE stage = "sections" ->
           {<<img.table[t].offset, img.table[t].count * img.table[t].entry>> :
               t \in {u \in Table : img.table[u].count # 0}}
      [] stage = "manifest" -> {<<img.manifest.offset, ManifestSize>>}
      [] stage = "names" ->
           {<<img.manifest.offset, ManifestSize + img.dependencies * DependencySize>>}
      [] stage = "signature" ->
           {<<img.certificate.offset, img.certificate.size>>, <<0, img.signature.offset>>}
      [] stage = "load" ->
           {<<img.sections[i].offset, img.sections[i].file>> :
               i \in {j \in 1..Len(img.sections) : img.sections[j].file # 0}}
      [] OTHER -> {}

(* What has been validated keeps every later read inside the file, also for  *)
(* offsets and sizes whose sum wraps.                                        *)
ReadsInside == \A r \in Reads : r[1] + r[2] <= img.size

(* Section contents, relocations and import addresses are written inside the *)
(* pages of their section, while these are writable.                         *)
WritesInside ==
    patched.width # 0 =>
        LET s == section[patched.section]
        IN  patched.offset + patched.width <= s.pages * PageSize /\ "W" \in s.prot

(* A relative field leads from the instruction behind it to its symbol.      *)
RelativeReaches ==
    stage = "relocate" /\ patched.width = Rel =>
        (section[patched.section].base + patched.offset + Rel + Extended(patched.value)) % Word
            = patched.target

(* No page of a driver is writable and executable, at any stage, and code is *)
(* executable when the image is linked.                                      *)
WriteXorExecute ==
    \A i \in DOMAIN section :
        /\ ~ {"W", "X"} \subseteq section[i].prot
        /\ result = "linked" => (section[i].kind = "CODE" <=> "X" \in section[i].prot)

(* A load that fails keeps nothing but quarantined ranges.                   *)
FailureFrees ==
    stage = "done" /\ result # "linked" => \A i \in DOMAIN section : section[i].pages = 0
=============================================================================
