----------------------------- MODULE UserImage -----------------------------
(***************************************************************************)
(* What the loader accepts and hands to a program: the checks on an ELF    *)
(* image (kernel/process/userprog64.cpp and the middle of                  *)
(* run_user_program_internal), the splitting of the command line and the   *)
(* argument block on the initial stack.                                    *)
(*                                                                         *)
(* An image grows one program header at a time and a command line one      *)
(* character at a time, so every state is an input.  64 bit sums wrap at   *)
(* ImgWrap.                                                                *)
(***************************************************************************)
EXTENDS Integers, Sequences, FiniteSets

CONSTANTS ImgWrap,       \* 2^64
          ImgPage,       \* VM_PAGE_SIZE
          ImgSize,       \* bytes of the file
          ImgRoom,       \* bytes between the code base and the stack base
          Headers,       \* program headers [load, off, filesz, memsz, vaddr, w]
          Entries,       \* e_entry
          MaxHeaders,
          ArgMax,        \* PROCESS_ARG_MAX
          MaxLine        \* PROCESS_CMDLINE_MAX

VARIABLES img,           \* [valid, entry, phdrs]
          line           \* sequence of " " and "a"

Add64(a, b) == (a + b) % ImgWrap
Sub64(a, b) == (a - b) % ImgWrap

(* elf64_validate_supported_image: the identification fields are one       *)
(* choice, the header table must lie in the file.                          *)
ValidImage(i) == i.valid /\ i.phdrs # <<>>

Loaded(i) == {k \in 1 .. Len(i.phdrs) : i.phdrs[k].load /\ i.phdrs[k].memsz # 0}

SegmentAccepted(h) ==
    /\ h.memsz = 0 => h.filesz = 0
    /\ h.filesz <= h.memsz
    /\ h.off <= ImgSize
    /\ Add64(h.off, h.filesz) <= ImgSize
    /\ Add64(h.vaddr, h.memsz) >= h.vaddr

SegEnd(h) == Add64(h.vaddr, h.memsz)
FirstVaddr(i) == CHOOSE a \in {i.phdrs[k].vaddr : k \in Loaded(i)} :
                    \A k \in Loaded(i) : a <= i.phdrs[k].vaddr
LastVaddr(i) == CHOOSE a \in {SegEnd(i.phdrs[k]) : k \in Loaded(i)} :
                    \A k \in Loaded(i) : SegEnd(i.phdrs[k]) <= a

(* elf64_collect_load_info.                                                *)
CollectLoadInfo(i) ==
    /\ \A k \in 1 .. Len(i.phdrs) : i.phdrs[k].load => SegmentAccepted(i.phdrs[k])
    /\ Loaded(i) # {}
    /\ \E k \in Loaded(i) : i.phdrs[k].vaddr <= i.entry /\ i.entry < SegEnd(i.phdrs[k])

LoadSize(i) == Sub64(LastVaddr(i), FirstVaddr(i))
CodePages(i) == (LoadSize(i) + ImgPage - 1) \div ImgPage

Accepted(i) ==
    /\ ValidImage(i) /\ CollectLoadInfo(i)
    /\ LoadSize(i) \in 1 .. ImgRoom
    /\ FirstVaddr(i) % ImgPage = 0

(* The pages a segment gives flags to, and the flags of each page.         *)
SegmentPages(i, h) ==
    LET s == Sub64(h.vaddr, FirstVaddr(i))
    IN  s \div ImgPage .. (Add64(s, h.memsz) - 1) \div ImgPage

ElfPageFlags(i, page) ==
    {"u"} \cup IF \E k \in Loaded(i) : i.phdrs[k].w /\ page \in SegmentPages(i, i.phdrs[k])
               THEN {"w", "nx"} ELSE {}

(***************************************************************************)
(* parse_launch_command: the cursor moves over the line, turning the space *)
(* after each argument into a terminator.                                  *)
(***************************************************************************)
RECURSIVE SkipSpaces(_, _)
SkipSpaces(s, c) == IF c > Len(s) \/ s[c] # " " THEN c ELSE SkipSpaces(s, c + 1)

RECURSIVE SkipWord(_, _)
SkipWord(s, c) == IF c > Len(s) \/ s[c] = " " THEN c ELSE SkipWord(s, c + 1)

RECURSIVE ParseFromWord(_, _, _)
ParseFromWord(s, c, argv) ==
    IF c > Len(s) \/ Len(argv) = ArgMax THEN argv
    ELSE ParseFromWord(s, SkipWord(s, c) + 1, Append(argv, <<c, SkipWord(s, c) - 1>>))

RECURSIVE ParseFrom(_, _, _)
ParseFrom(s, c, argv) ==
    LET word == SkipSpaces(s, c)
        end == SkipWord(s, word)
    IN  IF word > Len(s) \/ Len(argv) = ArgMax THEN argv
        ELSE ParseFrom(s, end + 1, Append(argv, <<word, end - 1>>))

ParseLaunchCommand(s) == ParseFrom(s, 1, <<>>)

(* prepare_user_stack_with_argv: how many bytes below the stack top each   *)
(* string starts, last argument first, and the final stack pointer.        *)
RECURSIVE StringDepth(_, _)
StringDepth(argv, k) ==
    IF k > Len(argv) THEN 0
    ELSE StringDepth(argv, k + 1) + (argv[k][2] - argv[k][1] + 1) + 1

AlignDown(depth) == ((depth + 7) \div 8) * 8

PointerDepth(argv) == AlignDown(StringDepth(argv, 1)) + 8
RspDepth(argv) == PointerDepth(argv) + 8 * Len(argv) + 8

ImageStart == /\ img \in {[valid |-> v, entry |-> e, phdrs |-> <<>>] : v \in BOOLEAN, e \in Entries}
              /\ line = <<>>

AddHeader(h) == /\ line = <<>> /\ Len(img.phdrs) < IF img.valid THEN MaxHeaders ELSE 1
                /\ img' = [img EXCEPT !.phdrs = Append(@, h)]
                /\ UNCHANGED line

TypeCharacter(c) == /\ img.phdrs = <<>> /\ Len(line) < MaxLine
                    /\ line' = Append(line, c)
                    /\ UNCHANGED img

ImageNext == \/ \E h \in Headers : AddHeader(h)
             \/ \E c \in {" ", "a"} : TypeCharacter(c)

(***************************************************************************)
(* Properties.                                                             *)
(***************************************************************************)
(* For an image that passes every check, no byte is read outside the file  *)
(* or written outside the code pages, although the sum of offset and size  *)
(* in the file check may wrap (userprog64.cpp:186): the checks on the load *)
(* range exclude the sizes that would.                                     *)
AcceptedImageInBounds ==
    Accepted(img) =>
        \A k \in Loaded(img) :
            LET h == img.phdrs[k]
            IN  /\ h.off + h.filesz <= ImgSize
                /\ h.vaddr - FirstVaddr(img) + h.memsz <= CodePages(img) * ImgPage
                /\ SegmentPages(img, h) \subseteq 0 .. CodePages(img) - 1

(* Page k of the slot is page k of the link range: a segment's bytes keep  *)
(* their offset in the page at the link address, as the alias maps whole   *)
(* pages (run_user_program_internal's alignment check).                    *)
AliasKeepsOffsets ==
    Accepted(img) =>
        \A k \in Loaded(img) :
            (img.phdrs[k].vaddr - FirstVaddr(img)) % ImgPage = img.phdrs[k].vaddr % ImgPage

(* The words of a command line, as maximal runs of characters, are the     *)
(* arguments, up to the limit, whatever the spaces around them.            *)
WordsAreArguments ==
    LET Word(a, b) == /\ a <= b /\ \A c \in a .. b : line[c] # " "
                      /\ a = 1 \/ line[a - 1] = " "
                      /\ b = Len(line) \/ line[b + 1] = " "
        words == {w \in (1 .. Len(line)) \X (1 .. Len(line)) : Word(w[1], w[2])}
        argv == ParseLaunchCommand(line)
    IN  /\ Len(argv) = IF Cardinality(words) < ArgMax THEN Cardinality(words) ELSE ArgMax
        /\ \A k \in 1 .. Len(argv) :
             /\ argv[k] \in words
             /\ Cardinality({w \in words : w[1] < argv[k][1]}) = k - 1

(* On the initial stack the strings, the null pointer, the argument        *)
(* pointers and the count do not overlap, and the stack pointer is a       *)
(* multiple of eight.                                                      *)
ArgumentBlockSound ==
    LET argv == ParseLaunchCommand(line)
    IN  /\ RspDepth(argv) % 8 = 0
        /\ PointerDepth(argv) - 8 >= StringDepth(argv, 1)
        /\ \A k \in 1 .. Len(argv) - 1 : StringDepth(argv, k) - StringDepth(argv, k + 1)
                                           = argv[k][2] - argv[k][1] + 2
=============================================================================
