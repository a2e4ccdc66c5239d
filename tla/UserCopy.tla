------------------------------ MODULE UserCopy ------------------------------
(***************************************************************************)
(* Copies between the kernel and a program's memory                        *)
(* (kernel/syscall/user_memory.cpp) while another thread of the program    *)
(* writes the memory and asks for pages to be unmapped.                    *)
(*                                                                         *)
(* A system call makes one request.  Every lease is announced              *)
(* (address_space_user_access_begin), then checked, then used; a mutation  *)
(* of the address space waits until no access is announced (the gate of    *)
(* module AddressSpace).  Addresses are small numbers: pages hold UcPage   *)
(* bytes, addresses from UcLimit up are not canonical, sums wrap at        *)
(* UcWrap.  The header of a versioned structure is its size and version.   *)
(***************************************************************************)
EXTENDS Integers, Sequences, FiniteSets

CONSTANTS UcPage, UcLimit, UcWrap,
          UcRequests,    \* [op, addr, n, m]: see Start
          UcBytes,       \* values of a byte
          UcVersion,     \* expected_version
          UcDest, UcMin, \* destination_size and minimum_size of a structure
          UcSteps,       \* bound on the other thread's steps
          Utf8Lead, Utf8Next, Utf8Max  \* first and later bytes of a text

VARIABLES ucMap,         \* page -> "none", "ro", "rw"
          ucMem,         \* the program's bytes
          uc,            \* the system call under way
          ucOther,       \* steps of the other thread so far
          utf            \* bytes given to user_memory_validate_utf8

ucVars == <<ucMap, ucMem, uc, ucOther, utf>>

UcPages == 0 .. (UcLimit - 1) \div UcPage
NoCall == [op |-> "none", phase |-> "idle", addr |-> 0, n |-> 0, m |-> 0, at |-> 0,
           size |-> 0, dst |-> <<>>, result |-> "none"]

CheckedAdd(a, b) == IF b > UcWrap - 1 - a THEN -1 ELSE a + b
CheckedMultiply(a, b) == IF a # 0 /\ b > (UcWrap - 1) \div a THEN -1 ELSE a * b
Canonical(a) == a < UcLimit

(* The part of user_memory_lease_begin before the access is announced:     *)
(* "go" or the error it returns.                                           *)
LeaseArguments(addr, n) ==
    LET end == CheckedAdd(addr, n - 1)
    IN  CASE n = 0 -> "empty"
          [] n # 0 /\ addr = 0 -> "bad_buffer"
          [] n # 0 /\ addr # 0 /\ end = -1 -> "overflow"
          [] n # 0 /\ addr # 0 /\ end # -1 /\ (~Canonical(addr) \/ ~Canonical(end)) -> "bad_buffer"
          [] OTHER -> "go"

LeasePages(c) == (c.at \div UcPage) .. ((c.at + c.size - 1) \div UcPage)

Accessible(c) ==
    \A g \in LeasePages(c) : ucMap[g] \in (IF c.op = "out" THEN {"rw"} ELSE {"ro", "rw"})

Finish(c, r) == [c EXCEPT !.phase = "done", !.result = r, !.size = 0]

(* Ask for a lease on n bytes from addr.                                   *)
LeaseFor(c, addr, n) ==
    LET a == LeaseArguments(addr, n)
    IN  CASE a = "go" -> [c EXCEPT !.phase = "announce", !.at = addr, !.size = n]
          [] a = "empty" -> Finish(c, IF c.op \in {"in", "out", "array"} THEN "ok" ELSE "invalid")
          [] OTHER -> Finish(c, a)

(* user_memory_copy_cstring: the next chunk, which ends with its page or   *)
(* with the capacity n.                                                    *)
NextChunk(c) ==
    LET copied == Len(c.dst)
        addr == CheckedAdd(c.addr, copied)
        left == c.n - copied
        toEnd == UcPage - (addr % UcPage)
    IN  IF copied >= c.n THEN Finish(c, "too_small")
        ELSE IF addr = -1 THEN Finish(c, "overflow")
        ELSE LeaseFor(c, addr, IF toEnd > left THEN left ELSE toEnd)

(* The requests: n bytes in or out, an array of n elements of m bytes, a   *)
(* string of capacity n, a structure (its header first).                   *)
Start(q) ==
    LET c == [NoCall EXCEPT !.op = q.op, !.addr = q.addr, !.n = q.n, !.m = q.m]
        bytes == CheckedMultiply(q.n, q.m)
    IN  /\ uc.phase = "idle"
        /\ uc' = CASE q.op \in {"in", "out"} -> LeaseFor(c, q.addr, q.n)
                   [] q.op = "array" ->
                        IF bytes = -1 THEN Finish(c, "overflow") ELSE LeaseFor(c, q.addr, bytes)
                   [] q.op = "string" -> IF q.n < 2 THEN Finish(c, "invalid") ELSE NextChunk(c)
                   [] q.op = "struct" -> LeaseFor(c, q.addr, 2)
        /\ UNCHANGED <<ucMap, ucMem, ucOther, utf>>

(* address_space_user_access_begin.                                        *)
Announce ==
    /\ uc.phase = "announce"
    /\ uc' = [uc EXCEPT !.phase = "check"]
    /\ UNCHANGED <<ucMap, ucMem, ucOther, utf>>

(* address_space_buffer_accessible; a refusal ends the access.             *)
CheckBuffer ==
    /\ uc.phase = "check"
    /\ uc' = IF Accessible(uc) THEN [uc EXCEPT !.phase = "copy"] ELSE Finish(uc, "bad_buffer")
    /\ UNCHANGED <<ucMap, ucMem, ucOther, utf>>

Leased(c) == [i \in 1 .. c.size |-> ucMem[c.at + i - 1]]

(* The string copy stops at the terminator inside a chunk.                 *)
CopyChunk(c) ==
    LET bytes == Leased(c)
        zeros == {i \in 1 .. c.size : bytes[i] = 0}
        first == CHOOSE i \in zeros : \A j \in zeros : i <= j
    IN  IF zeros # {} THEN Finish([c EXCEPT !.dst = @ \o SubSeq(bytes, 1, first)], "ok")
        ELSE NextChunk([c EXCEPT !.dst = @ \o bytes])

Pad(bytes) == [i \in 1 .. UcDest |-> IF i <= Len(bytes) THEN bytes[i] ELSE 0]

(* user_memory_copy_versioned_struct_in: the header decides the size of    *)
(* the second copy (kept in m), whose own header must say the same.        *)
CopyStruct(c) ==
    LET bytes == Leased(c)
    IN  IF c.m = 0
        THEN IF bytes[1] \in UcMin .. UcDest /\ bytes[2] = UcVersion
             THEN LeaseFor([c EXCEPT !.m = bytes[1]], c.addr, bytes[1])
             ELSE Finish(c, "invalid")
        ELSE IF bytes[1] = c.m /\ bytes[2] = UcVersion
             THEN Finish([c EXCEPT !.dst = Pad(bytes)], "ok")
             ELSE Finish(c, "invalid")

(* The copy itself and user_memory_lease_end.                              *)
Copy ==
    /\ uc.phase = "copy"
    /\ uc' = CASE uc.op \in {"in", "array"} -> Finish([uc EXCEPT !.dst = Leased(uc)], "ok")
               [] uc.op = "out" -> Finish(uc, "ok")
               [] uc.op = "string" -> CopyChunk(uc)
               [] uc.op = "struct" -> CopyStruct(uc)
    /\ ucMem' = IF uc.op = "out"
                THEN [a \in DOMAIN ucMem |-> IF a \in uc.at .. uc.at + uc.size - 1 THEN 1 ELSE ucMem[a]]
                ELSE ucMem
    /\ UNCHANGED <<ucMap, ucOther, utf>>

Return ==
    /\ uc.phase = "done"
    /\ uc' = NoCall
    /\ UNCHANGED <<ucMap, ucMem, ucOther, utf>>

(* The other thread.                                                       *)
OtherStep == ucOther < UcSteps /\ ucOther' = ucOther + 1

OtherWrites(a, b) ==
    /\ OtherStep /\ ucMap[a \div UcPage] = "rw" /\ ucMem[a] # b
    /\ ucMem' = [ucMem EXCEPT ![a] = b]
    /\ UNCHANGED <<ucMap, uc, utf>>

OtherRemapsUngated(g, to) ==
    /\ OtherStep /\ ucMap[g] # to
    /\ ucMap' = [ucMap EXCEPT ![g] = to]
    /\ UNCHANGED <<ucMem, uc, utf>>

(* address_space_mutation_begin waits until no access is announced.        *)
OtherRemaps(g, to) ==
    /\ OtherStep /\ uc.phase \notin {"check", "copy"} /\ ucMap[g] # to
    /\ ucMap' = [ucMap EXCEPT ![g] = to]
    /\ UNCHANGED <<ucMem, uc, utf>>

(***************************************************************************)
(* user_memory_validate_utf8: from position i on, what remains is valid.   *)
(***************************************************************************)
Continues(b) == b \in 128 .. 191

Utf8Count(b) == CASE b \in 194 .. 223 -> 1 [] b \in 224 .. 239 -> 2 [] b \in 240 .. 244 -> 3
                  [] OTHER -> -1

RECURSIVE CodePoint(_, _, _)
CodePoint(s, i, n) ==
    IF n = 0 THEN s[i] % (CASE Utf8Count(s[i]) = 1 -> 32 [] Utf8Count(s[i]) = 2 -> 16 [] OTHER -> 8)
    ELSE CodePoint(s, i, n - 1) * 64 + (s[i + n] % 64)

PointAllowed(n, c) ==
    /\ ~(n = 2 /\ c < 2048) /\ ~(n = 3 /\ c < 65536)
    /\ c <= 1114111 /\ c \notin 55296 .. 57343

RECURSIVE ValidateFrom(_, _)
ValidateFrom(s, i) ==
    IF i > Len(s) THEN TRUE
    ELSE IF s[i] < 128 THEN ValidateFrom(s, i + 1)
    ELSE LET n == Utf8Count(s[i])
         IN  /\ n # -1 /\ n <= Len(s) - i
             /\ \A k \in 1 .. n : Continues(s[i + k])
             /\ PointAllowed(n, CodePoint(s, i, n))
             /\ ValidateFrom(s, i + n + 1)

ValidateUtf8(s) == ValidateFrom(s, 1)

AddByte(b) ==
    /\ uc.phase = "idle" /\ ucOther = 0 /\ Len(utf) < Utf8Max
    /\ \A g \in UcPages : ucMap[g] = "none"
    /\ utf' = Append(utf, b)
    /\ UNCHANGED <<ucMap, ucMem, uc, ucOther>>

CopyStart ==
    /\ \E m \in {"none", "rw"} : ucMap = [g \in UcPages |-> IF g = 0 THEN "none" ELSE m]
    /\ ucMem = [a \in 0 .. UcLimit - 1 |-> IF a % UcPage = 0 THEN UcMin + 1 ELSE UcVersion]
    /\ uc = NoCall /\ ucOther = 0 /\ utf = <<>>

CopyNext ==
    \/ \E q \in UcRequests : utf = <<>> /\ Start(q)
    \/ Announce \/ CheckBuffer \/ Copy \/ Return
    \/ utf = <<>> /\ \E a \in 0 .. UcLimit - 1, b \in UcBytes : OtherWrites(a, b)
    \/ utf = <<>> /\ \E g \in UcPages \ {0}, to \in {"none", "ro"} : OtherRemaps(g, to)
    \/ \E b \in (IF utf = <<>> THEN Utf8Lead ELSE Utf8Next) : AddByte(b)

(***************************************************************************)
(* Properties.                                                             *)
(***************************************************************************)
(* While bytes are copied, every page of the lease is mapped with the      *)
(* rights it was checked for, below the canonical limit, whatever the      *)
(* other thread asked for since (the access is announced before the check, *)
(* user_memory.cpp:104-108).                                               *)
CopyStaysInside ==
    uc.phase = "copy" => /\ uc.at + uc.size <= UcLimit
                         /\ Accessible(uc)

(* A structure that is handed on is one the kernel has seen whole: its     *)
(* size and version are the ones that were checked, even if the program    *)
(* changed them between the two copies, and the rest of the destination is *)
(* zero.                                                                   *)
StructSnapshotConsistent ==
    (uc.op = "struct" /\ uc.result = "ok") =>
        /\ uc.dst[1] = uc.m /\ uc.dst[1] \in UcMin .. UcDest /\ uc.dst[2] = UcVersion
        /\ \A i \in uc.m + 1 .. UcDest : uc.dst[i] = 0

(* A string is handed on only with its terminator, inside the capacity;    *)
(* it is refused as too long only when no terminator was within it.        *)
StringTerminated ==
    uc.op = "string" =>
        /\ uc.result = "ok" => /\ Len(uc.dst) \in 1 .. uc.n
                               /\ \A i \in 1 .. Len(uc.dst) : uc.dst[i] = 0 <=> i = Len(uc.dst)
        /\ uc.result = "too_small" => Len(uc.dst) = uc.n /\ \A i \in 1 .. uc.n : uc.dst[i] # 0

(* An array copy that succeeds moved exactly count times size bytes.       *)
ArrayWhole == (uc.op = "array" /\ uc.result = "ok") => Len(uc.dst) = uc.n * uc.m

(* The accepted byte strings are the well formed ones, by the table of     *)
(* byte ranges in the Unicode standard.                                    *)
RECURSIVE WellFormed(_)
WellFormed(s) ==
    LET In(k, lo, hi) == s[k] \in lo .. hi
        Trail(k) == In(k, 128, 191)
        Rest(n) == WellFormed(SubSeq(s, n + 1, Len(s)))
        Three == \/ s[1] = 224 /\ In(2, 160, 191)
                 \/ s[1] \in (225 .. 239) \ {237} /\ Trail(2)
                 \/ s[1] = 237 /\ In(2, 128, 159)
        Four == \/ s[1] = 240 /\ In(2, 144, 191)
                \/ In(1, 241, 243) /\ Trail(2)
                \/ s[1] = 244 /\ In(2, 128, 143)
    IN  \/ s = <<>>
        \/ Len(s) >= 1 /\ s[1] < 128 /\ Rest(1)
        \/ Len(s) >= 2 /\ In(1, 194, 223) /\ Trail(2) /\ Rest(2)
        \/ Len(s) >= 3 /\ Three /\ Trail(3) /\ Rest(3)
        \/ Len(s) >= 4 /\ Four /\ Trail(3) /\ Trail(4) /\ Rest(4)

Utf8Exact == ValidateUtf8(utf) <=> WellFormed(utf)
=============================================================================
