-------------------------- MODULE PatchedCall_proofs --------------------------
(***************************************************************************)
(* Proofs about mapping, patching and calling: for every binary and object *)
(* file (BinaryFiles, ObjectFiles), every place for the new segment and    *)
(* every address the system loads the result at, and every set of          *)
(* registers (CallConstants).                                              *)
(***************************************************************************)
EXTENDS PatchedCall, TLAPS

-----------------------------------------------------------------------------
\* Arithmetic

LEMMA MultipleOf ==
    ASSUME NEW a \in Nat \ {0}, NEW q \in Int
    PROVE  (a * q) % a = 0
  OBVIOUS

LEMMA Quotient ==
    ASSUME NEW a \in Nat \ {0}, NEW x \in Int, x % a = 0
    PROVE  \E q \in Int : x = a * q
  <1>1. x \div a \in Int /\ x = (a * (x \div a)) + (x % a)
    OBVIOUS
  <1>2. x = a * (x \div a)
    BY <1>1
  <1> DEFINE q == x \div a
  <1>3. q \in Int /\ x = a * q
    BY <1>1, <1>2
  <1> HIDE DEF q
  <1> QED BY <1>3

LEMMA SumOfMultiples ==
    ASSUME NEW a \in Nat \ {0}, NEW x \in Int, NEW y \in Int, x % a = 0, y % a = 0
    PROVE  (x + y) % a = 0 /\ (x - y) % a = 0
  <1>1. PICK p \in Int : x = a * p
    BY Quotient
  <1>2. PICK q \in Int : y = a * q
    BY Quotient
  <1>3. x + y = a * (p + q) /\ x - y = a * (p - q)
    BY <1>1, <1>2
  <1>4. (a * (p + q)) % a = 0 /\ (a * (p - q)) % a = 0
    BY MultipleOf
  <1> QED BY <1>3, <1>4

LEMMA Divides ==
    ASSUME NEW a \in Nat \ {0}, NEW s \in Nat \ {0}, NEW x \in Int, s % a = 0, x % s = 0
    PROVE  x % a = 0
  <1>1. PICK p \in Int : s = a * p
    BY Quotient
  <1>2. PICK q \in Int : x = s * q
    BY Quotient
  <1>3. x = a * (p * q) /\ p * q \in Int
    BY <1>1, <1>2
  <1> QED BY <1>3, MultipleOf

\* append_section's padding reaches the next multiple of the alignment
LEMMA Padding ==
    ASSUME NEW size \in Nat, NEW alignment \in Nat
    PROVE  /\ Aligned(size, alignment) \in Nat
           /\ Aligned(size, alignment) >= size
           /\ alignment > 0 => Aligned(size, alignment) % alignment = 0
  <1> DEFINE a == Max({alignment, 1})
  <1>1. a \in Nat /\ a >= 1 /\ (alignment > 0 => a = alignment)
    BY DEF Max
  <1>2. Aligned(size, alignment) = size + ((a - (size % a)) % a)
    BY DEF Aligned
  <1> HIDE DEF a
  <1>3. ASSUME NEW b \in Nat \ {0}
        PROVE  /\ size + ((b - (size % b)) % b) \in Nat
               /\ size + ((b - (size % b)) % b) >= size
               /\ (size + ((b - (size % b)) % b)) % b = 0
    OBVIOUS
  <1> QED BY <1>1, <1>2, <1>3

\* the cast to int32_t loses nothing of what fits
LEMMA CastExact ==
    ASSUME NEW x \in -Half .. Half - 1
    PROVE  Int32(x) = x /\ Int32(Uint32(x)) = x
  <1>1. Half \in Nat \ {0}
    BY PatcherConstants
  <1>2. Int32(x) = x
    BY <1>1 DEF Int32
  <1>3. CASE x >= 0
    BY <1>1, <1>2, <1>3 DEF Uint32
  <1>4. CASE x < 0
    <2>1. Uint32(x) = x + 2 * Half
      BY <1>1, <1>4 DEF Uint32
    <2>2. ((x + 2 * Half) + Half) % (2 * Half) = x + Half
      <3> DEFINE m == 2 * Half
      <3>1. m \in Nat \ {0} /\ x + Half \in 0 .. m - 1 /\ (x + m) + Half = (x + Half) + m
        BY <1>1, <1>4
      <3> HIDE DEF m
      <3>2. ASSUME NEW y \in 0 .. m - 1 PROVE (y + m) % m = y
        BY <3>1
      <3> QED BY <3>1, <3>2 DEF m
    <2> QED BY <1>1, <1>2, <2>1, <2>2 DEF Int32
  <1> QED BY <1>3, <1>4

LEMMA UncastExact ==
    ASSUME NEW x \in 0 .. 2 * Half - 1
    PROVE  Uint32(x) = x
  BY PatcherConstants DEF Uint32

-----------------------------------------------------------------------------
\* The invariants of patching

\* the phases in which the binary is patched, and those in which it runs
Running == {"loaded", "wrapper", "lifted", "returned"}
Patched == {"patched"} \cup Running
Phases == {"map", "layout", "add", "relocate", "thrown"} \cup Patched

FilesInv ==
    /\ binary \in Binaries
    /\ object \in Objects
    /\ phase \in Phases
    /\ next \in Nat
    /\ segment \in Nat
    /\ load_base \in Nat
    /\ phase \notin {"map", "thrown"} => object.text # 0
    /\ phase \in {"add", "relocate"} \cup Patched =>
          /\ "vexa_entry" \in DOMAIN object.symbols
          /\ object.text \in DOMAIN section_offsets
    /\ phase \in {"relocate"} \cup Patched => segment % Shift = 0
    /\ phase \in Running =>
          /\ load_base % Shift = 0
          /\ binary.format = "exec" => load_base = binary.base

\* the end of a section in code_content
EndOf(s) == section_offsets[s] + object.sections[s].size

\* sections lie behind each other, aligned
Laid ==
    /\ code_size \in Nat
    /\ DOMAIN section_offsets \subseteq DOMAIN object.sections
    /\ \A s \in DOMAIN section_offsets :
          /\ section_offsets[s] \in Nat
          /\ object.sections[s].align > 0 => section_offsets[s] % object.sections[s].align = 0
          /\ EndOf(s) <= code_size
          /\ \A t \in DOMAIN section_offsets :
                s # t => EndOf(s) <= section_offsets[t] \/ EndOf(t) <= section_offsets[s]

LayoutInv ==
    /\ Laid
    /\ phase = "map" => DOMAIN section_offsets = {}
    /\ phase = "layout" =>
          /\ next = 0 => DOMAIN section_offsets = {}
          /\ next > 0 => object.text \in DOMAIN section_offsets
          /\ \A s \in DOMAIN section_offsets : s # object.text => s < next

\* what relocation k left behind
RelocatedAt(k) ==
    LET r == object.relocs[k]
    IN /\ r.type \in RelativeTypes \cup AbsoluteTypes
       /\ PatchOffset(r) \in DOMAIN fields
       /\ fields[PatchOffset(r)] = [type |-> r.type, value |-> Relocated(r)]

RelocInv ==
    /\ phase \in {"relocate"} \cup Patched =>
          \A k \in DOMAIN object.relocs :
              k < next /\ Applies(object.relocs[k]) => RelocatedAt(k)
    /\ phase \in Patched => next > Len(object.relocs)
    /\ phase \in {"relocate"} \cup Patched => next > 0
    /\ phase = "add" => next = 1

JumpInv ==
    phase \in Patched =>
        /\ object.symbols["vexa_entry"].section \in DOMAIN section_offsets
        /\ jump = [at |-> va, rel |-> Int32(new_func_va - (va + JumpSize))]

PatchInv == FilesInv /\ LayoutInv /\ RelocInv /\ JumpInv

-----------------------------------------------------------------------------
\* The constants' types

LEMMA Sections ==
    ASSUME object \in Objects, NEW s \in DOMAIN object.sections
    PROVE  /\ object.sections[s].align \in Nat
           /\ object.sections[s].size \in Nat
           /\ object.sections[s].align > 0 => Shift % object.sections[s].align = 0
           /\ s \in Nat \ {0} /\ s <= Len(object.sections)
  <1>1. object.sections \in Seq(Section)
    BY ObjectFiles
  <1>2. object.sections[s] \in Section /\ s \in 1 .. Len(object.sections)
    BY <1>1
  <1> QED BY <1>2, ObjectFiles DEF Section

LEMMA TextSection ==
    ASSUME object \in Objects, object.text # 0
    PROVE  object.text \in DOMAIN object.sections
  <1>1. object.sections \in Seq(Section) /\ object.text \in 0 .. Len(object.sections)
    BY ObjectFiles
  <1> QED BY <1>1

LEMMA Relocs ==
    ASSUME object \in Objects, NEW k \in DOMAIN object.relocs
    PROVE  /\ object.relocs[k] \in Relocation
           /\ k \in Nat \ {0} /\ k <= Len(object.relocs)
  <1>1. object.relocs \in Seq(Relocation)
    BY ObjectFiles
  <1> QED BY <1>1

-----------------------------------------------------------------------------
LEMMA PatchInit == CInit => PatchInv
  <1> SUFFICES ASSUME CInit PROVE PatchInv
    OBVIOUS
  <1> USE DEF CInit, Init
  <1>1. FilesInv
    BY DEF FilesInv, Phases, Patched, Running
  <1>2. LayoutInv
    BY DEF LayoutInv, Laid
  <1>3. RelocInv /\ JumpInv
    BY DEF RelocInv, JumpInv, Patched, Running
  <1> QED BY <1>1, <1>2, <1>3 DEF PatchInv

\* append_section puts a section behind all others
LEMMA Appended ==
    ASSUME FilesInv, Laid, NEW k \in DOMAIN object.sections, k \notin DOMAIN section_offsets,
           Append_section(k), object' = object
    PROVE  Laid' /\ DOMAIN section_offsets' = DOMAIN section_offsets \cup {k}
  <1> DEFINE start == Aligned(code_size, object.sections[k].align)
  <1>1. object \in Objects /\ code_size \in Nat
    BY DEF FilesInv, Laid
  <1>2. /\ start \in Nat
        /\ start >= code_size
        /\ object.sections[k].align > 0 => start % object.sections[k].align = 0
    BY <1>1, Sections, Padding
  <1>3. /\ section_offsets' = Emplace(section_offsets, k, start)
        /\ code_size' = start + object.sections[k].size
    BY DEF Append_section
  <1> HIDE DEF start
  <1>4. /\ DOMAIN section_offsets' = DOMAIN section_offsets \cup {k}
        /\ section_offsets'[k] = start
        /\ \A s \in DOMAIN section_offsets : section_offsets'[s] = section_offsets[s]
    BY <1>3 DEF Emplace
  <1>5. \A s \in DOMAIN object.sections : object.sections[s].size \in Nat
    BY <1>1, Sections
  <1>6. code_size' \in Nat /\ code_size <= code_size' /\ EndOf(k)' = code_size'
    BY <1>1, <1>2, <1>3, <1>4, <1>5 DEF EndOf
  <1>7. \A s \in DOMAIN section_offsets :
            /\ EndOf(s)' = EndOf(s)
            /\ EndOf(s) <= start
            /\ EndOf(s) <= code_size'
    <2> SUFFICES ASSUME NEW s \in DOMAIN section_offsets
                 PROVE  EndOf(s)' = EndOf(s) /\ EndOf(s) <= start /\ EndOf(s) <= code_size'
      OBVIOUS
    <2>1. EndOf(s)' = EndOf(s)
      BY <1>4 DEF EndOf
    <2>2. EndOf(s) <= code_size /\ EndOf(s) \in Nat
      BY <1>5 DEF Laid, EndOf
    <2> QED BY <1>1, <1>2, <1>6, <2>1, <2>2
  <1>8. \A s \in DOMAIN section_offsets' :
            /\ section_offsets'[s] \in Nat
            /\ object.sections[s].align > 0 => section_offsets'[s] % object.sections[s].align = 0
            /\ EndOf(s)' <= code_size'
    BY <1>2, <1>4, <1>6, <1>7 DEF Laid
  <1>9. ASSUME NEW s \in DOMAIN section_offsets', NEW t \in DOMAIN section_offsets', s # t
        PROVE  EndOf(s)' <= section_offsets'[t] \/ EndOf(t)' <= section_offsets'[s]
    <2>1. CASE s = k
      BY <1>4, <1>7, <1>9, <2>1
    <2>2. CASE t = k
      BY <1>4, <1>7, <1>9, <2>2
    <2>3. CASE s # k /\ t # k
      BY <1>4, <1>7, <1>9, <2>3 DEF Laid
    <2> QED BY <2>1, <2>2, <2>3
  <1>10. DOMAIN section_offsets' \subseteq DOMAIN object.sections
    BY <1>4 DEF Laid
  <1>11. Laid'
    BY <1>6, <1>8, <1>9, <1>10 DEF Laid, EndOf
  <1> QED BY <1>4, <1>11

LEMMA LayoutKept ==
    ASSUME LayoutInv, UNCHANGED <<object, section_offsets, code_size>>,
           phase' # "map", phase' # "layout"
    PROVE  LayoutInv'
  BY DEF LayoutInv, Laid, EndOf

LEMMA LayoutStep == PatchInv /\ PatchStep => LayoutInv'
  <1> SUFFICES ASSUME PatchInv, PatchStep PROVE LayoutInv'
    OBVIOUS
  <1>0. FilesInv /\ LayoutInv /\ object \in Objects
    BY DEF PatchInv, FilesInv
  <1>1. CASE MapPart
    BY <1>0, <1>1 DEF MapPart, LayoutInv, Laid, EndOf
  <1>2. CASE MappingDone
    BY <1>0, <1>2 DEF MappingDone, LayoutInv, Laid, EndOf
  <1>3. CASE AppendText
    <2>1. object.text \in DOMAIN object.sections /\ DOMAIN section_offsets = {}
      BY <1>0, <1>3, TextSection DEF AppendText, FilesInv, LayoutInv
    <2>2. Laid' /\ DOMAIN section_offsets' = {object.text}
      BY <1>0, <1>3, <2>1, Appended DEF AppendText, LayoutInv
    <2> QED BY <1>3, <2>2 DEF AppendText, LayoutInv
  <1>4. CASE AppendSection
    <2>1. next \in Nat \ {0} /\ object.text \in DOMAIN section_offsets /\ object' = object
      BY <1>0, <1>4, Sections DEF AppendSection, FilesInv, LayoutInv
    <2>2. CASE next # object.text /\ object.sections[next].alloc
      <3>1. next \notin DOMAIN section_offsets
        BY <1>0, <1>4, <2>1, <2>2 DEF AppendSection, LayoutInv
      <3>2. Laid' /\ DOMAIN section_offsets' = DOMAIN section_offsets \cup {next}
        BY <1>0, <1>4, <2>1, <2>2, <3>1, Appended DEF AppendSection, LayoutInv
      <3>3. \A s \in DOMAIN section_offsets' : s # object.text => s < next + 1
        <4>1. \A s \in DOMAIN section_offsets : s # object.text => s < next /\ s \in Nat
          BY <1>0, <1>4, Sections DEF AppendSection, LayoutInv, Laid
        <4> QED BY <2>1, <3>2, <4>1
      <3> QED BY <1>4, <2>1, <3>2, <3>3 DEF AppendSection, LayoutInv
    <2>3. CASE ~(next # object.text /\ object.sections[next].alloc)
      <3>1. UNCHANGED <<section_offsets, code_size, object, phase>> /\ next' = next + 1
        BY <1>4, <2>3 DEF AppendSection
      <3>2. Laid'
        BY <1>0, <3>1 DEF Laid, LayoutInv, EndOf
      <3>3. \A s \in DOMAIN section_offsets : s # object.text => s < next + 1
        <4>1. \A s \in DOMAIN section_offsets : s # object.text => s < next /\ s \in Nat
          BY <1>0, <1>4, Sections DEF AppendSection, LayoutInv, Laid
        <4> QED BY <2>1, <4>1
      <3> QED BY <1>4, <2>1, <3>1, <3>2, <3>3 DEF AppendSection, LayoutInv
    <2> QED BY <2>2, <2>3
  <1>5. CASE LayoutDone
    BY <1>0, <1>5, LayoutKept DEF LayoutDone
  <1>6. CASE AddSegment
    BY <1>0, <1>6, LayoutKept DEF AddSegment
  <1>7. CASE FixRelocation
    BY <1>0, <1>7, LayoutKept DEF FixRelocation
  <1>8. CASE WriteJump
    BY <1>0, <1>8, LayoutKept DEF WriteJump
  <1>9. CASE EntryUndefined
    BY <1>0, <1>9, LayoutKept DEF EntryUndefined
  <1>10. CASE \E base \in LoadBases \cup {binary.base} : Load(base)
    BY <1>0, <1>10, LayoutKept DEF Load
  <1> QED BY <1>1, <1>2, <1>3, <1>4, <1>5, <1>6, <1>7, <1>8, <1>9, <1>10 DEF PatchStep

LEMMA FilesStep == PatchInv /\ PatchStep => FilesInv'
  <1> SUFFICES ASSUME PatchInv, PatchStep PROVE FilesInv'
    OBVIOUS
  <1> USE DEF Phases, Patched, Running
  <1>0. FilesInv /\ LayoutInv /\ object \in Objects /\ binary \in Binaries /\ next \in Nat
    BY DEF PatchInv, FilesInv
  <1>1. CASE MapPart
    BY <1>0, <1>1 DEF MapPart, FilesInv
  <1>2. CASE MappingDone
    BY <1>0, <1>2 DEF MappingDone, FilesInv
  <1>3. CASE AppendText
    BY <1>0, <1>3 DEF AppendText, FilesInv
  <1>4. CASE AppendSection
    BY <1>0, <1>4 DEF AppendSection, FilesInv
  <1>5. CASE LayoutDone
    <2>1. object.sections \in Seq(Section)
      BY <1>0, ObjectFiles
    <2>2. next > 0
      BY <1>0, <1>5, <2>1 DEF LayoutDone
    <2>3. object.text \in DOMAIN section_offsets
      BY <1>0, <1>5, <2>2 DEF LayoutDone, LayoutInv
    <2> QED BY <1>0, <1>5, <2>3 DEF LayoutDone, FilesInv
  <1>6. CASE AddSegment
    <2>1. PICK hole \in binary.holes : segment' = IF binary.format = "pe" THEN binary.base + hole ELSE hole
      BY <1>6 DEF AddSegment
    <2>2. /\ hole \in Nat /\ hole % Shift = 0
          /\ binary.base \in Nat /\ binary.base % Shift = 0
          /\ Shift \in Nat \ {0}
      BY <1>0, BinaryFiles, PatcherConstants
    <2>3. (binary.base + hole) % Shift = 0
      BY <2>2, SumOfMultiples
    <2>4. segment' \in Nat /\ segment' % Shift = 0
      BY <2>1, <2>2, <2>3
    <2> QED BY <1>0, <1>6, <2>4 DEF AddSegment, FilesInv
  <1>7. CASE FixRelocation
    BY <1>0, <1>7 DEF FixRelocation, FilesInv
  <1>8. CASE WriteJump
    BY <1>0, <1>8 DEF WriteJump, FilesInv
  <1>9. CASE EntryUndefined
    BY <1>0, <1>9 DEF EntryUndefined, FilesInv
  <1>10. CASE \E base \in LoadBases \cup {binary.base} : Load(base)
    <2>1. PICK base \in LoadBases \cup {binary.base} : Load(base)
      BY <1>10
    <2>2. base \in Nat /\ base % Shift = 0
      BY <1>0, BinaryFiles, PatcherConstants
    <2> QED BY <1>0, <2>1, <2>2 DEF Load, FilesInv
  <1> QED BY <1>1, <1>2, <1>3, <1>4, <1>5, <1>6, <1>7, <1>8, <1>9, <1>10 DEF PatchStep

\* addresses do not change while the files, the layout and the segment stay
LEMMA AddressesKept ==
    ASSUME UNCHANGED <<binary, object, section_offsets, segment>>, NEW CONSTANT r
    PROVE  /\ Applies(r)' <=> Applies(r)
           /\ PatchOffset(r)' = PatchOffset(r)
           /\ symbol_va(r.symbol)' = symbol_va(r.symbol)
           /\ Relocated(r)' = Relocated(r)
           /\ new_func_va' = new_func_va
           /\ va' = va
  <1>1. (Applies(r)' <=> Applies(r)) /\ PatchOffset(r)' = PatchOffset(r)
    BY DEF Applies, PatchOffset
  <1>2. symbol_va(r.symbol)' = symbol_va(r.symbol)
    BY DEF symbol_va, image_base, shift_offset
  <1>3. Relocated(r)' = Relocated(r)
    BY <1>1, <1>2 DEF Relocated, Uint32, Int32
  <1>4. new_func_va' = new_func_va /\ va' = va
    BY DEF new_func_va, va, shift_offset
  <1> QED BY <1>1, <1>2, <1>3, <1>4

\* relocations that are applied fill different fields: in one section by
\* ObjectFiles, in two sections because these are kept apart
LEMMA OwnFields ==
    ASSUME object \in Objects, Laid,
           NEW j \in DOMAIN object.relocs, NEW k \in DOMAIN object.relocs, j # k,
           Applies(object.relocs[j]), Applies(object.relocs[k])
    PROVE  PatchOffset(object.relocs[j]) # PatchOffset(object.relocs[k])
  <1> DEFINE r == object.relocs[j]
             q == object.relocs[k]
  <1>1. r \in Relocation /\ q \in Relocation
    BY Relocs
  <1>2. /\ r.section \in DOMAIN section_offsets /\ q.section \in DOMAIN section_offsets
        /\ r.section \in DOMAIN object.sections /\ q.section \in DOMAIN object.sections
    BY DEF Applies, Laid
  <1>3. /\ r.at < object.sections[r.section].size
        /\ q.at < object.sections[q.section].size
        /\ r.section # q.section \/ r.at # q.at
    BY <1>2, ObjectFiles
  <1>4. r.at \in Nat /\ q.at \in Nat
    BY <1>1 DEF Relocation
  <1>5. /\ section_offsets[r.section] \in Nat /\ section_offsets[q.section] \in Nat
        /\ object.sections[r.section].size \in Nat /\ object.sections[q.section].size \in Nat
    BY <1>2, Sections DEF Laid
  <1>6. r.section # q.section =>
            \/ section_offsets[r.section] + object.sections[r.section].size <= section_offsets[q.section]
            \/ section_offsets[q.section] + object.sections[q.section].size <= section_offsets[r.section]
    BY <1>2 DEF Laid, EndOf
  <1>7. PatchOffset(r) = section_offsets[r.section] + r.at /\ PatchOffset(q) = section_offsets[q.section] + q.at
    BY DEF PatchOffset
  <1> HIDE DEF r, q
  <1>8. PatchOffset(r) # PatchOffset(q)
    <2>1. CASE r.section = q.section
      BY <1>3, <1>4, <1>5, <1>7, <2>1
    <2>2. CASE r.section # q.section
      BY <1>3, <1>4, <1>5, <1>6, <1>7, <2>2
    <2> QED BY <2>1, <2>2
  <1> QED BY <1>8 DEF r, q

LEMMA FixStep ==
    ASSUME PatchInv, FixRelocation, phase' # "thrown",
           NEW k \in DOMAIN object.relocs, k <= next, Applies(object.relocs[k])
    PROVE  RelocatedAt(k)'
  <1> DEFINE r == object.relocs[next]
             q == object.relocs[k]
  <1>1. /\ object \in Objects /\ Laid /\ next \in Nat /\ next > 0
        /\ phase = "relocate" /\ next <= Len(object.relocs)
        /\ UNCHANGED <<binary, object, section_offsets, segment>>
    BY DEF PatchInv, FilesInv, LayoutInv, RelocInv, FixRelocation
  <1>2. next \in DOMAIN object.relocs
    <2>1. object.relocs \in Seq(Relocation)
      BY <1>1, ObjectFiles
    <2> QED BY <1>1, <2>1
  <1>3. k \in Nat
    BY <1>1, Relocs
  <1>4. /\ Applies(r) => /\ r.type \in RelativeTypes \cup AbsoluteTypes
                         /\ fields' = [off \in DOMAIN fields \cup {PatchOffset(r)} |->
                              IF off = PatchOffset(r) THEN [type |-> r.type, value |-> Relocated(r)]
                              ELSE fields[off]]
        /\ ~Applies(r) => fields' = fields
    BY <1>1 DEF FixRelocation
  <1>5. PatchOffset(q)' = PatchOffset(q) /\ Relocated(q)' = Relocated(q)
    BY <1>1, AddressesKept
  <1>6. /\ q.type \in RelativeTypes \cup AbsoluteTypes
        /\ PatchOffset(q) \in DOMAIN fields'
        /\ fields'[PatchOffset(q)] = [type |-> q.type, value |-> Relocated(q)]
    <2>1. CASE k = next
      BY <1>4, <2>1
    <2>2. CASE k # next
      <3>1. RelocatedAt(k)
        BY <1>1, <1>3, <2>2 DEF PatchInv, RelocInv
      <3>2. CASE Applies(r)
        <4>1. PatchOffset(q) # PatchOffset(r)
          BY <1>1, <1>2, <2>2, <3>2, OwnFields
        <4> QED BY <1>4, <3>1, <3>2, <4>1 DEF RelocatedAt
      <3>3. CASE ~Applies(r)
        BY <1>4, <3>1, <3>3 DEF RelocatedAt
      <3> QED BY <3>2, <3>3
    <2> QED BY <2>1, <2>2
  <1> QED BY <1>1, <1>5, <1>6 DEF RelocatedAt, RelativeTypes, AbsoluteTypes

LEMMA RelocKept ==
    ASSUME RelocInv, UNCHANGED <<binary, object, section_offsets, segment, fields, next>>,
           phase \in {"relocate"} \cup Patched, phase' # "add",
           phase' \in Patched => phase \in Patched \/ next > Len(object.relocs)
    PROVE  RelocInv'
  <1>1. \A k \in DOMAIN object.relocs : k < next /\ Applies(object.relocs[k]) => RelocatedAt(k)
    BY DEF RelocInv
  <1>2. ASSUME NEW k \in DOMAIN object.relocs, k < next, Applies(object.relocs[k])'
        PROVE  RelocatedAt(k)'
    <2>1. Applies(object.relocs[k])
      BY <1>2 DEF Applies
    <2>2. RelocatedAt(k)
      BY <1>1, <1>2, <2>1
    <2> DEFINE r == object.relocs[k]
    <2>3. PatchOffset(r)' = PatchOffset(r) /\ Relocated(r)' = Relocated(r)
      BY AddressesKept
    <2> QED BY <2>2, <2>3 DEF RelocatedAt, RelativeTypes, AbsoluteTypes
  <1> QED BY <1>2 DEF RelocInv, Patched, Running

LEMMA RelocStep == PatchInv /\ PatchStep => RelocInv'
  <1> SUFFICES ASSUME PatchInv, PatchStep PROVE RelocInv'
    OBVIOUS
  <1> USE DEF Patched, Running
  <1>0. RelocInv /\ object \in Objects /\ next \in Nat
    BY DEF PatchInv, FilesInv
  <1>1. CASE MapPart \/ MappingDone \/ AppendText \/ AppendSection
    BY <1>1 DEF MapPart, MappingDone, AppendText, AppendSection, RelocInv
  <1>2. CASE LayoutDone
    BY <1>2 DEF LayoutDone, RelocInv
  <1>3. CASE AddSegment
    <2>1. phase' = "relocate" /\ next' = 1 /\ object' = object
      <3>1. next = 1
        BY <1>3 DEF AddSegment, PatchInv, RelocInv
      <3> QED BY <1>3, <3>1 DEF AddSegment
    <2>2. \A k \in DOMAIN object.relocs : ~(k < 1)
      BY <1>0, Relocs
    <2> QED BY <2>1, <2>2 DEF RelocInv
  <1>4. CASE FixRelocation
    <2>1. CASE phase' = "thrown"
      BY <2>1 DEF RelocInv
    <2>2. CASE phase' # "thrown"
      <3>1. /\ phase' = "relocate" /\ next' = next + 1
            /\ UNCHANGED <<binary, object, section_offsets, segment>>
        BY <1>4, <2>2 DEF FixRelocation
      <3>2. ASSUME NEW k \in DOMAIN object.relocs, k < next', Applies(object.relocs[k])'
            PROVE  RelocatedAt(k)'
        <4>1. k <= next
          BY <1>0, <3>1, <3>2, Relocs
        <4>2. Applies(object.relocs[k])
          BY <3>1, <3>2 DEF Applies
        <4> QED BY <1>4, <2>2, <4>1, <4>2, FixStep
      <3> QED BY <1>0, <3>1, <3>2 DEF RelocInv
    <2> QED BY <2>1, <2>2
  <1>5. CASE WriteJump
    BY <1>0, <1>5, RelocKept DEF WriteJump
  <1>6. CASE EntryUndefined
    BY <1>6 DEF EntryUndefined, RelocInv
  <1>7. CASE \E base \in LoadBases \cup {binary.base} : Load(base)
    BY <1>0, <1>7, RelocKept DEF Load
  <1> QED BY <1>1, <1>2, <1>3, <1>4, <1>5, <1>6, <1>7 DEF PatchStep

LEMMA JumpStep == PatchInv /\ PatchStep => JumpInv'
  <1> SUFFICES ASSUME PatchInv, PatchStep PROVE JumpInv'
    OBVIOUS
  <1> USE DEF Patched, Running
  <1>1. CASE WriteJump
    <2>1. new_func_va' = new_func_va /\ va' = va
      BY <1>1, AddressesKept DEF WriteJump
    <2> QED BY <1>1, <2>1 DEF WriteJump, JumpInv, Int32
  <1>2. CASE \E base \in LoadBases \cup {binary.base} : Load(base)
    <2>1. UNCHANGED <<binary, object, section_offsets, segment, jump>> /\ phase = "patched"
      BY <1>2 DEF Load
    <2>2. new_func_va' = new_func_va /\ va' = va
      BY <2>1, AddressesKept
    <2> QED BY <2>1, <2>2 DEF PatchInv, JumpInv, Int32
  <1>3. CASE ~WriteJump /\ ~\E base \in LoadBases \cup {binary.base} : Load(base)
    BY <1>3 DEF PatchStep, MapPart, MappingDone, AppendText, AppendSection, LayoutDone, AddSegment,
                FixRelocation, EntryUndefined, JumpInv
  <1> QED BY <1>1, <1>2, <1>3

\* while the binary runs only the phase changes
LEMMA CallKeepsPatch ==
    ASSUME PatchInv, phase \in Running, phase' \in Running,
           UNCHANGED <<binary, object, memory, next, section_offsets, code_size, fields, segment,
                       jump, load_base>>
    PROVE  PatchInv'
  <1> USE DEF Phases, Patched, Running
  <1>1. FilesInv'
    BY DEF PatchInv, FilesInv
  <1>2. LayoutInv'
    BY LayoutKept DEF PatchInv
  <1>3. RelocInv'
    BY RelocKept DEF PatchInv
  <1>4. JumpInv'
    <2>1. new_func_va' = new_func_va /\ va' = va
      BY AddressesKept
    <2> QED BY <2>1 DEF PatchInv, JumpInv, Int32
  <1> QED BY <1>1, <1>2, <1>3, <1>4 DEF PatchInv

LEMMA PatchInductive == CSpec => []PatchInv
  <1>1. ASSUME PatchInv, [CNext]_allVars PROVE PatchInv'
    <2>1. CASE PatchStep
      BY <1>1, <2>1, LayoutStep, FilesStep, RelocStep, JumpStep DEF PatchInv
    <2>2. CASE CallPatched
      BY <1>1, <2>2, CallKeepsPatch DEF CallPatched, Running
    <2>3. CASE WrapperStep
      BY <1>1, <2>3, CallKeepsPatch DEF WrapperStep, Running, vars
    <2>4. CASE Enter
      BY <1>1, <2>4, CallKeepsPatch DEF Enter, Running
    <2>5. CASE ReturnToCaller
      BY <1>1, <2>5, CallKeepsPatch DEF ReturnToCaller, Running
    <2>6. ASSUME NEW address \in ImageAddresses, AccessImage(address) PROVE PatchInv'
      BY <1>1, <2>6, CallKeepsPatch DEF AccessImage, Running, vars
    <2>7. ASSUME NEW cleaned \in BOOLEAN, LeaveLifted(cleaned) PROVE PatchInv'
      BY <1>1, <2>7, CallKeepsPatch DEF LeaveLifted, Running
    <2>8. CASE UNCHANGED allVars
      <3>1. UNCHANGED vars
        BY <2>8 DEF allVars
      <3>2. UNCHANGED <<binary, object, phase, section_offsets, code_size, fields, segment, next, jump, load_base>>
        BY <3>1 DEF vars
      <3>3. FilesInv' /\ LayoutInv'
        BY <1>1, <3>2 DEF PatchInv, FilesInv, LayoutInv, Laid, EndOf
      <3>4. RelocInv'
        <4>1. CASE phase \in {"relocate"} \cup Patched
          BY <1>1, <3>2, <4>1, RelocKept DEF PatchInv, Patched, Running
        <4>2. CASE phase \notin {"relocate"} \cup Patched
          BY <1>1, <3>2, <4>2 DEF PatchInv, RelocInv
        <4> QED BY <4>1, <4>2
      <3>5. JumpInv'
        BY <1>1, <3>2, AddressesKept DEF PatchInv, JumpInv, Int32
      <3> QED BY <3>3, <3>4, <3>5 DEF PatchInv
    <2> QED BY <1>1, <2>1, <2>2, <2>3, <2>4, <2>5, <2>6, <2>7, <2>8 DEF CNext
  <1> QED BY <1>1, PatchInit, PTL DEF CSpec

-----------------------------------------------------------------------------
\* The patched binary, wherever it is loaded

LEMMA Addresses ==
    ASSUME PatchInv
    PROVE  /\ segment \in Nat /\ load_base \in Nat
           /\ image_base \in Nat /\ shift_offset \in Nat /\ binary.va \in Nat
           /\ image_base % Shift = 0
           /\ Shift \in Nat \ {0}
  <1>1. binary \in Binaries /\ segment \in Nat /\ load_base \in Nat
    BY DEF PatchInv, FilesInv
  <1>2. Shift \in Nat \ {0} /\ 0 % Shift = 0
    BY PatcherConstants
  <1>3. binary.base \in Nat /\ binary.base % Shift = 0 /\ binary.va \in Nat
    BY <1>1, BinaryFiles
  <1> QED BY <1>1, <1>2, <1>3 DEF image_base, shift_offset

LEMMA SymbolAddress ==
    ASSUME PatchInv, NEW name \in DOMAIN object.symbols,
           object.symbols[name].section \in DOMAIN section_offsets
    PROVE  segment + section_offsets[object.symbols[name].section] + object.symbols[name].value \in Nat
  <1>1. object.symbols[name] \in Symbol
    BY ObjectFiles DEF PatchInv, FilesInv
  <1>2. section_offsets[object.symbols[name].section] \in Nat
    BY DEF PatchInv, LayoutInv, Laid
  <1> QED BY <1>1, <1>2, Addresses DEF Symbol

(* The sections of the object do not overlap, have their room in the        *)
(* segment, and are aligned at the address where they run, for all section  *)
(* tables and load addresses (append_section, the page alignment of the     *)
(* new segment).                                                            *)
THEOREM SectionsApart == CSpec => []SectionsKeptApart
  <1>1. ASSUME PatchInv, phase = "loaded", NEW s \in DOMAIN section_offsets,
               object.sections[s].align > 0
        PROVE  Runtime(segment + section_offsets[s]) % object.sections[s].align = 0
    <2> DEFINE a == object.sections[s].align
    <2>1. object \in Objects /\ s \in DOMAIN object.sections
      BY <1>1 DEF PatchInv, FilesInv, LayoutInv, Laid
    <2>2. a \in Nat \ {0} /\ Shift % a = 0
      BY <1>1, <2>1, Sections
    <2>3. section_offsets[s] \in Nat /\ section_offsets[s] % a = 0
      BY <1>1 DEF PatchInv, LayoutInv, Laid
    <2>4. segment % Shift = 0 /\ load_base % Shift = 0
      BY <1>1 DEF PatchInv, FilesInv, Patched, Running
    <2> HIDE DEF a
    <2>5. segment % a = 0 /\ load_base % a = 0 /\ image_base % a = 0
      BY <1>1, <2>2, <2>4, Addresses, Divides
    <2>6. (segment + section_offsets[s]) % a = 0
      BY <1>1, <2>2, <2>3, <2>5, Addresses, SumOfMultiples
    <2>7. ((segment + section_offsets[s]) + load_base) % a = 0
      BY <1>1, <2>2, <2>3, <2>5, <2>6, Addresses, SumOfMultiples
    <2>8. (((segment + section_offsets[s]) + load_base) - image_base) % a = 0
      BY <1>1, <2>2, <2>3, <2>5, <2>7, Addresses, SumOfMultiples
    <2>9. Runtime(segment + section_offsets[s]) % a = 0
      <3> DEFINE x == segment + section_offsets[s]
      <3>1. Runtime(x) = (x + load_base) - image_base
        BY <1>1, <2>3, Addresses DEF Runtime
      <3> QED BY <2>8, <3>1
    <2> QED BY <2>9 DEF a
  <1>2. ASSUME PatchInv, NEW s \in DOMAIN section_offsets
        PROVE  section_offsets[s] .. section_offsets[s] + object.sections[s].size - 1 \subseteq 0 .. code_size - 1
    <2>1. object \in Objects /\ s \in DOMAIN object.sections
      BY <1>2 DEF PatchInv, FilesInv, LayoutInv, Laid
    <2>2. object.sections[s].size \in Nat
      BY <2>1, Sections
    <2> QED BY <1>2, <2>2 DEF PatchInv, LayoutInv, Laid, EndOf
  <1>3. ASSUME PatchInv, NEW s \in DOMAIN section_offsets, NEW t \in DOMAIN section_offsets, s # t
        PROVE  (section_offsets[s] .. section_offsets[s] + object.sections[s].size - 1)
                 \cap (section_offsets[t] .. section_offsets[t] + object.sections[t].size - 1) = {}
    <2>1. object \in Objects /\ s \in DOMAIN object.sections /\ t \in DOMAIN object.sections
      BY <1>3 DEF PatchInv, FilesInv, LayoutInv, Laid
    <2>2. object.sections[s].size \in Nat /\ object.sections[t].size \in Nat
      BY <2>1, Sections
    <2>3. /\ section_offsets[s] \in Nat /\ section_offsets[t] \in Nat
          /\ \/ section_offsets[s] + object.sections[s].size <= section_offsets[t]
             \/ section_offsets[t] + object.sections[t].size <= section_offsets[s]
      BY <1>3 DEF PatchInv, LayoutInv, Laid, EndOf
    <2>4. ASSUME NEW x \in Nat, NEW y \in Nat, NEW n \in Nat, NEW m \in Nat, x + n <= y \/ y + m <= x
          PROVE  (x .. x + n - 1) \cap (y .. y + m - 1) = {}
      BY <2>4
    <2> QED BY <2>2, <2>3, <2>4
  <1>4. PatchInv => SectionsKeptApart
    BY <1>1, <1>2, <1>3 DEF SectionsKeptApart
  <1> QED BY <1>4, PatchInductive, PTL

\* the displacement has room in the jump
JumpInReach == phase \in Patched => new_func_va - (va + JumpSize) \in -Half .. Half - 1

(* The jump at the original function leads to vexa_entry in every patched   *)
(* binary, wherever it is loaded, as long as the new segment is within two  *)
(* gigabytes of the function: patch casts the displacement without asking   *)
(* (engine::patch, for both formats).                                       *)
THEOREM JumpReaches == CSpec /\ []JumpInReach => []JumpReachesEntry
  <1>1. ASSUME PatchInv, JumpInReach, phase = "loaded"
        PROVE  /\ Runtime(jump.at) = RuntimeOfOriginal(binary.va)
               /\ Runtime(jump.at) + JumpSize + jump.rel = Runtime(new_func_va)
    <2>1. /\ jump.at = va
          /\ jump.rel = Int32(new_func_va - (va + JumpSize))
          /\ new_func_va - (va + JumpSize) \in -Half .. Half - 1
      BY <1>1 DEF PatchInv, JumpInv, JumpInReach, Patched, Running
    <2>2. jump.rel = new_func_va - (va + JumpSize)
      BY <2>1, CastExact
    <2>3. va \in Nat /\ JumpSize \in Nat
      BY <1>1, Addresses DEF va, JumpSize, FieldSize
    <2>4. Runtime(jump.at) = RuntimeOfOriginal(binary.va)
      BY <2>1 DEF RuntimeOfOriginal, va
    <2>5. new_func_va \in Int
      <3>1. /\ "vexa_entry" \in DOMAIN object.symbols
            /\ object.symbols["vexa_entry"].section \in DOMAIN section_offsets
        BY <1>1 DEF PatchInv, FilesInv, JumpInv, Patched, Running
      <3> QED BY <1>1, <3>1, SymbolAddress DEF new_func_va
    <2>6. Runtime(jump.at) + JumpSize + jump.rel = Runtime(new_func_va)
      BY <1>1, <2>1, <2>2, <2>3, <2>5, Addresses DEF Runtime
    <2> QED BY <2>4, <2>6
  <1>2. PatchInv /\ JumpInReach => JumpReachesEntry
    BY <1>1 DEF JumpReachesEntry
  <1> QED BY <1>2, PatchInductive, PTL

LEMMA OperandReaches ==
    ASSUME PatchInv, phase \in Running, NEW k \in DOMAIN object.relocs,
           Applies(object.relocs[k]), Fits(object.relocs[k]),
           object.relocs[k].type \in RelativeTypes \/ ~Moved
    PROVE  Operand(PatchOffset(object.relocs[k]))
             = Runtime(symbol_va(object.relocs[k].symbol)) + object.relocs[k].addend
  <1> DEFINE r == object.relocs[k]
             off == PatchOffset(r)
             target == symbol_va(r.symbol) + r.addend
  <1>1. object \in Objects /\ next \in Nat /\ next > Len(object.relocs)
    BY DEF PatchInv, FilesInv, RelocInv, Patched
  <1>2. r \in Relocation /\ k \in Nat /\ k < next
    BY <1>1, Relocs
  <1>3. /\ r.type \in RelativeTypes \cup AbsoluteTypes
        /\ fields[off] = [type |-> r.type, value |-> Relocated(r)]
    BY <1>2 DEF PatchInv, RelocInv, RelocatedAt, Patched
  <1>4. symbol_va(r.symbol) \in Nat
    <2>1. CASE r.symbol = "IMAGE_BASE"
      BY <2>1, Addresses DEF symbol_va
    <2>2. CASE r.symbol # "IMAGE_BASE"
      BY <2>2, SymbolAddress DEF symbol_va, Applies
    <2> QED BY <2>1, <2>2
  <1>5. r.addend \in Int /\ r.at \in Nat /\ target \in Int
    BY <1>2, <1>4 DEF Relocation
  <1>6. off \in Nat
    BY <1>5 DEF Applies, PatchOffset, PatchInv, LayoutInv, Laid
  <1>7. Runtime(symbol_va(r.symbol)) + r.addend = Runtime(target)
    BY <1>4, <1>5, Addresses DEF Runtime
  <1>8. Half \in Nat \ {0}
    BY PatcherConstants
  <1> HIDE DEF off
  <1>9. CASE r.type \in RelativeTypes
    <2>0. r.type # "64" /\ r.type # "32" /\ r.type # "32S" /\ r.type \notin {"32", "32S"} /\ r.type \notin {"64", "32"}
      BY <1>9 DEF RelativeTypes
    <2>1. target - (segment + off) \in -Half .. Half - 1
      BY <1>9, <2>0, Zenon DEF Fits, off, target
    <2>2. Relocated(r) = Int32(target - (segment + off))
      BY <1>9, <2>0, Zenon DEF Relocated, off, target
    <2>3. Operand(off) = Runtime(segment + off) + Relocated(r)
      <3>1. fields[off].type = r.type /\ fields[off].value = Relocated(r)
        BY <1>3
      <3> HIDE DEF r
      <3> QED BY <1>9, <2>0, <3>1, Zenon DEF Operand
    <2>4. Relocated(r) = target - (segment + off)
      BY <2>1, <2>2, CastExact
    <2>5. Operand(off) = Runtime(target)
      BY <1>5, <1>6, <2>3, <2>4, Addresses DEF Runtime
    <2> QED BY <1>7, <2>5 DEF off
  <1>10. CASE r.type \notin RelativeTypes
    <2>1. load_base = image_base
      BY <1>10 DEF Moved
    <2>2. Runtime(target) = target
      BY <1>5, <2>1, Addresses DEF Runtime
    <2>3. fields[off].type = r.type /\ fields[off].value = Relocated(r)
      BY <1>3
    <2>4. CASE r.type = "64"
      <3>1. Relocated(r) = target
        BY <2>4, Zenon DEF Relocated, RelativeTypes, target
      <3>2. Operand(off) = Relocated(r)
        BY <2>3, <2>4, Zenon DEF Operand, RelativeTypes
      <3> QED BY <1>7, <2>2, <3>1, <3>2 DEF off
    <2>5. CASE r.type = "32"
      <3>1. Relocated(r) = Uint32(target)
        BY <2>5, Zenon DEF Relocated, RelativeTypes, target
      <3>2. Operand(off) = Relocated(r)
        BY <2>3, <2>5, Zenon DEF Operand, RelativeTypes
      <3>3. target \in 0 .. 2 * Half - 1
        BY <2>5, Zenon DEF Fits, RelativeTypes, target
      <3>4. Relocated(r) = target
        BY <3>1, <3>3, UncastExact
      <3> QED BY <1>7, <2>2, <3>2, <3>4 DEF off
    <2>6. CASE r.type = "32S"
      <3>1. Relocated(r) = Uint32(target)
        BY <2>6, Zenon DEF Relocated, RelativeTypes, target
      <3>2. Operand(off) = Int32(Relocated(r))
        BY <2>3, <2>6, Zenon DEF Operand, RelativeTypes
      <3>3. target \in -Half .. Half - 1
        BY <2>6, Zenon DEF Fits, RelativeTypes, target
      <3>4. Int32(Relocated(r)) = target
        BY <3>1, <3>3, CastExact
      <3> QED BY <1>7, <2>2, <3>2, <3>4 DEF off
    <2> QED BY <1>3, <1>10, <2>4, <2>5, <2>6 DEF AbsoluteTypes
  <1> QED BY <1>9, <1>10

(* Every reference reaches its symbol, for all object files, segments and   *)
(* load addresses, with the two exceptions named in RelocationsResolve.     *)
(* That no relocation spoils the field of another rests on the layout:      *)
(* sections are kept apart (fix_relocations, append_section).               *)
THEOREM RelocationsReach == CSpec => []RelocationsResolve
  <1>1. PatchInv => RelocationsResolve
    BY OperandReaches DEF RelocationsResolve, Running
  <1> QED BY <1>1, PatchInductive, PTL

-----------------------------------------------------------------------------
\* map_binary

HoldsPart(part) ==
    /\ \A a \in Filled(part) :
          /\ mapped_base + a \in DOMAIN memory
          /\ memory[mapped_base + a] = ByteAt(part, a) \/ Overlaid(mapped_base + a)
    /\ IsElf => \A a \in Unfilled(part) : a \in DOMAIN memory /\ memory[a] = 0

\* in a file that is no ELF file, nothing is behind the content
Tailless(part) == \A a \in Unfilled(part) : mapped_base + a \notin DOMAIN memory

MapInv ==
    /\ phase = "map" => next > 0
    /\ ~IsElf => \A k \in DOMAIN binary.parts : binary.parts[k].load => Tailless(binary.parts[k])
    /\ \A k \in DOMAIN binary.parts :
          (phase = "map" => k < next) /\ binary.parts[k].load => HoldsPart(binary.parts[k])

LEMMA Parts ==
    ASSUME binary \in Binaries, NEW k \in DOMAIN binary.parts
    PROVE  /\ binary.parts[k].va \in Nat
           /\ binary.parts[k].vsize \in Nat
           /\ Len(binary.parts[k].content) \in Nat
           /\ Filled(binary.parts[k]) \subseteq Nat
           /\ Unfilled(binary.parts[k]) \subseteq Nat
           /\ k \in 1 .. Len(binary.parts)
  <1>1. binary.parts \in Seq(Part)
    BY BinaryFiles
  <1>2. binary.parts[k] \in Part /\ k \in 1 .. Len(binary.parts)
    BY <1>1
  <1>3. /\ binary.parts[k].va \in Nat
        /\ binary.parts[k].vsize \in Nat
        /\ binary.parts[k].content \in Seq(Nat)
    BY <1>2 DEF Part
  <1>4. Len(binary.parts[k].content) \in Nat
    BY <1>3
  <1> QED BY <1>2, <1>3, <1>4 DEF Filled, Unfilled

LEMMA Bases ==
    ASSUME binary \in Binaries
    PROVE  mapped_base \in Nat /\ (IsElf => mapped_base = 0)
  <1>1. binary.base \in Nat
    BY BinaryFiles
  <1> QED BY <1>1 DEF mapped_base, IsElf

\* what mapping a part does to an address
Maps(p, a, mem) ==
    /\ a \in Filled(p) /\ (IsElf => a \notin Unfilled(p)) => mem[mapped_base + a] = ByteAt(p, a)
    /\ IsElf /\ a \in Unfilled(p) => a \in DOMAIN mem /\ mem[a] = 0
    /\ mapped_base + a \in DOMAIN memory /\ a \notin Filled(p) /\ (IsElf => a \notin Unfilled(p)) =>
          mem[mapped_base + a] = memory[mapped_base + a]

LEMMA MapEffect ==
    ASSUME binary \in Binaries, next \in DOMAIN binary.parts, MapPart
    PROVE  /\ \A x \in DOMAIN memory : x \in DOMAIN memory'
           /\ \A a \in Filled(binary.parts[next]) : mapped_base + a \in DOMAIN memory'
           /\ \A a \in Nat : Maps(binary.parts[next], a, memory')
           /\ ~IsElf => \A a \in Nat : mapped_base + a \in DOMAIN memory' =>
                           mapped_base + a \in DOMAIN memory \/ a \in Filled(binary.parts[next])
  <1> DEFINE p == binary.parts[next]
             n == Len(p.content)
             from == p.va + mapped_base
             w == Written(memory, from, p.content)
             span == from .. from + n - 1
  <1>1. p.va \in Nat /\ p.vsize \in Nat /\ n \in Nat /\ mapped_base \in Nat /\ from \in Nat
        /\ (IsElf => mapped_base = 0)
    BY Parts, Bases
  <1>2. memory' = IF IsElf THEN Cleared(w, Zeroed(p)) ELSE w
    BY DEF MapPart
  <1>3. w = [x \in DOMAIN memory \cup span |-> IF x \in span THEN p.content[x - from + 1] ELSE memory[x]]
    BY DEF Written
  <1>4. Zeroed(p) = p.va + n .. p.va + p.vsize - 1
    BY DEF Zeroed
  <1>5. /\ Filled(p) = p.va .. p.va + n - 1
        /\ \A a \in Nat : a \in Unfilled(p) <=> a \in Zeroed(p)
        /\ \A a \in Nat : ByteAt(p, a) = p.content[a - p.va + 1]
    BY <1>1, <1>4, SMTT(30) DEF Filled, Unfilled, ByteAt
  <1>6. \A a \in Nat : /\ a \in Filled(p) <=> mapped_base + a \in span
                       /\ (mapped_base + a) - from + 1 = a - p.va + 1
    <2>1. ASSUME NEW a \in Nat, NEW v \in Nat, NEW m \in Nat, NEW l \in Nat
          PROVE  /\ a \in v .. v + l - 1 <=> m + a \in v + m .. (v + m) + l - 1
                 /\ (m + a) - (v + m) + 1 = a - v + 1
      OBVIOUS
    <2> HIDE DEF n
    <2> QED BY <1>1, <1>5, <2>1, SMTT(30)
  <1>7. DOMAIN w = DOMAIN memory \cup span
    BY <1>3
  <1>8. \A a \in Nat :
            /\ a \in Filled(p) => w[mapped_base + a] = ByteAt(p, a)
            /\ a \notin Filled(p) /\ mapped_base + a \in DOMAIN memory =>
                  w[mapped_base + a] = memory[mapped_base + a]
    BY <1>3, <1>5, <1>6, SMTT(30)
  <1> HIDE DEF p, n, from, w, span
  <1>9. Filled(p) \subseteq Nat
    BY <1>1, <1>5
  <1>10. CASE ~IsElf
    <2>1. memory' = w
      BY <1>2, <1>10
    <2>2. \A a \in Nat : Maps(p, a, memory')
      BY <1>8, <1>10, <2>1 DEF Maps
    <2> QED BY <1>6, <1>7, <1>9, <1>10, <2>1, <2>2 DEF p
  <1>11. CASE IsElf
    <2>1. memory' = [x \in DOMAIN w \cup Zeroed(p) |-> IF x \in Zeroed(p) THEN 0 ELSE w[x]]
      BY <1>2, <1>11 DEF Cleared
    <2>2. \A a \in Nat : mapped_base + a = a
      BY <1>1, <1>11
    <2>3. ASSUME NEW a \in Nat PROVE Maps(p, a, memory')
      <3>1. CASE a \in Zeroed(p)
        BY <1>5, <1>11, <2>1, <2>2, <3>1 DEF Maps
      <3>2. CASE a \notin Zeroed(p)
        <4>1. a \in DOMAIN w => memory'[a] = w[a]
          BY <2>1, <3>2
        <4>2. a \in DOMAIN memory \/ a \in Filled(p) => a \in DOMAIN w
          BY <1>6, <1>7, <2>2
        <4> QED BY <1>5, <1>8, <1>11, <2>2, <3>2, <4>1, <4>2 DEF Maps
      <3> QED BY <3>1, <3>2
    <2>4. \A a \in Filled(p) : mapped_base + a \in DOMAIN memory'
      BY <1>6, <1>7, <1>9, <2>1
    <2> QED BY <1>7, <1>11, <2>1, <2>3, <2>4 DEF p
  <1> QED BY <1>10, <1>11

LEMMA MapStep ==
    ASSUME FilesInv, MapInv, MapPart
    PROVE  MapInv'
  <1> DEFINE p == binary.parts[next]
  <1>1. /\ binary \in Binaries /\ next \in Nat /\ next > 0 /\ phase = "map" /\ phase' = "map"
        /\ next' = next + 1 /\ binary' = binary
    BY DEF FilesInv, MapInv, MapPart
  <1>2. next \in DOMAIN binary.parts
    <2>1. binary.parts \in Seq(Part)
      BY <1>1, BinaryFiles
    <2>2. next <= Len(binary.parts)
      BY DEF MapPart
    <2> QED BY <1>1, <2>1, <2>2
  <1>3. mapped_base' = mapped_base /\ (IsElf' <=> IsElf) /\ \A x : Overlaid(x)' <=> Overlaid(x)
    BY <1>1 DEF mapped_base, IsElf, Overlaid, Unfilled
  <1>4. /\ \A x \in DOMAIN memory : x \in DOMAIN memory'
        /\ \A a \in Filled(p) : mapped_base + a \in DOMAIN memory'
        /\ \A a \in Nat : Maps(p, a, memory')
        /\ ~IsElf => \A a \in Nat : mapped_base + a \in DOMAIN memory' =>
                        mapped_base + a \in DOMAIN memory \/ a \in Filled(p)
    BY <1>1, <1>2, MapEffect
  <1>5. mapped_base \in Nat /\ (IsElf => mapped_base = 0)
    BY <1>1, Bases
  <1>6. ASSUME NEW k \in DOMAIN binary.parts, k <= next, binary.parts[k].load
        PROVE  HoldsPart(binary.parts[k])'
    <2> DEFINE q == binary.parts[k]
    <2>1. k \in Nat /\ Filled(q) \subseteq Nat /\ Unfilled(q) \subseteq Nat
      BY <1>1, Parts
    <2>2. CASE k = next
      <3>1. \A a \in Filled(p) : a \notin Unfilled(p)
        <4>1. p.va \in Nat /\ Len(p.content) \in Nat
          BY <1>1, <1>2, Parts
        <4> QED BY <4>1 DEF Filled, Unfilled
      <3>2. \A a \in Filled(p) : memory'[mapped_base + a] = ByteAt(p, a)
        BY <1>4, <2>1, <2>2, <3>1 DEF Maps
      <3>3. IsElf => \A a \in Unfilled(p) : a \in DOMAIN memory' /\ memory'[a] = 0
        BY <1>4, <2>1, <2>2 DEF Maps
      <3> QED BY <1>1, <1>3, <1>4, <2>2, <3>2, <3>3 DEF HoldsPart, Filled, Unfilled, ByteAt
    <2>3. CASE k # next
      <3>1. HoldsPart(q)
        BY <1>1, <1>6, <2>1, <2>3 DEF MapInv
      <3>2. /\ \A a \in Filled(p) \cap Filled(q) : ByteAt(p, a) = ByteAt(q, a)
            /\ Filled(p) \cap Unfilled(q) = {}
            /\ p.load => Unfilled(p) \cap Filled(q) = {}
        BY <1>1, <1>2, <1>6, <2>3, BinaryFiles
      <3>3. ASSUME NEW a \in Filled(q)
            PROVE  /\ mapped_base + a \in DOMAIN memory'
                   /\ memory'[mapped_base + a] = ByteAt(q, a) \/ Overlaid(mapped_base + a)
        <4>1. a \in Nat /\ mapped_base + a \in DOMAIN memory
              /\ (memory[mapped_base + a] = ByteAt(q, a) \/ Overlaid(mapped_base + a))
          BY <2>1, <3>1, <3>3 DEF HoldsPart
        <4>2. CASE IsElf /\ a \in Unfilled(p)
          <5>1. ~p.load /\ mapped_base + a = a
            BY <1>5, <3>2, <3>3, <4>1, <4>2
          <5>2. Overlaid(mapped_base + a)
            BY <1>2, <4>2, <5>1 DEF Overlaid
          <5> QED BY <1>4, <4>1, <5>2
        <4>3. CASE (IsElf => a \notin Unfilled(p)) /\ a \in Filled(p)
          BY <1>4, <3>2, <3>3, <4>1, <4>3 DEF Maps
        <4>4. CASE (IsElf => a \notin Unfilled(p)) /\ a \notin Filled(p)
          BY <1>4, <4>1, <4>4 DEF Maps
        <4> QED BY <4>2, <4>3, <4>4
      <3>4. ASSUME IsElf, NEW a \in Unfilled(q)
            PROVE  a \in DOMAIN memory' /\ memory'[a] = 0
        <4>1. a \in Nat /\ a \in DOMAIN memory /\ memory[a] = 0 /\ a \notin Filled(p) /\ mapped_base + a = a
          BY <1>5, <2>1, <3>1, <3>2, <3>4 DEF HoldsPart
        <4>2. CASE a \in Unfilled(p)
          BY <1>4, <3>4, <4>1, <4>2 DEF Maps
        <4>3. CASE a \notin Unfilled(p)
          BY <1>4, <4>1, <4>3 DEF Maps
        <4> QED BY <4>2, <4>3
      <3> QED BY <1>1, <1>3, <3>3, <3>4 DEF HoldsPart, Filled, Unfilled, ByteAt
    <2> QED BY <2>2, <2>3
  <1>7. \A k \in DOMAIN binary.parts : k < next + 1 => k <= next
    BY <1>1, Parts
  <1>8. ASSUME ~IsElf, NEW k \in DOMAIN binary.parts, binary.parts[k].load
        PROVE  Tailless(binary.parts[k])'
    <2> DEFINE q == binary.parts[k]
    <2>1. Unfilled(q) \subseteq Nat /\ Tailless(q)
      BY <1>1, <1>8, Parts DEF MapInv
    <2>2. ASSUME NEW a \in Unfilled(q) PROVE a \notin Filled(p)
      <3>1. CASE k = next
        <4>1. q.va \in Nat /\ Len(q.content) \in Nat
          BY <1>1, Parts
        <4> QED BY <2>2, <3>1, <4>1 DEF Filled, Unfilled
      <3>2. CASE k # next
        <4>1. Filled(p) \cap Unfilled(q) = {}
          BY <1>1, <1>2, <1>8, <3>2, BinaryFiles
        <4> QED BY <2>2, <4>1
      <3> QED BY <3>1, <3>2
    <2>3. \A a \in Unfilled(q) : mapped_base + a \notin DOMAIN memory'
      BY <1>4, <1>8, <2>1, <2>2 DEF Tailless
    <2> QED BY <1>1, <1>3, <2>3 DEF Tailless, Unfilled
  <1> QED BY <1>1, <1>3, <1>6, <1>7, <1>8 DEF MapInv

LEMMA MapKept ==
    ASSUME MapInv, UNCHANGED <<binary, memory>>, phase' # "map",
           phase = "map" => \A k \in DOMAIN binary.parts : k < next
    PROVE  MapInv'
  <1>1. \A k \in DOMAIN binary.parts : binary.parts[k].load => HoldsPart(binary.parts[k])
    BY DEF MapInv
  <1>2. ASSUME NEW k \in DOMAIN binary.parts, HoldsPart(binary.parts[k])
        PROVE  HoldsPart(binary.parts[k])'
    BY <1>2 DEF HoldsPart, Filled, Unfilled, ByteAt, Overlaid, mapped_base, IsElf
  <1>3. ASSUME NEW k \in DOMAIN binary.parts, Tailless(binary.parts[k])
        PROVE  Tailless(binary.parts[k])'
    BY <1>3 DEF Tailless, Unfilled, mapped_base
  <1>4. IsElf' <=> IsElf
    BY DEF IsElf
  <1> QED BY <1>1, <1>2, <1>3, <1>4 DEF MapInv

LEMMA MapInductive == CSpec => []MapInv
  <1>1. CInit => MapInv
    <2> SUFFICES ASSUME CInit PROVE MapInv
      OBVIOUS
    <2>1. binary \in Binaries /\ next = 1
      BY DEF CInit, Init
    <2>2. \A k \in DOMAIN binary.parts : k \in 1 .. Len(binary.parts)
      BY <2>1, Parts
    <2>3. \A k \in DOMAIN binary.parts : ~(k < next)
      BY <2>1, <2>2
    <2>4. DOMAIN memory = {} /\ phase = "map"
      BY DEF CInit, Init
    <2> QED BY <2>1, <2>3, <2>4 DEF MapInv, Tailless
  <1>2. ASSUME PatchInv, MapInv, [CNext]_allVars PROVE MapInv'
    <2>1. FilesInv
      BY <1>2 DEF PatchInv
    <2>2. CASE MapPart
      BY <1>2, <2>1, <2>2, MapStep
    <2>3. CASE MappingDone
      <3>1. \A k \in DOMAIN binary.parts : k < next
        <4>1. \A k \in DOMAIN binary.parts : k \in 1 .. Len(binary.parts)
          BY <2>1, Parts DEF FilesInv
        <4>2. binary.parts \in Seq(Part) /\ next \in Nat
          BY <2>1, BinaryFiles DEF FilesInv
        <4> QED BY <2>3, <4>1, <4>2 DEF MappingDone
      <3> QED BY <1>2, <2>3, <3>1, MapKept DEF MappingDone
    <2>4. CASE AppendText \/ AppendSection
      BY <1>2, <2>4, MapKept DEF AppendText, AppendSection
    <2>5. CASE LayoutDone \/ AddSegment
      BY <1>2, <2>5, MapKept DEF LayoutDone, AddSegment
    <2>6. CASE FixRelocation
      <3>1. UNCHANGED <<binary, memory>> /\ phase # "map" /\ phase' # "map"
        BY <2>6 DEF FixRelocation
      <3> QED BY <1>2, <3>1, MapKept
    <2>7. CASE WriteJump \/ EntryUndefined
      BY <1>2, <2>7, MapKept DEF WriteJump, EntryUndefined
    <2>8. CASE \E base \in LoadBases \cup {binary.base} : Load(base)
      BY <1>2, <2>8, MapKept DEF Load
    <2>9. CASE CallPatched \/ Enter \/ ReturnToCaller
      BY <1>2, <2>9, MapKept DEF CallPatched, Enter, ReturnToCaller
    <2>10. CASE WrapperStep
      BY <1>2, <2>10, MapKept DEF WrapperStep, vars
    <2>11. ASSUME NEW address \in ImageAddresses, AccessImage(address) PROVE MapInv'
      BY <1>2, <2>11, MapKept DEF AccessImage, vars
    <2>12. ASSUME NEW cleaned \in BOOLEAN, LeaveLifted(cleaned) PROVE MapInv'
      BY <1>2, <2>12, MapKept DEF LeaveLifted
    <2>13. CASE UNCHANGED allVars
      <3>1. UNCHANGED <<binary, memory, phase, next>>
        BY <2>13 DEF allVars, vars
      <3>2. ASSUME NEW k \in DOMAIN binary.parts, HoldsPart(binary.parts[k])
            PROVE  HoldsPart(binary.parts[k])'
        BY <3>1, <3>2 DEF HoldsPart, Filled, Unfilled, ByteAt, Overlaid, mapped_base, IsElf
      <3>3. ASSUME NEW k \in DOMAIN binary.parts, Tailless(binary.parts[k])
            PROVE  Tailless(binary.parts[k])'
        BY <3>1, <3>3 DEF Tailless, Unfilled, mapped_base
      <3>4. IsElf' <=> IsElf
        BY <3>1 DEF IsElf
      <3> QED BY <1>2, <3>1, <3>2, <3>3, <3>4 DEF MapInv
    <2> QED BY <1>2, <2>2, <2>3, <2>4, <2>5, <2>6, <2>7, <2>8, <2>9, <2>10, <2>11, <2>12, <2>13
            DEF CNext, PatchStep
  <1> QED BY <1>1, <1>2, PatchInductive, PTL DEF CSpec

(* In whatever order the parts of the file come and however they lie in     *)
(* each other, every address of a loaded part holds the byte that the       *)
(* loader puts there, except content under the zeros of a segment that is   *)
(* not loaded; the tail of a PE section is the one range that holds no byte *)
(* (map_binary, write_memory).                                              *)
THEOREM MappedLikeLoaded == CSpec => []MappedAsLoaded
  <1>1. ASSUME PatchInv, MapInv, phase = "layout", NEW k \in DOMAIN binary.parts, binary.parts[k].load,
               NEW a \in Filled(binary.parts[k]) \cup Unfilled(binary.parts[k])
        PROVE  LET x == mapped_base + a
               IN \/ x \in DOMAIN memory /\ memory[x] = LoadedByte(binary.parts[k], a)
                  \/ a \in Filled(binary.parts[k]) /\ Overlaid(x)
                  \/ ~IsElf /\ a \in Unfilled(binary.parts[k]) /\ x \notin DOMAIN memory
    <2> DEFINE part == binary.parts[k]
    <2>1. HoldsPart(part)
      BY <1>1 DEF MapInv
    <2>2. CASE a \in Filled(part)
      BY <2>1, <2>2 DEF HoldsPart, LoadedByte
    <2>3. CASE a \notin Filled(part) /\ IsElf
      <3>1. mapped_base + a = a
        <4>1. binary \in Binaries
          BY <1>1 DEF PatchInv, FilesInv
        <4>2. a \in Nat /\ mapped_base = 0
          BY <1>1, <2>3, <4>1, Parts, Bases
        <4> QED BY <4>2
      <3> QED BY <1>1, <2>1, <2>3, <3>1 DEF HoldsPart, LoadedByte
    <2>4. CASE a \notin Filled(part) /\ ~IsElf
      <3>1. Tailless(part)
        BY <1>1, <2>4 DEF MapInv
      <3> QED BY <1>1, <2>4, <3>1 DEF Tailless
    <2> QED BY <2>2, <2>3, <2>4
  <1>2. PatchInv /\ MapInv => MappedAsLoaded
    BY <1>1 DEF MappedAsLoaded
  <1> QED BY <1>2, PatchInductive, MapInductive, PTL

-----------------------------------------------------------------------------
\* The text of the wrapper

Count == Len(Registers)

Ops == {"pass", "sub", "save", "fix_rsp", "rdi_state", "rsi_zero", "rdx_image_base", "rdfsbase",
        "save_fsbase", "call", "load", "add", "ret"}

Instruction == [op : Ops, reg : Nat]

LEMMA RegisterList == Count \in Nat /\ DOMAIN Registers = 1 .. Count /\ \A k \in 1 .. Count : Registers[k] \in Register
  BY CallConstants DEF Count

LEMMA InstrType ==
    {Instr("pass"), Instr("sub"), Instr("fix_rsp"), Instr("rdi_state"), Instr("rsi_zero"),
     Instr("rdx_image_base"), Instr("rdfsbase"), Instr("save_fsbase"), Instr("call"), Instr("add"),
     Instr("ret")} \subseteq Instruction
  BY DEF Instr, Instruction, Ops

LEMMA ShortCode ==
    ASSUME NEW a \in Instruction, NEW b \in Instruction
    PROVE  /\ <<a>> \in Seq(Instruction) /\ Len(<<a>>) = 1 /\ <<a>>[1] = a
           /\ <<a, b>> \in Seq(Instruction) /\ Len(<<a, b>>) = 2 /\ <<a, b>>[1] = a /\ <<a, b>>[2] = b
  OBVIOUS

LEMMA SixInstructions ==
    ASSUME NEW a \in Instruction, NEW b \in Instruction, NEW c \in Instruction,
           NEW d \in Instruction, NEW e \in Instruction, NEW f \in Instruction
    PROVE  /\ <<a, b, c, d, e, f>> \in Seq(Instruction) /\ Len(<<a, b, c, d, e, f>>) = 6
           /\ <<a, b, c, d, e, f>>[1] = a /\ <<a, b, c, d, e, f>>[2] = b /\ <<a, b, c, d, e, f>>[3] = c
           /\ <<a, b, c, d, e, f>>[4] = d /\ <<a, b, c, d, e, f>>[5] = e /\ <<a, b, c, d, e, f>>[6] = f
  OBVIOUS

IsJoin(s, m, t, l, u) ==
    /\ u \in Seq(Instruction)
    /\ Len(u) = m + l
    /\ \A i \in 1 .. m : u[i] = s[i]
    /\ \A i \in 1 .. l : u[m + i] = t[i]

LEMMA Joined ==
    ASSUME NEW s \in Seq(Instruction), NEW t \in Seq(Instruction)
    PROVE  IsJoin(s, Len(s), t, Len(t), s \o t)
  BY DEF IsJoin

\* the instruction for register k, if it is chosen
One(op, chosen, k) == IF chosen THEN [op |-> op, reg |-> k] ELSE Instr("pass")

LEMMA Loops ==
    /\ ForEach("save", Saved) \in Seq(Instruction) /\ ForEach("load", Restored) \in Seq(Instruction)
    /\ Len(ForEach("save", Saved)) = Count /\ Len(ForEach("load", Restored)) = Count
    /\ \A k \in 1 .. Count : ForEach("save", Saved)[k] = One("save", Moves(Registers[k]), k)
    /\ \A k \in 1 .. Count : ForEach("load", Restored)[k] = One("load", Restores(Registers[k]), k)
  <1>1. ASSUME NEW f, f = [k \in DOMAIN Registers |-> f[k]], \A k \in DOMAIN Registers : f[k] \in Instruction
        PROVE  f \in Seq(Instruction) /\ Len(f) = Count
    BY <1>1, RegisterList
  <1> DEFINE s == ForEach("save", Saved)
             l == ForEach("load", Restored)
  <1>2. /\ s = [k \in DOMAIN Registers |-> One("save", Moves(Registers[k]), k)]
        /\ l = [k \in DOMAIN Registers |-> One("load", Restores(Registers[k]), k)]
    BY DEF ForEach, One, Saved, Restored
  <1> HIDE DEF s, l
  <1>3. ASSUME NEW k \in DOMAIN Registers
        PROVE  /\ One("save", Moves(Registers[k]), k) \in Instruction
               /\ One("load", Restores(Registers[k]), k) \in Instruction
    <2>1. k \in Nat /\ Instr("pass") \in Instruction
      BY RegisterList, InstrType
    <2>2. [op |-> "save", reg |-> k] \in Instruction /\ [op |-> "load", reg |-> k] \in Instruction
      BY <2>1 DEF Instruction, Ops
    <2> QED BY <2>1, <2>2 DEF One
  <1>4. s \in Seq(Instruction) /\ Len(s) = Count
    BY <1>1, <1>2, <1>3
  <1>5. l \in Seq(Instruction) /\ Len(l) = Count
    BY <1>1, <1>2, <1>3
  <1> QED BY <1>2, <1>4, <1>5, RegisterList DEF s, l

LEMMA Code ==
    /\ Len(vexa_entry) = 2 * Count + 10
    /\ vexa_entry[1] = Instr("sub")
    /\ \A k \in 1 .. Count : vexa_entry[1 + k] = One("save", Moves(Registers[k]), k)
    /\ vexa_entry[Count + 2] = Instr("fix_rsp")
    /\ vexa_entry[Count + 3] = Instr("rdi_state")
    /\ vexa_entry[Count + 4] = Instr("rsi_zero")
    /\ vexa_entry[Count + 5] = Instr("rdx_image_base")
    /\ vexa_entry[Count + 6] = Instr("rdfsbase")
    /\ vexa_entry[Count + 7] = Instr("save_fsbase")
    /\ vexa_entry[Count + 8] = Instr("call")
    /\ \A k \in 1 .. Count : vexa_entry[(Count + 8) + k] = One("load", Restores(Registers[k]), k)
    /\ vexa_entry[2 * Count + 9] = Instr("add")
    /\ vexa_entry[2 * Count + 10] = Instr("ret")
  <1> DEFINE sub == <<Instr("sub")>>
             saves == ForEach("save", Saved)
             loads == ForEach("load", Restored)
             setup == <<Instr("fix_rsp"), Instr("rdi_state"), Instr("rsi_zero"), Instr("rdx_image_base"),
                        Instr("rdfsbase"), Instr("save_fsbase")>>
             call == <<Instr("call")>>
             end == <<Instr("add"), Instr("ret")>>
             head == sub \o saves
             before == head \o setup
             called == before \o call
             after == loads \o end
  <1>1. vexa_entry = called \o after
    BY DEF vexa_entry, Prologue, Epilogue
  <1>2. /\ sub \in Seq(Instruction) /\ Len(sub) = 1 /\ sub[1] = Instr("sub")
        /\ call \in Seq(Instruction) /\ Len(call) = 1 /\ call[1] = Instr("call")
    BY InstrType, ShortCode
  <1>3. end \in Seq(Instruction) /\ Len(end) = 2 /\ end[1] = Instr("add") /\ end[2] = Instr("ret")
    BY InstrType, ShortCode
  <1>4. /\ setup \in Seq(Instruction) /\ Len(setup) = 6
        /\ setup[1] = Instr("fix_rsp") /\ setup[2] = Instr("rdi_state") /\ setup[3] = Instr("rsi_zero")
        /\ setup[4] = Instr("rdx_image_base") /\ setup[5] = Instr("rdfsbase")
        /\ setup[6] = Instr("save_fsbase")
    BY InstrType, SixInstructions
  <1>5. /\ saves \in Seq(Instruction) /\ Len(saves) = Count
        /\ loads \in Seq(Instruction) /\ Len(loads) = Count
        /\ \A k \in 1 .. Count : saves[k] = One("save", Moves(Registers[k]), k)
        /\ \A k \in 1 .. Count : loads[k] = One("load", Restores(Registers[k]), k)
    BY Loops
  <1>6. Count \in Nat
    BY RegisterList
  <1> HIDE DEF sub, saves, loads, setup, call, end
  <1>7. IsJoin(sub, 1, saves, Count, head)
    <2>1. IsJoin(sub, Len(sub), saves, Len(saves), head)
      BY <1>2, <1>5, Joined
    <2> QED BY <1>2, <1>5, <2>1
  <1> HIDE DEF head
  <1>8. IsJoin(head, 1 + Count, setup, 6, before)
    <2>1. head \in Seq(Instruction) /\ Len(head) = 1 + Count
      BY <1>7 DEF IsJoin
    <2>2. IsJoin(head, Len(head), setup, Len(setup), before)
      BY <1>4, <2>1, Joined
    <2> QED BY <1>4, <2>1, <2>2
  <1> HIDE DEF before
  <1>9. IsJoin(before, Count + 7, call, 1, called)
    <2>1. before \in Seq(Instruction) /\ Len(before) = Count + 7
      BY <1>6, <1>8 DEF IsJoin
    <2>2. IsJoin(before, Len(before), call, Len(call), called)
      BY <1>2, <2>1, Joined
    <2> QED BY <1>2, <2>1, <2>2
  <1> HIDE DEF called
  <1>10. IsJoin(loads, Count, end, 2, after)
    <2>1. IsJoin(loads, Len(loads), end, Len(end), after)
      BY <1>3, <1>5, Joined
    <2> QED BY <1>3, <1>5, <2>1
  <1> HIDE DEF after
  <1>11. IsJoin(called, Count + 8, after, Count + 2, vexa_entry)
    <2>1. /\ called \in Seq(Instruction) /\ Len(called) = Count + 8
          /\ after \in Seq(Instruction) /\ Len(after) = Count + 2
      BY <1>6, <1>9, <1>10 DEF IsJoin
    <2>2. IsJoin(called, Len(called), after, Len(after), vexa_entry)
      BY <1>1, <2>1, Joined
    <2> QED BY <2>1, <2>2
  <1>12. /\ Len(vexa_entry) = 2 * Count + 10
         /\ \A i \in 1 .. Count + 8 : vexa_entry[i] = called[i]
         /\ \A i \in 1 .. Count + 2 : vexa_entry[(Count + 8) + i] = after[i]
    BY <1>6, <1>11 DEF IsJoin
  <1>13. \A i \in 1 .. Count + 7 : vexa_entry[i] = before[i]
    BY <1>6, <1>9, <1>12 DEF IsJoin
  <1>14. \A i \in 1 .. 1 + Count : vexa_entry[i] = head[i]
    BY <1>6, <1>8, <1>13 DEF IsJoin
  <1>15. \A i \in 1 .. 6 : vexa_entry[(1 + Count) + i] = setup[i]
    BY <1>6, <1>8, <1>13 DEF IsJoin
  <1>16. vexa_entry[1] = Instr("sub")
    BY <1>2, <1>6, <1>7, <1>14 DEF IsJoin
  <1>17. \A k \in 1 .. Count : vexa_entry[1 + k] = One("save", Moves(Registers[k]), k)
    BY <1>5, <1>6, <1>7, <1>14 DEF IsJoin
  <1>18. /\ vexa_entry[(1 + Count) + 1] = setup[1]
         /\ vexa_entry[(1 + Count) + 2] = setup[2]
         /\ vexa_entry[(1 + Count) + 3] = setup[3]
         /\ vexa_entry[(1 + Count) + 4] = setup[4]
         /\ vexa_entry[(1 + Count) + 5] = setup[5]
         /\ vexa_entry[(1 + Count) + 6] = setup[6]
    BY <1>15
  <1>19. /\ (1 + Count) + 1 = Count + 2 /\ (1 + Count) + 2 = Count + 3 /\ (1 + Count) + 3 = Count + 4
         /\ (1 + Count) + 4 = Count + 5 /\ (1 + Count) + 5 = Count + 6 /\ (1 + Count) + 6 = Count + 7
    BY <1>6
  <1>20. called[(Count + 7) + 1] = call[1] /\ (Count + 7) + 1 = Count + 8
    BY <1>6, <1>9 DEF IsJoin
  <1>21. vexa_entry[Count + 8] = Instr("call")
    BY <1>2, <1>6, <1>12, <1>20
  <1>22. \A k \in 1 .. Count : vexa_entry[(Count + 8) + k] = One("load", Restores(Registers[k]), k)
    BY <1>5, <1>6, <1>10, <1>12 DEF IsJoin
  <1>23. after[Count + 1] = end[1] /\ after[Count + 2] = end[2]
    BY <1>10 DEF IsJoin
  <1>24. /\ vexa_entry[(Count + 8) + (Count + 1)] = end[1]
         /\ vexa_entry[(Count + 8) + (Count + 2)] = end[2]
    <2>1. Count + 1 \in 1 .. Count + 2 /\ Count + 2 \in 1 .. Count + 2
      BY <1>6
    <2> QED BY <1>12, <1>23, <2>1
  <1>25. (Count + 8) + (Count + 1) = 2 * Count + 9 /\ (Count + 8) + (Count + 2) = 2 * Count + 10
    BY <1>6
  <1>26. vexa_entry[2 * Count + 9] = Instr("add") /\ vexa_entry[2 * Count + 10] = Instr("ret")
    BY <1>3, <1>24, <1>25
  <1>27. /\ vexa_entry[Count + 2] = Instr("fix_rsp")
         /\ vexa_entry[Count + 3] = Instr("rdi_state")
         /\ vexa_entry[Count + 4] = Instr("rsi_zero")
         /\ vexa_entry[Count + 5] = Instr("rdx_image_base")
         /\ vexa_entry[Count + 6] = Instr("rdfsbase")
         /\ vexa_entry[Count + 7] = Instr("save_fsbase")
    BY <1>4, <1>18, <1>19
  <1> QED BY <1>12, <1>16, <1>17, <1>21, <1>22, <1>26, <1>27

-----------------------------------------------------------------------------
\* The invariants of a call

\* the place of register k in the State
PlaceOf(k) == StateAt + Registers[k].offset

\* what the prologue has saved: RSP as it was, once it is fixed
SavedInv ==
    \A k \in 1 .. Count :
        Moves(Registers[k]) /\ k + 1 < at =>
            stack[PlaceOf(k)] = IF Registers[k].name = "RSP" /\ at <= Count + 2 THEN StateAt
                                ELSE CallerValue(Registers[k].name)

\* the processor's registers in the prologue, which needs some of them itself
ArgumentsInv ==
    /\ processor["RSP"] = IF at = 1 THEN StackTop ELSE StateAt
    /\ processor["FSBASE"] = CallerValue("FSBASE")
    /\ at <= Count + 3 => \A name \in Names : name # "RSP" => processor[name] = CallerValue(name)
    /\ at > Count + 3 => processor["RDI"] = StateAt
    /\ at > Count + 4 => processor["RSI"] = 0
    /\ at > Count + 5 => processor["RDX"] = ImageBaseOperand
    /\ at = Count + 7 => processor["RAX"] = CallerValue("FSBASE")
    /\ at > Count + 7 => stack[StateAt + Offset("FSBASE")] = CallerValue("FSBASE")

\* what the epilogue has loaded
LoadedInv ==
    /\ processor["RSP"] = IF at = 2 * Count + 10 THEN StackTop ELSE StateAt
    /\ \A k \in 1 .. Count :
          Restores(Registers[k]) /\ Count + 8 + k < at => processor[Registers[k].name] = stack[PlaceOf(k)]

FrameInv ==
    /\ DOMAIN processor = Names
    /\ DOMAIN stack = StateAt - 1 .. StackTop
    /\ stack[StackTop] = ReturnAddress

WrapperInv ==
    phase = "wrapper" =>
        /\ FrameInv
        /\ at \in 1 .. 2 * Count + 10
        /\ at <= Count + 8 => SavedInv /\ ArgumentsInv
        /\ at > Count + 8 => LoadedInv

LiftedInv ==
    phase = "lifted" =>
        /\ FrameInv
        /\ processor["RSP"] = StateAt - 1
        /\ stack[StateAt - 1] = Count + 9
        /\ processor["RDX"] = ImageBaseOperand
        /\ RegistersReachLifted

AccessInv ==
    accessed # NoAccess =>
        /\ phase \in {"wrapper", "lifted", "returned"}
        /\ accessed.va \in Int
        /\ ~OnStack(accessed.va) => accessed.where = ImageBaseOperand + accessed.va

CallInv == WrapperInv /\ LiftedInv /\ AccessInv /\ RegistersComeBack

-----------------------------------------------------------------------------
LEMMA Sizes == StackTop \in Nat /\ StateSize \in Nat \ {0} /\ StateAt \in Int /\ StateAt + StateSize = StackTop
               /\ StateAt < StackTop
  BY CallConstants DEF StateAt

LEMMA OffsetOf ==
    ASSUME NEW k \in 1 .. Count
    PROVE  Offset(Registers[k].name) = Registers[k].offset
  <1>1. \A j \in DOMAIN Registers : Registers[j].name = Registers[k].name => j = k
    BY RegisterList, CallConstants
  <1>2. (CHOOSE j \in DOMAIN Registers : Registers[j].name = Registers[k].name) = k
    BY <1>1, RegisterList
  <1> QED BY <1>2 DEF Offset

\* places in the State, all inside the frame
LEMMA Places ==
    ASSUME NEW k \in 1 .. Count
    PROVE  /\ Registers[k].offset \in Nat
           /\ PlaceOf(k) \in StateAt .. StackTop - 1
           /\ StateAt + Offset(Registers[k].name) = PlaceOf(k)
  <1>1. Registers[k].offset \in Nat /\ Registers[k].offset < StateSize
    BY RegisterList, CallConstants DEF Register
  <1> QED BY <1>1, Sizes, OffsetOf DEF PlaceOf

LEMMA OwnPlaces ==
    ASSUME NEW j \in 1 .. Count, NEW k \in 1 .. Count, j # k, Moves(Registers[j]),
           Moves(Registers[k]) \/ Registers[k].name = "FSBASE"
    PROVE  PlaceOf(j) # PlaceOf(k)
  <1>1. Registers[j].offset # Registers[k].offset
    BY RegisterList, CallConstants
  <1> QED BY <1>1, Places, Sizes DEF PlaceOf

LEMMA Registered ==
    ASSUME NEW name \in {"RAX", "RDI", "RSI", "RDX", "RSP", "SP", "FSBASE"}
    PROVE  name \in Names /\ \E k \in 1 .. Count : Registers[k].name = name
  BY CallConstants, RegisterList DEF Names

LEMMA NamesOf == \A k \in 1 .. Count : Registers[k].name \in Names
  BY RegisterList DEF Names

LEMMA OperandKept ==
    ASSUME UNCHANGED <<binary, object, section_offsets, fields, segment, load_base>>
    PROVE  ImageBaseOperand' = ImageBaseOperand
  BY DEF ImageBaseOperand, Operand, PatchOffset, IsImageBase, Runtime, image_base, Int32, FieldSize,
         RelativeTypes

-----------------------------------------------------------------------------
\* One instruction of the wrapper

LEMMA Positions ==
    ASSUME NEW p \in 1 .. 2 * Count + 10
    PROVE  \/ p = 1 \/ \E k \in 1 .. Count : p = 1 + k
           \/ p \in Count + 2 .. Count + 8
           \/ \E k \in 1 .. Count : p = (Count + 8) + k
           \/ p = 2 * Count + 9 \/ p = 2 * Count + 10
  <1>1. Count \in Nat /\ p \in Nat
    BY RegisterList
  <1>2. CASE p \in 2 .. Count + 1
    <2>1. p - 1 \in 1 .. Count /\ p = 1 + (p - 1)
      BY <1>1, <1>2
    <2> QED BY <2>1
  <1>3. CASE p \in Count + 9 .. 2 * Count + 8
    <2>1. p - (Count + 8) \in 1 .. Count /\ p = (Count + 8) + (p - (Count + 8))
      BY <1>1, <1>3
    <2> QED BY <2>1
  <1> QED BY <1>1, <1>2, <1>3

LEMMA SaveEffect ==
    ASSUME WrapperStep, NEW k \in 1 .. Count, at = 1 + k
    PROVE  /\ at' = at + 1 /\ processor' = processor
           /\ ~Moves(Registers[k]) => stack' = stack
           /\ Moves(Registers[k]) =>
                 stack' = [stack EXCEPT ![processor["RSP"] + Registers[k].offset] = processor[Registers[k].name]]
  <1>1. vexa_entry[at] = One("save", Moves(Registers[k]), k)
    BY Code
  <1>2. CASE Moves(Registers[k])
    <2>1. vexa_entry[at].op = "save" /\ vexa_entry[at].reg = k
      BY <1>1, <1>2 DEF One
    <2> QED BY <1>2, <2>1 DEF WrapperStep
  <1>3. CASE ~Moves(Registers[k])
    <2>1. vexa_entry[at].op = "pass"
      BY <1>1, <1>3 DEF One, Instr
    <2> QED BY <1>3, <2>1 DEF WrapperStep
  <1> QED BY <1>2, <1>3

LEMMA LoadEffect ==
    ASSUME WrapperStep, NEW k \in 1 .. Count, at = (Count + 8) + k
    PROVE  /\ at' = at + 1 /\ stack' = stack
           /\ ~Restores(Registers[k]) => processor' = processor
           /\ Restores(Registers[k]) =>
                 processor' = [processor EXCEPT ![Registers[k].name] = stack[processor["RSP"] + Registers[k].offset]]
  <1>1. vexa_entry[at] = One("load", Restores(Registers[k]), k)
    BY Code
  <1>2. CASE Restores(Registers[k])
    <2>1. vexa_entry[at].op = "load" /\ vexa_entry[at].reg = k
      BY <1>1, <1>2 DEF One
    <2> QED BY <1>2, <2>1 DEF WrapperStep
  <1>3. CASE ~Restores(Registers[k])
    <2>1. vexa_entry[at].op = "pass"
      BY <1>1, <1>3 DEF One, Instr
    <2> QED BY <1>3, <2>1 DEF WrapperStep
  <1> QED BY <1>2, <1>3

LEMMA FixedEffects ==
    ASSUME WrapperStep
    PROVE  /\ at' = at + 1
           /\ at = 1 => processor' = [processor EXCEPT !["RSP"] = processor["RSP"] - StateSize] /\ stack' = stack
           /\ at = Count + 2 =>
                 stack' = [stack EXCEPT ![processor["RSP"] + Offset("SP")] = @ + StateSize] /\ processor' = processor
           /\ at = Count + 3 => processor' = [processor EXCEPT !["RDI"] = processor["RSP"]] /\ stack' = stack
           /\ at = Count + 4 => processor' = [processor EXCEPT !["RSI"] = 0] /\ stack' = stack
           /\ at = Count + 5 => processor' = [processor EXCEPT !["RDX"] = ImageBaseOperand] /\ stack' = stack
           /\ at = Count + 6 => processor' = [processor EXCEPT !["RAX"] = processor["FSBASE"]] /\ stack' = stack
           /\ at = Count + 7 =>
                 stack' = [stack EXCEPT ![processor["RSP"] + Offset("FSBASE")] = processor["RAX"]] /\ processor' = processor
           /\ at # Count + 8 /\ at # 2 * Count + 10
           /\ at = 2 * Count + 9 => processor' = [processor EXCEPT !["RSP"] = processor["RSP"] + StateSize] /\ stack' = stack
  <1>1. ASSUME NEW op, vexa_entry[at] = Instr(op)
        PROVE  vexa_entry[at].op = op
    BY <1>1 DEF Instr
  <1>2. at = 1 => vexa_entry[at].op = "sub"
    BY <1>1, Code
  <1>3. at = Count + 2 => vexa_entry[at].op = "fix_rsp"
    BY <1>1, Code
  <1>4. at = Count + 3 => vexa_entry[at].op = "rdi_state"
    BY <1>1, Code
  <1>5. at = Count + 4 => vexa_entry[at].op = "rsi_zero"
    BY <1>1, Code
  <1>6. at = Count + 5 => vexa_entry[at].op = "rdx_image_base"
    BY <1>1, Code
  <1>7. at = Count + 6 => vexa_entry[at].op = "rdfsbase"
    BY <1>1, Code
  <1>8. at = Count + 7 => vexa_entry[at].op = "save_fsbase"
    BY <1>1, Code
  <1>9. at = Count + 8 => vexa_entry[at].op = "call"
    BY <1>1, Code
  <1>10. at = 2 * Count + 9 => vexa_entry[at].op = "add"
    BY <1>1, Code
  <1>11. at = 2 * Count + 10 => vexa_entry[at].op = "ret"
    BY <1>1, Code
  <1>12. at' = at + 1 /\ at # Count + 8 /\ at # 2 * Count + 10
    BY <1>9, <1>11 DEF WrapperStep
  <1>13. at = 1 => processor' = [processor EXCEPT !["RSP"] = processor["RSP"] - StateSize] /\ stack' = stack
    BY <1>2 DEF WrapperStep
  <1>14. at = Count + 2 =>
            stack' = [stack EXCEPT ![processor["RSP"] + Offset("SP")] = @ + StateSize] /\ processor' = processor
    BY <1>3 DEF WrapperStep
  <1>15. at = Count + 3 => processor' = [processor EXCEPT !["RDI"] = processor["RSP"]] /\ stack' = stack
    BY <1>4 DEF WrapperStep
  <1>16. at = Count + 4 => processor' = [processor EXCEPT !["RSI"] = 0] /\ stack' = stack
    BY <1>5 DEF WrapperStep
  <1>17. at = Count + 5 => processor' = [processor EXCEPT !["RDX"] = ImageBaseOperand] /\ stack' = stack
    BY <1>6 DEF WrapperStep
  <1>18. at = Count + 6 => processor' = [processor EXCEPT !["RAX"] = processor["FSBASE"]] /\ stack' = stack
    BY <1>7 DEF WrapperStep
  <1>19. at = Count + 7 =>
            stack' = [stack EXCEPT ![processor["RSP"] + Offset("FSBASE")] = processor["RAX"]] /\ processor' = processor
    BY <1>8 DEF WrapperStep
  <1>20. at = 2 * Count + 9 => processor' = [processor EXCEPT !["RSP"] = processor["RSP"] + StateSize] /\ stack' = stack
    BY <1>10 DEF WrapperStep
  <1> QED BY <1>12, <1>13, <1>14, <1>15, <1>16, <1>17, <1>18, <1>19, <1>20

\* the prologue up to the registers' last save
LEMMA SaveStep ==
    ASSUME WrapperInv, WrapperStep, phase = "wrapper", NEW k \in 1 .. Count, at = 1 + k
    PROVE  FrameInv' /\ SavedInv' /\ ArgumentsInv'
  <1>1. Count \in Nat /\ k \in Nat /\ at \in Nat /\ at <= Count + 1 /\ at # 1
    BY RegisterList
  <1>2. FrameInv /\ SavedInv /\ ArgumentsInv
    BY <1>1 DEF WrapperInv
  <1>3. processor["RSP"] = StateAt
    BY <1>1, <1>2 DEF ArgumentsInv
  <1>4. at' = at + 1 /\ processor' = processor
    BY SaveEffect
  <1>5. PlaceOf(k) \in StateAt .. StackTop - 1 /\ PlaceOf(k) \in DOMAIN stack /\ PlaceOf(k) # StackTop
        /\ processor["RSP"] + Registers[k].offset = PlaceOf(k)
    BY <1>2, <1>3, Places, Sizes DEF FrameInv, PlaceOf
  <1>6. /\ ~Moves(Registers[k]) => stack' = stack
        /\ Moves(Registers[k]) => stack' = [stack EXCEPT ![PlaceOf(k)] = processor[Registers[k].name]]
    BY <1>5, SaveEffect
  <1>7. FrameInv'
    <2>1. DOMAIN stack' = DOMAIN stack
      BY <1>6
    <2>2. stack'[StackTop] = stack[StackTop]
      <3>1. CASE Moves(Registers[k])
        BY <1>2, <1>5, <1>6, <3>1, Sizes DEF FrameInv
      <3>2. CASE ~Moves(Registers[k])
        BY <1>6, <3>2
      <3> QED BY <3>1, <3>2
    <2> QED BY <1>2, <1>4, <2>1, <2>2 DEF FrameInv, StateAt
  <1>8. ArgumentsInv'
    BY <1>1, <1>2, <1>4 DEF ArgumentsInv, CallerValue
  <1>9. ASSUME NEW j \in 1 .. Count, Moves(Registers[j]), j + 1 < at + 1
        PROVE  stack'[PlaceOf(j)] = IF Registers[j].name = "RSP" THEN StateAt ELSE CallerValue(Registers[j].name)
    <2>1. CASE j = k
      <3>1. stack'[PlaceOf(j)] = processor[Registers[j].name]
        BY <1>5, <1>6, <1>9, <2>1
      <3>2. Registers[j].name \in Names
        BY NamesOf
      <3> QED BY <1>1, <1>2, <1>3, <3>1, <3>2 DEF ArgumentsInv
    <2>2. CASE j # k
      <3>1. j + 1 < at
        BY <1>1, <1>9, <2>2
      <3>2. stack[PlaceOf(j)] = IF Registers[j].name = "RSP" THEN StateAt ELSE CallerValue(Registers[j].name)
        BY <1>1, <1>2, <1>9, <3>1 DEF SavedInv
      <3>3. Moves(Registers[k]) => PlaceOf(j) # PlaceOf(k)
        BY <1>9, <2>2, OwnPlaces
      <3>4. PlaceOf(j) \in DOMAIN stack
        BY <1>2, Places, Sizes DEF FrameInv
      <3> QED BY <1>6, <3>2, <3>3, <3>4
    <2> QED BY <2>1, <2>2
  <1>10. SavedInv'
    <2>1. at' <= Count + 2
      BY <1>1, <1>4
    <2> QED BY <1>4, <1>9, <2>1 DEF SavedInv, PlaceOf, StateAt, CallerValue
  <1> QED BY <1>7, <1>8, <1>10

\* the other instructions of the prologue
LEMMA SetupStep ==
    ASSUME WrapperInv, WrapperStep, phase = "wrapper", at \in {1} \cup (Count + 2 .. Count + 7)
    PROVE  FrameInv' /\ SavedInv' /\ ArgumentsInv'
  <1>1. Count \in Nat /\ at \in Nat /\ at <= Count + 7
    BY RegisterList
  <1>2. FrameInv /\ SavedInv /\ ArgumentsInv
    BY <1>1 DEF WrapperInv
  <1>3. at' = at + 1
    BY FixedEffects
  <1>4. ImageBaseOperand' = ImageBaseOperand
    BY OperandKept DEF WrapperStep, vars
  <1>5. {"RAX", "RDI", "RSI", "RDX", "RSP", "FSBASE"} \subseteq DOMAIN processor
    BY <1>2, Registered DEF FrameInv
  <1>6. CASE at = 1
    <2>1. /\ processor' = [processor EXCEPT !["RSP"] = StackTop - StateSize] /\ stack' = stack
          /\ processor["RSP"] = StackTop
      BY <1>2, <1>6, FixedEffects DEF ArgumentsInv
    <2>2. FrameInv'
      BY <1>2, <2>1 DEF FrameInv, StateAt
    <2>3. SavedInv'
      BY <1>3, <1>6 DEF SavedInv
    <2>4. ArgumentsInv'
      <3>1. processor'["RSP"] = StateAt /\ \A name \in Names : name # "RSP" => processor'[name] = CallerValue(name)
        BY <1>1, <1>2, <1>5, <1>6, <2>1 DEF ArgumentsInv, FrameInv, StateAt
      <3>2. "FSBASE" \in Names /\ at' = 2
        BY <1>3, <1>6, Registered
      <3> QED BY <1>1, <3>1, <3>2 DEF ArgumentsInv, StateAt, CallerValue
    <2> QED BY <2>2, <2>3, <2>4
  <1>7. CASE at = Count + 2
    <2>1. PICK k \in 1 .. Count : Registers[k].name = "RSP"
      BY Registered
    <2>2. Moves(Registers[k]) /\ k + 1 < at /\ PlaceOf(k) = StateAt + Offset("SP")
      <3>1. Moves(Registers[k]) /\ Offset("SP") = Offset("RSP")
        BY <2>1, RegisterList, CallConstants
      <3>2. Offset("RSP") = Registers[k].offset
        BY <2>1, OffsetOf
      <3> QED BY <1>1, <1>7, <3>1, <3>2 DEF PlaceOf
    <2>3. stack[PlaceOf(k)] = StateAt /\ processor["RSP"] = StateAt
      BY <1>1, <1>2, <1>7, <2>1, <2>2 DEF SavedInv, ArgumentsInv
    <2>4. PlaceOf(k) \in DOMAIN stack /\ PlaceOf(k) # StackTop
      BY <1>2, Places, Sizes DEF FrameInv
    <2>5. stack' = [stack EXCEPT ![PlaceOf(k)] = StackTop] /\ processor' = processor
      BY <1>7, <2>2, <2>3, FixedEffects, Sizes
    <2>6. FrameInv'
      BY <1>2, <2>4, <2>5 DEF FrameInv, StateAt
    <2>7. ASSUME NEW j \in 1 .. Count, Moves(Registers[j])
          PROVE  stack'[PlaceOf(j)] = CallerValue(Registers[j].name)
      <3>1. PlaceOf(j) \in DOMAIN stack
        BY <1>2, Places, Sizes DEF FrameInv
      <3>2. CASE j = k
        BY <2>1, <2>4, <2>5, <3>2 DEF CallerValue
      <3>3. CASE j # k
        <4>1. PlaceOf(j) # PlaceOf(k)
          BY <2>2, <2>7, <3>3, OwnPlaces
        <4>2. Registers[j].name # "RSP"
          BY <2>1, <3>3, RegisterList, CallConstants
        <4>3. stack[PlaceOf(j)] = CallerValue(Registers[j].name)
          BY <1>1, <1>2, <1>7, <2>7, <4>2 DEF SavedInv
        <4> QED BY <2>5, <3>1, <4>1, <4>3
      <3> QED BY <3>2, <3>3
    <2>8. SavedInv'
      BY <1>1, <1>3, <1>7, <2>7 DEF SavedInv, PlaceOf, StateAt, CallerValue
    <2>9. ArgumentsInv'
      BY <1>1, <1>2, <1>3, <1>7, <2>5 DEF ArgumentsInv, CallerValue
    <2> QED BY <2>6, <2>8, <2>9
  <1>8. CASE at \in Count + 3 .. Count + 6
    <2>1. /\ stack' = stack
          /\ processor' = [processor EXCEPT !["RDI"] = processor["RSP"]]
             \/ processor' = [processor EXCEPT !["RSI"] = 0]
             \/ processor' = [processor EXCEPT !["RDX"] = ImageBaseOperand]
             \/ processor' = [processor EXCEPT !["RAX"] = processor["FSBASE"]]
      BY <1>1, <1>8, FixedEffects
    <2>2. FrameInv'
      BY <1>2, <2>1 DEF FrameInv, StateAt
    <2>3. SavedInv'
      <3>1. \A k \in 1 .. Count : k \in Nat /\ k + 1 < at
        BY <1>1, <1>8
      <3>2. ~(at <= Count + 2) /\ ~(at' <= Count + 2)
        BY <1>1, <1>3, <1>8
      <3>3. \A k \in 1 .. Count : Moves(Registers[k]) => stack'[PlaceOf(k)] = CallerValue(Registers[k].name)
        BY <1>2, <2>1, <3>1, <3>2 DEF SavedInv
      <3> QED BY <3>2, <3>3 DEF SavedInv, PlaceOf, StateAt, CallerValue
    <2>4. ArgumentsInv'
      <3>0. processor["RSP"] = StateAt /\ processor["FSBASE"] = CallerValue("FSBASE")
        BY <1>1, <1>2, <1>8 DEF ArgumentsInv
      <3>1. CASE at = Count + 3
        <4>1. processor' = [processor EXCEPT !["RDI"] = StateAt]
          BY <3>0, <3>1, FixedEffects
        <4>2. at' = Count + 4 /\ ~(at' <= Count + 3) /\ ~(at' > Count + 4) /\ ~(at' > Count + 5) /\ ~(at' > Count + 7)
              /\ at' # Count + 7 /\ at' # 1
          BY <1>1, <1>3, <3>1
        <4> QED BY <1>5, <3>0, <4>1, <4>2 DEF ArgumentsInv, StateAt, CallerValue
      <3>2. CASE at = Count + 4
        <4>1. processor' = [processor EXCEPT !["RSI"] = 0] /\ processor["RDI"] = StateAt
          BY <1>1, <1>2, <3>2, FixedEffects DEF ArgumentsInv
        <4>2. ~(at' <= Count + 3) /\ ~(at' > Count + 5) /\ ~(at' > Count + 7) /\ at' # Count + 7 /\ at' # 1
          BY <1>1, <1>3, <3>2
        <4> QED BY <1>5, <3>0, <4>1, <4>2 DEF ArgumentsInv, StateAt, CallerValue
      <3>3. CASE at = Count + 5
        <4>1. /\ processor' = [processor EXCEPT !["RDX"] = ImageBaseOperand]
              /\ processor["RDI"] = StateAt /\ processor["RSI"] = 0
          BY <1>1, <1>2, <3>3, FixedEffects DEF ArgumentsInv
        <4>2. ~(at' <= Count + 3) /\ ~(at' > Count + 7) /\ at' # Count + 7 /\ at' # 1
          BY <1>1, <1>3, <3>3
        <4> QED BY <1>4, <1>5, <3>0, <4>1, <4>2 DEF ArgumentsInv, StateAt, CallerValue
      <3>4. CASE at = Count + 6
        <4>1. /\ processor' = [processor EXCEPT !["RAX"] = CallerValue("FSBASE")]
              /\ processor["RDI"] = StateAt /\ processor["RSI"] = 0 /\ processor["RDX"] = ImageBaseOperand
          BY <1>1, <1>2, <3>0, <3>4, FixedEffects DEF ArgumentsInv
        <4>2. ~(at' <= Count + 3) /\ ~(at' > Count + 7) /\ at' # 1
          BY <1>1, <1>3, <3>4
        <4> QED BY <1>4, <1>5, <3>0, <4>1, <4>2 DEF ArgumentsInv, StateAt, CallerValue
      <3> QED BY <1>1, <1>8, <3>1, <3>2, <3>3, <3>4
    <2> QED BY <2>2, <2>3, <2>4
  <1>9. CASE at = Count + 7
    <2>1. PICK k \in 1 .. Count : Registers[k].name = "FSBASE"
      BY Registered
    <2>2. StateAt + Offset("FSBASE") = PlaceOf(k)
      BY <2>1, Places
    <2>3. processor["RSP"] = StateAt /\ processor["RAX"] = CallerValue("FSBASE")
      BY <1>1, <1>2, <1>9 DEF ArgumentsInv
    <2>4. PlaceOf(k) \in DOMAIN stack /\ PlaceOf(k) # StackTop
      BY <1>2, Places, Sizes DEF FrameInv
    <2>5. stack' = [stack EXCEPT ![PlaceOf(k)] = CallerValue("FSBASE")] /\ processor' = processor
      BY <1>9, <2>2, <2>3, FixedEffects
    <2>6. FrameInv'
      BY <1>2, <2>4, <2>5 DEF FrameInv, StateAt
    <2>7. ASSUME NEW j \in 1 .. Count, Moves(Registers[j])
          PROVE  stack'[PlaceOf(j)] = CallerValue(Registers[j].name)
      <3>1. PlaceOf(j) \in DOMAIN stack
        BY <1>2, Places, Sizes DEF FrameInv
      <3>2. j # k
        BY <2>1, <2>7, RegisterList, CallConstants
      <3>3. PlaceOf(j) # PlaceOf(k)
        BY <2>1, <2>7, <3>2, OwnPlaces
      <3>4. stack[PlaceOf(j)] = CallerValue(Registers[j].name)
        <4>1. j + 1 < at /\ ~(at <= Count + 2)
          BY <1>1, <1>9
        <4> QED BY <1>2, <2>7, <4>1 DEF SavedInv
      <3> QED BY <2>5, <3>1, <3>3, <3>4
    <2>8. SavedInv'
      <3>1. ~(at' <= Count + 2)
        BY <1>1, <1>3, <1>9
      <3> QED BY <2>7, <3>1 DEF SavedInv, PlaceOf, StateAt, CallerValue
    <2>9. ArgumentsInv'
      <3>1. stack'[StateAt + Offset("FSBASE")] = CallerValue("FSBASE")
        BY <2>2, <2>4, <2>5
      <3>2. ~(at' <= Count + 3) /\ at' # Count + 7 /\ at' # 1
        BY <1>1, <1>3, <1>9
      <3>3. processor["RDI"] = StateAt /\ processor["RSI"] = 0 /\ processor["RDX"] = ImageBaseOperand
            /\ processor["FSBASE"] = CallerValue("FSBASE")
        BY <1>1, <1>2, <1>9 DEF ArgumentsInv
      <3> QED BY <1>4, <2>3, <2>5, <3>1, <3>2, <3>3 DEF ArgumentsInv, StateAt, CallerValue
    <2> QED BY <2>6, <2>8, <2>9
  <1> QED BY <1>1, <1>6, <1>7, <1>8, <1>9

\* the epilogue
LEMMA LoadStep ==
    ASSUME WrapperInv, WrapperStep, phase = "wrapper", at > Count + 8, at \in Nat
    PROVE  FrameInv' /\ LoadedInv' /\ at' \in Count + 9 .. 2 * Count + 10
  <1>1. Count \in Nat /\ at' = at + 1 /\ at # 2 * Count + 10
    BY RegisterList, FixedEffects
  <1>2. FrameInv /\ LoadedInv /\ at \in Count + 9 .. 2 * Count + 10
    BY <1>1 DEF WrapperInv
  <1>3. processor["RSP"] = StateAt
    BY <1>1, <1>2 DEF LoadedInv
  <1>4. at' \in Count + 9 .. 2 * Count + 10
    BY <1>1, <1>2
  <1>5. CASE at = 2 * Count + 9
    <2>1. processor' = [processor EXCEPT !["RSP"] = StackTop] /\ stack' = stack
      BY <1>3, <1>5, FixedEffects, Sizes
    <2>2. FrameInv'
      BY <1>2, <2>1 DEF FrameInv, StateAt
    <2>3. processor'["RSP"] = StackTop /\ at' = 2 * Count + 10
      <3>1. "RSP" \in DOMAIN processor
        BY <1>2, Registered DEF FrameInv
      <3>2. processor'["RSP"] = StackTop
        BY <2>1, <3>1
      <3>3. at' = 2 * Count + 10
        BY <1>1, <1>5
      <3> QED BY <3>2, <3>3
    <2>4. ASSUME NEW j \in 1 .. Count, Restores(Registers[j])
          PROVE  processor'[Registers[j].name] = stack'[PlaceOf(j)]
      <3>1. Count + 8 + j < at
        BY <1>1, <1>5
      <3>2. Registers[j].name # "RSP" /\ Registers[j].name \in DOMAIN processor
        BY <1>2, <2>4, NamesOf DEF Restores, FrameInv
      <3> QED BY <1>2, <2>1, <2>4, <3>1, <3>2 DEF LoadedInv
    <2>5. LoadedInv'
      BY <2>3, <2>4 DEF LoadedInv, PlaceOf, StateAt
    <2> QED BY <1>4, <2>2, <2>5
  <1>6. CASE at # 2 * Count + 9
    <2>1. PICK k \in 1 .. Count : at = (Count + 8) + k
      <3>1. at - (Count + 8) \in 1 .. Count /\ at = (Count + 8) + (at - (Count + 8))
        BY <1>1, <1>2, <1>6
      <3> QED BY <3>1
    <2>2. stack' = stack /\ (~Restores(Registers[k]) => processor' = processor)
      BY <2>1, LoadEffect
    <2>3. Restores(Registers[k]) => processor' = [processor EXCEPT ![Registers[k].name] = stack[PlaceOf(k)]]
      BY <1>3, <2>1, LoadEffect DEF PlaceOf
    <2>4. FrameInv'
      <3>1. DOMAIN processor' = DOMAIN processor
        BY <2>2, <2>3
      <3> QED BY <1>2, <2>2, <3>1 DEF FrameInv, StateAt
    <2>5. processor'["RSP"] = StateAt /\ at' # 2 * Count + 10
      <3>1. Restores(Registers[k]) => Registers[k].name # "RSP"
        BY DEF Restores
      <3>2. processor'["RSP"] = processor["RSP"]
        <4>1. CASE Restores(Registers[k])
          BY <1>2, <2>3, <3>1, <4>1, Registered DEF FrameInv
        <4>2. CASE ~Restores(Registers[k])
          BY <2>2, <4>2
        <4> QED BY <4>1, <4>2
      <3> QED BY <1>1, <1>2, <1>3, <1>6, <3>2
    <2>6. ASSUME NEW j \in 1 .. Count, Restores(Registers[j]), Count + 8 + j < at'
          PROVE  processor'[Registers[j].name] = stack'[PlaceOf(j)]
      <3>1. Registers[j].name \in DOMAIN processor
        BY <1>2, NamesOf DEF FrameInv
      <3>2. CASE j = k
        BY <2>2, <2>3, <2>6, <3>1, <3>2
      <3>3. CASE j # k
        <4>1. Count + 8 + j < at
          BY <1>1, <2>1, <2>6, <3>3
        <4>2. processor[Registers[j].name] = stack[PlaceOf(j)]
          BY <1>2, <2>6, <4>1 DEF LoadedInv
        <4>3. Registers[j].name # Registers[k].name
          BY <3>3, RegisterList, CallConstants
        <4> QED BY <2>2, <2>3, <3>1, <4>2, <4>3
      <3> QED BY <3>2, <3>3
    <2>7. LoadedInv'
      BY <2>5, <2>6 DEF LoadedInv, PlaceOf, StateAt
    <2> QED BY <1>4, <2>4, <2>7
  <1> QED BY <1>5, <1>6

LEMMA StepKeepsWrapper == WrapperInv /\ WrapperStep => WrapperInv'
  <1> SUFFICES ASSUME WrapperInv, WrapperStep PROVE WrapperInv'
    OBVIOUS
  <1>1. Count \in Nat /\ phase = "wrapper" /\ at \in 1 .. 2 * Count + 10 /\ at' = at + 1
        /\ at # Count + 8 /\ at # 2 * Count + 10
    BY RegisterList, FixedEffects DEF WrapperInv, WrapperStep
  <1>2. CASE at <= Count + 7
    <2>1. FrameInv' /\ SavedInv' /\ ArgumentsInv'
      <3>1. CASE at \in {1} \cup (Count + 2 .. Count + 7)
        BY <1>1, <3>1, SetupStep
      <3>2. CASE at \in 2 .. Count + 1
        <4>1. at - 1 \in 1 .. Count /\ at = 1 + (at - 1)
          BY <1>1, <3>2
        <4>2. PICK k \in 1 .. Count : at = 1 + k
          BY <4>1
        <4> QED BY <1>1, <4>2, SaveStep
      <3> QED BY <1>1, <1>2, <3>1, <3>2
    <2>2. at' \in 1 .. 2 * Count + 10 /\ ~(at' > Count + 8)
      BY <1>1, <1>2
    <2> QED BY <2>1, <2>2 DEF WrapperInv
  <1>3. CASE at > Count + 8
    <2>1. FrameInv' /\ LoadedInv' /\ at' \in Count + 9 .. 2 * Count + 10
      BY <1>1, <1>3, LoadStep
    <2>2. at' \in 1 .. 2 * Count + 10 /\ ~(at' <= Count + 8)
      BY <1>1, <2>1
    <2> QED BY <2>1, <2>2 DEF WrapperInv
  <1> QED BY <1>1, <1>2, <1>3

-----------------------------------------------------------------------------
\* The other steps of a call

LEMMA Landmarks ==
    ASSUME at \in 1 .. 2 * Count + 10
    PROVE  /\ vexa_entry[at].op = "call" => at = Count + 8
           /\ vexa_entry[at].op = "ret" => at = 2 * Count + 10
  <1>1. ASSUME NEW op, vexa_entry[at] = Instr(op), op # "call", op # "ret"
        PROVE  vexa_entry[at].op \notin {"call", "ret"}
    BY <1>1 DEF Instr
  <1>2. ASSUME NEW op \in {"save", "load"}, NEW chosen, NEW k, vexa_entry[at] = One(op, chosen, k)
        PROVE  vexa_entry[at].op \notin {"call", "ret"}
    BY <1>2 DEF One, Instr
  <1>3. CASE at = 1 \/ at = 2 * Count + 9
    BY <1>1, <1>3, Code
  <1>4. CASE \E k \in 1 .. Count : at = 1 + k
    BY <1>2, <1>4, Code
  <1>5. CASE \E k \in 1 .. Count : at = (Count + 8) + k
    BY <1>2, <1>5, Code
  <1>6. CASE at \in Count + 2 .. Count + 7
    <2>1. at = Count + 2 \/ at = Count + 3 \/ at = Count + 4 \/ at = Count + 5 \/ at = Count + 6 \/ at = Count + 7
      BY <1>6, RegisterList
    <2> QED BY <1>1, <2>1, Code
  <1>7. CASE at = Count + 8
    BY <1>7, Code DEF Instr
  <1>8. CASE at = 2 * Count + 10
    BY <1>8, Code DEF Instr
  <1>9. at \in Count + 2 .. Count + 8 => at \in Count + 2 .. Count + 7 \/ at = Count + 8
    BY RegisterList
  <1> QED BY <1>3, <1>4, <1>5, <1>6, <1>7, <1>8, <1>9, Positions

LEMMA CallStarts == CallPatched => WrapperInv'
  <1> SUFFICES ASSUME CallPatched PROVE WrapperInv'
    OBVIOUS
  <1>1. Count \in Nat /\ at' = 1
    BY RegisterList DEF CallPatched
  <1>2. /\ processor' = [name \in Names |-> CallerValue(name)]
        /\ stack' = [a \in StateAt - 1 .. StackTop |-> IF a = StackTop THEN ReturnAddress ELSE Garbage]
    BY DEF CallPatched, StateAt
  <1>3. FrameInv'
    BY <1>2, Sizes DEF FrameInv, StateAt, Names, ReturnAddress
  <1>4. SavedInv'
    BY <1>1 DEF SavedInv
  <1>5. ArgumentsInv'
    <2>1. processor'["RSP"] = StackTop
      BY <1>2, Registered DEF CallerValue
    <2>2. processor'["FSBASE"] = CallerValue("FSBASE")
      BY <1>2, Registered
    <2>3. \A name \in Names : processor'[name] = CallerValue(name)
      BY <1>2
    <2>4. ~(at' > Count + 3) /\ ~(at' > Count + 4) /\ ~(at' > Count + 5) /\ ~(at' > Count + 7) /\ at' # Count + 7
      BY <1>1
    <2> QED BY <1>1, <2>1, <2>2, <2>3, <2>4 DEF ArgumentsInv, CallerValue, Names
  <1>6. at' \in 1 .. 2 * Count + 10 /\ ~(at' > Count + 8)
    BY <1>1
  <1> QED BY <1>3, <1>4, <1>5, <1>6 DEF WrapperInv

LEMMA EnterStep == WrapperInv /\ Enter => LiftedInv'
  <1> SUFFICES ASSUME WrapperInv, Enter PROVE LiftedInv'
    OBVIOUS
  <1>1. Count \in Nat /\ phase = "wrapper"
    BY RegisterList DEF Enter
  <1>2. at = Count + 8
    BY <1>1, Landmarks DEF WrapperInv, Enter
  <1>3. FrameInv /\ SavedInv /\ ArgumentsInv
    BY <1>1, <1>2 DEF WrapperInv
  <1>4. /\ processor["RSP"] = StateAt /\ processor["RDI"] = StateAt /\ processor["RSI"] = 0
        /\ processor["RDX"] = ImageBaseOperand
        /\ stack[StateAt + Offset("FSBASE")] = CallerValue("FSBASE")
    BY <1>1, <1>2, <1>3 DEF ArgumentsInv
  <1>5. /\ processor' = [processor EXCEPT !["RSP"] = StateAt - 1]
        /\ stack' = [stack EXCEPT ![StateAt - 1] = Count + 9]
    BY <1>1, <1>2, <1>4 DEF Enter
  <1>6. {"RDI", "RSI", "RDX", "RSP"} \subseteq DOMAIN processor
    BY <1>3, Registered DEF FrameInv
  <1>7. StateAt - 1 \in DOMAIN stack /\ StateAt - 1 # StackTop
    BY <1>3, Sizes DEF FrameInv
  <1>8. FrameInv'
    BY <1>3, <1>5, <1>7, Sizes DEF FrameInv, StateAt
  <1>9. ImageBaseOperand' = ImageBaseOperand
    BY OperandKept DEF Enter
  <1>10. /\ processor'["RSP"] = StateAt - 1 /\ processor'["RDI"] = StateAt /\ processor'["RSI"] = 0
         /\ processor'["RDX"] = ImageBaseOperand
         /\ stack'[StateAt - 1] = Count + 9
    BY <1>4, <1>5, <1>6, <1>7
  <1>11. \A k \in 1 .. Count : stack'[PlaceOf(k)] = stack[PlaceOf(k)]
    <2>1. ASSUME NEW k \in 1 .. Count PROVE PlaceOf(k) # StateAt - 1 /\ PlaceOf(k) \in DOMAIN stack
      BY <1>3, Places, Sizes DEF FrameInv
    <2> QED BY <1>5, <2>1
  <1>12. stack'[StateAt + Offset("FSBASE")] = CallerValue("FSBASE")
    <2>1. PICK k \in 1 .. Count : Registers[k].name = "FSBASE"
      BY Registered
    <2>2. StateAt + Offset("FSBASE") = PlaceOf(k)
      BY <2>1, Places
    <2> QED BY <1>4, <1>11, <2>2
  <1>13. ASSUME NEW k \in DOMAIN Registers, Moves(Registers[k])
         PROVE  stack'[StateAt + Registers[k].offset] = CallerValue(Registers[k].name)
    <2>1. k \in 1 .. Count /\ k + 1 < at /\ ~(at <= Count + 2)
      BY <1>1, <1>2, RegisterList
    <2>2. stack[PlaceOf(k)] = CallerValue(Registers[k].name)
      BY <1>3, <1>13, <2>1 DEF SavedInv
    <2> QED BY <1>11, <2>1, <2>2 DEF PlaceOf
  <1>14. RegistersReachLifted'
    BY <1>10, <1>12, <1>13 DEF RegistersReachLifted, StateAt, CallerValue
  <1> QED BY <1>8, <1>9, <1>10, <1>14 DEF LiftedInv, StateAt

\* it returns behind the call, to the frame it was called with
LEMMA LeaveStep ==
    ASSUME LiftedInv, NEW cleaned \in BOOLEAN, LeaveLifted(cleaned)
    PROVE  WrapperInv'
  <1>1. Count \in Nat /\ phase = "lifted"
    BY RegisterList DEF LeaveLifted
  <1>2. FrameInv /\ processor["RSP"] = StateAt - 1 /\ stack[StateAt - 1] = Count + 9
    BY <1>1 DEF LiftedInv
  <1>3. at' = Count + 9
    BY <1>2 DEF LeaveLifted
  <1>4. DOMAIN processor' = DOMAIN processor /\ DOMAIN stack' = DOMAIN stack
    BY DEF LeaveLifted
  <1>5. processor'["RSP"] = StateAt
    <2>1. "RSP" \in DOMAIN processor /\ processor["RSP"] + 1 = StateAt
      BY <1>2, Registered, Sizes DEF FrameInv
    <2> QED BY <2>1 DEF LeaveLifted
  <1>6. stack'[StackTop] = stack[StackTop]
    <2>1. StackTop \in DOMAIN stack /\ processor["RSP"] + 1 = StateAt
      BY <1>2, Sizes DEF FrameInv
    <2>2. \A k \in DOMAIN Registers : StackTop # StateAt + Registers[k].offset
      <3>1. ASSUME NEW k \in DOMAIN Registers PROVE StackTop # StateAt + Registers[k].offset
        <4>1. k \in 1 .. Count
          BY RegisterList
        <4>2. PlaceOf(k) \in StateAt .. StackTop - 1
          BY <4>1, Places
        <4> QED BY <4>2, Sizes DEF PlaceOf
      <3> QED BY <3>1
    <2> QED BY <2>1, <2>2 DEF LeaveLifted
  <1>7. FrameInv'
    BY <1>2, <1>4, <1>6 DEF FrameInv, StateAt
  <1>8. LoadedInv'
    BY <1>1, <1>3, <1>5 DEF LoadedInv, StateAt
  <1>9. at' \in 1 .. 2 * Count + 10 /\ ~(at' <= Count + 8)
    BY <1>1, <1>3
  <1> QED BY <1>7, <1>8, <1>9 DEF WrapperInv

LEMMA ReturnStep == WrapperInv /\ ReturnToCaller => RegistersComeBack'
  <1> SUFFICES ASSUME WrapperInv, ReturnToCaller PROVE RegistersComeBack'
    OBVIOUS
  <1>1. Count \in Nat /\ phase = "wrapper"
    BY RegisterList DEF ReturnToCaller
  <1>2. at = 2 * Count + 10
    BY <1>1, Landmarks DEF WrapperInv, ReturnToCaller
  <1>3. FrameInv /\ LoadedInv
    BY <1>1, <1>2 DEF WrapperInv
  <1>4. processor["RSP"] = StackTop /\ at' = ReturnAddress /\ stack' = stack
        /\ processor' = [processor EXCEPT !["RSP"] = StackTop + 1]
    BY <1>2, <1>3 DEF LoadedInv, FrameInv, ReturnToCaller
  <1>5. processor'["RSP"] = StackTop + 1
    BY <1>3, <1>4, Registered DEF FrameInv
  <1>6. ASSUME NEW k \in DOMAIN Registers, Moves(Registers[k]), Registers[k].name # "RSP"
        PROVE  processor'[Registers[k].name] = stack'[StateAt + Registers[k].offset]
    <2>1. k \in 1 .. Count /\ Count + 8 + k < at /\ Restores(Registers[k])
      BY <1>1, <1>2, <1>6, RegisterList DEF Restores
    <2>2. processor[Registers[k].name] = stack[PlaceOf(k)]
      BY <1>3, <2>1 DEF LoadedInv
    <2>3. Registers[k].name \in DOMAIN processor
      BY <1>3, <2>1, NamesOf DEF FrameInv
    <2> QED BY <1>4, <1>6, <2>2, <2>3 DEF PlaceOf
  <1> QED BY <1>4, <1>5, <1>6 DEF RegistersComeBack, StateAt, ReturnAddress

LEMMA AccessStep ==
    ASSUME LiftedInv, NEW address \in ImageAddresses, AccessImage(address)
    PROVE  LiftedInv' /\ AccessInv'
  <1>1. UNCHANGED <<vars, at, processor, stack>> /\ phase = "lifted"
    BY DEF AccessImage
  <1>2. ImageBaseOperand' = ImageBaseOperand
    BY <1>1, OperandKept DEF vars
  <1>3. LiftedInv'
    BY <1>1, <1>2 DEF LiftedInv, vars, FrameInv, RegistersReachLifted, StateAt, CallerValue
  <1>4. processor["RDX"] = ImageBaseOperand
    BY <1>1 DEF LiftedInv
  <1>5. address \in Int
    BY DEF ImageAddresses
  <1>6. accessed'.va = address /\ (~OnStack(address) => accessed'.where = ImageBaseOperand + address)
    BY <1>4 DEF AccessImage
  <1>7. phase' = "lifted"
    BY <1>1 DEF vars
  <1> QED BY <1>2, <1>3, <1>5, <1>6, <1>7 DEF AccessInv, OnStack

LEMMA AccessKept ==
    ASSUME AccessInv, accessed' = accessed, phase' \in {"wrapper", "lifted", "returned"},
           UNCHANGED <<binary, object, section_offsets, fields, segment, load_base>>
    PROVE  AccessInv'
  BY OperandKept DEF AccessInv, NoAccess, OnStack

-----------------------------------------------------------------------------
\* Calls

LEMMA PatchingKeepsCalls == CallInv /\ PatchStep /\ UNCHANGED callVars => CallInv'
  <1> SUFFICES ASSUME CallInv, PatchStep, UNCHANGED callVars PROVE CallInv'
    OBVIOUS
  <1>1. phase \notin {"wrapper", "lifted", "returned"} /\ phase' \notin {"wrapper", "lifted", "returned"}
    BY DEF PatchStep, MapPart, MappingDone, AppendText, AppendSection, LayoutDone, AddSegment,
           FixRelocation, WriteJump, EntryUndefined, Load
  <1>2. accessed' = NoAccess
    BY <1>1 DEF CallInv, AccessInv, callVars
  <1> QED BY <1>1, <1>2 DEF CallInv, WrapperInv, LiftedInv, AccessInv, NoAccess, RegistersComeBack

LEMMA CallInductive == CSpec => []CallInv
  <1>1. CInit => CallInv
    BY DEF CInit, Init, CallInv, WrapperInv, LiftedInv, AccessInv, RegistersComeBack
  <1>2. ASSUME CallInv, [CNext]_allVars PROVE CallInv'
    <2>1. CASE PatchStep /\ UNCHANGED callVars
      BY <1>2, <2>1, PatchingKeepsCalls
    <2>2. CASE CallPatched
      <3>1. WrapperInv' /\ phase = "loaded" /\ phase' = "wrapper"
        BY <2>2, CallStarts DEF CallPatched
      <3>2. AccessInv'
        <4>1. accessed = NoAccess /\ accessed' = accessed
          BY <1>2, <2>2, <3>1 DEF CallInv, AccessInv, CallPatched
        <4> QED BY <4>1 DEF AccessInv, NoAccess
      <3> QED BY <3>1, <3>2 DEF CallInv, LiftedInv, RegistersComeBack
    <2>3. CASE WrapperStep
      <3>1. WrapperInv' /\ phase' = "wrapper"
        BY <1>2, <2>3, StepKeepsWrapper DEF CallInv, WrapperStep, vars
      <3>2. AccessInv'
        BY <1>2, <2>3, <3>1, AccessKept DEF CallInv, WrapperStep, vars
      <3> QED BY <3>1, <3>2 DEF CallInv, LiftedInv, RegistersComeBack
    <2>4. CASE Enter
      <3>1. LiftedInv' /\ phase' = "lifted"
        BY <1>2, <2>4, EnterStep DEF CallInv, Enter
      <3>2. AccessInv'
        BY <1>2, <2>4, <3>1, AccessKept DEF CallInv, Enter
      <3> QED BY <3>1, <3>2 DEF CallInv, WrapperInv, RegistersComeBack
    <2>5. CASE ReturnToCaller
      <3>1. RegistersComeBack' /\ phase' = "returned"
        BY <1>2, <2>5, ReturnStep DEF CallInv, ReturnToCaller
      <3>2. AccessInv'
        BY <1>2, <2>5, <3>1, AccessKept DEF CallInv, ReturnToCaller
      <3> QED BY <3>1, <3>2 DEF CallInv, WrapperInv, LiftedInv
    <2>6. ASSUME NEW address \in ImageAddresses, AccessImage(address) PROVE CallInv'
      <3>1. LiftedInv' /\ AccessInv'
        BY <1>2, <2>6, AccessStep DEF CallInv
      <3>2. phase' = "lifted"
        BY <2>6 DEF AccessImage, vars
      <3> QED BY <3>1, <3>2 DEF CallInv, WrapperInv, RegistersComeBack
    <2>7. ASSUME NEW cleaned \in BOOLEAN, LeaveLifted(cleaned) PROVE CallInv'
      <3>1. WrapperInv' /\ phase' = "wrapper"
        BY <1>2, <2>7, LeaveStep DEF CallInv, LeaveLifted
      <3>2. AccessInv'
        BY <1>2, <2>7, <3>1, AccessKept DEF CallInv, LeaveLifted
      <3> QED BY <3>1, <3>2 DEF CallInv, LiftedInv, RegistersComeBack
    <2>8. CASE UNCHANGED allVars
      <3>1. UNCHANGED <<vars, at, processor, stack, accessed>>
        BY <2>8 DEF allVars, callVars
      <3>2. UNCHANGED <<phase, binary, object, section_offsets, fields, segment, load_base>>
        BY <3>1 DEF vars
      <3>3. ImageBaseOperand' = ImageBaseOperand
        BY <3>2, OperandKept
      <3>4. FrameInv' = FrameInv /\ SavedInv' = SavedInv /\ LoadedInv' = LoadedInv
        BY <3>1 DEF FrameInv, SavedInv, LoadedInv, PlaceOf, StateAt, CallerValue
      <3>5. ArgumentsInv' = ArgumentsInv
        BY <3>1, <3>3 DEF ArgumentsInv, StateAt, CallerValue
      <3>6. WrapperInv'
        BY <1>2, <3>1, <3>2, <3>4, <3>5 DEF CallInv, WrapperInv
      <3>7. LiftedInv'
        BY <1>2, <3>1, <3>2, <3>3, <3>4 DEF CallInv, LiftedInv, RegistersReachLifted, StateAt, CallerValue
      <3>8. AccessInv' /\ RegistersComeBack'
        BY <1>2, <3>1, <3>2, <3>3 DEF CallInv, AccessInv, NoAccess, OnStack, RegistersComeBack, StateAt, ReturnAddress
      <3> QED BY <3>6, <3>7, <3>8 DEF CallInv
    <2> QED BY <1>2, <2>1, <2>2, <2>3, <2>4, <2>5, <2>6, <2>7, <2>8 DEF CNext
  <1> QED BY <1>1, <1>2, PTL DEF CSpec

(* The lifted function gets the caller's value of every 8-byte register the *)
(* wrapper saves in the State (no vector registers, no flags), for every    *)
(* register table in which what vexa_entry moves has a place of its own,    *)
(* with RSP as the caller had it and the base of fs, although the prologue  *)
(* uses rax, rdi, rsi and rdx before it calls (recompile).                  *)
THEOREM RegistersReach == CSpec => []RegistersReachLifted
  <1>1. CallInv => RegistersReachLifted
    BY DEF CallInv, LiftedInv, RegistersReachLifted
  <1> QED BY <1>1, CallInductive, PTL

(* The caller gets every 8-byte register the wrapper moves back from the    *)
(* State (no vector registers, no flags), and the stack as any callee       *)
(* leaves it, whatever the compiled function did to the registers it need   *)
(* not keep and to the RSP in the State (recompile).                        *)
THEOREM RegistersBack == CSpec => []RegistersComeBack
  <1>1. CallInv => RegistersComeBack
    BY DEF CallInv
  <1> QED BY <1>1, CallInductive, PTL

\* the displacement to IMAGE_BASE has room in the wrapper's lea
ImageInReach ==
    phase \in Running =>
        \A k \in DOMAIN object.relocs : IsImageBase(object, object.relocs[k]) => Fits(object.relocs[k])

\* what the wrapper passes as the memory pointer
LEMMA ImagePointer ==
    ASSUME PatchInv, ImageInReach, phase \in Running
    PROVE  ImageBaseOperand = Runtime(image_base + shift_offset)
  <1> DEFINE k == CHOOSE i \in DOMAIN object.relocs : IsImageBase(object, object.relocs[i])
             r == object.relocs[k]
  <1>1. /\ object \in Objects /\ object.text # 0 /\ "vexa_entry" \in DOMAIN object.symbols
        /\ object.text \in DOMAIN section_offsets
    BY DEF PatchInv, FilesInv, Patched, Running
  <1>2. k \in DOMAIN object.relocs /\ IsImageBase(object, r)
    BY <1>1, WrapperCompiled
  <1>3. ImageBaseOperand = Operand(PatchOffset(r)) + FieldSize
    BY DEF ImageBaseOperand
  <1> HIDE DEF k
  <1>4. Applies(r) /\ Fits(r) /\ r.type \in RelativeTypes
    BY <1>1, <1>2 DEF IsImageBase, Applies, ImageInReach, RelativeTypes
  <1>5. Operand(PatchOffset(r)) = Runtime(symbol_va("IMAGE_BASE")) + (-FieldSize)
    BY <1>2, <1>4, OperandReaches DEF IsImageBase
  <1>6. symbol_va("IMAGE_BASE") = image_base + shift_offset
    BY DEF symbol_va
  <1>7. Runtime(image_base + shift_offset) \in Int /\ FieldSize \in Int
    BY Addresses DEF Runtime, FieldSize
  <1> QED BY <1>3, <1>5, <1>6, <1>7

(* Wherever a patched position-independent ELF file is loaded, the lifted   *)
(* function's accesses outside the window of get_page reach the addresses   *)
(* of the image that they mean, as long as the image is within two          *)
(* gigabytes of the new code: fix_relocations casts the displacement        *)
(* without asking.                                                          *)
THEOREM PieReaches == CSpec /\ []ImageInReach => []PieAccessesReach
  <1>1. ASSUME PatchInv, CallInv, ImageInReach, binary.format = "pie", ~OnStack(accessed.va),
               accessed # NoAccess
        PROVE  accessed.where = RuntimeOfOriginal(accessed.va)
    <2>1. phase \in Running /\ accessed.va \in Int /\ accessed.where = ImageBaseOperand + accessed.va
      BY <1>1 DEF CallInv, AccessInv, Running
    <2>2. ImageBaseOperand = Runtime(image_base + shift_offset)
      BY <1>1, <2>1, ImagePointer
    <2>3. image_base = 0
      BY <1>1 DEF image_base
    <2> QED BY <1>1, <2>1, <2>2, <2>3, Addresses DEF Runtime, RuntimeOfOriginal
  <1>2. PatchInv /\ CallInv /\ ImageInReach => PieAccessesReach
    BY <1>1 DEF PieAccessesReach, AccessReached
  <1> QED BY <1>2, PatchInductive, CallInductive, PTL
=============================================================================
