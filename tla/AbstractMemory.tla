--------------------------- MODULE AbstractMemory ---------------------------
(***************************************************************************)
(* What the lifter's memory promises to the path explorer, with no word    *)
(* about how it is stored: every page is a function from addresses to      *)
(* bytes, a snapshot is a copy of all pages BY VALUE, and a read returns   *)
(* the bytes last written on this path.  A byte that was never written is  *)
(* Unknown; the first read of it picks a fresh symbol, and the path then   *)
(* sticks to that symbol.  PagedMemory implements this specification with  *)
(* shared, copy-on-write storage.                                          *)
(***************************************************************************)
EXTENDS Integers, Sequences, Functions

CONSTANTS Pages,       \* identities of mem_page objects
          GlobalPage,  \* the page that holds the mapped binary
          Snaps,       \* slots that may hold a live mem_state
          AddrCount,   \* addresses are 0 .. AddrCount-1 and wrap around
          MaxBytes,    \* widest access, in bytes
          Bytes,       \* byte contents a client writes
          Symbols,     \* fresh symbolic bytes
          Unknown      \* content of a byte nobody has written or read

VARIABLES content,  \* [pages of the current path -> [Addr -> byte]]
          saved,    \* [Snaps -> saved content; an empty function if free]
          born,     \* pages that have ever been allocated
          used,     \* symbols handed out so far
          result    \* the value the last read returned

avars == <<content, saved, born, used, result>>

Addr == 0 .. AddrCount - 1

\* how many bytes x lies above a, going up and around
Offset(a, x) == IF x >= a THEN x - a ELSE x - a + AddrCount

Wrap(y) == IF y < AddrCount THEN y ELSE y - AddrCount

DataValues == UNION {[1..n -> Bytes] : n \in 1..MaxBytes}

Blank == [x \in Addr |-> Unknown]

Overwrite(m, a, v) ==
    [x \in Addr |-> IF Offset(a, x) < Len(v) THEN v[Offset(a, x) + 1] ELSE m[x]]

-----------------------------------------------------------------------------
AInit ==
    /\ content = [p \in {GlobalPage} |-> Blank]
    /\ saved = [s \in Snaps |-> [p \in {} |-> Blank]]
    /\ born = {GlobalPage}
    /\ used = {}
    /\ result = <<>>

AAllocate(p) ==
    /\ p \notin born
    /\ content' = [q \in DOMAIN content \cup {p} |->
                      IF q = p THEN Blank ELSE content[q]]
    /\ born' = born \cup {p}
    /\ UNCHANGED <<saved, used, result>>

AWrite(p, a, v) ==
    /\ p \in DOMAIN content
    /\ content' = [content EXCEPT ![p] = Overwrite(@, a, v)]
    /\ UNCHANGED <<saved, born, used, result>>

ARead(p, a, n) ==
    /\ p \in DOMAIN content
    /\ LET missing == {x \in Addr : Offset(a, x) < n /\ content[p][x] = Unknown}
       IN \E fresh \in [missing -> Symbols \ used] :
            /\ IsInjective(fresh)
            /\ content' = [content EXCEPT ![p] =
                             [x \in Addr |-> IF x \in missing THEN fresh[x] ELSE @[x]]]
            /\ used' = used \cup Range(fresh)
            /\ result' = [j \in 1..n |-> content'[p][Wrap(a + j - 1)]]
    /\ UNCHANGED <<saved, born>>

\* a read through an address that stays symbolic learns nothing
AReadAnywhere(n) ==
    /\ \E fresh \in [1..n -> Symbols \ used] :
         /\ IsInjective(fresh)
         /\ used' = used \cup Range(fresh)
         /\ result' = fresh
    /\ UNCHANGED <<content, saved, born>>

ATake(s) ==
    /\ DOMAIN saved[s] = {}
    /\ saved' = [saved EXCEPT ![s] = content]
    /\ UNCHANGED <<content, born, used, result>>

ARestore(s) ==
    /\ DOMAIN saved[s] # {}
    /\ content' = saved[s]
    /\ UNCHANGED <<saved, born, used, result>>

ADrop(s) ==
    /\ DOMAIN saved[s] # {}
    /\ saved' = [saved EXCEPT ![s] = [p \in {} |-> Blank]]
    /\ UNCHANGED <<content, born, used, result>>

ANext ==
    \/ \E p \in Pages : AAllocate(p)
    \/ \E p \in Pages, a \in Addr, v \in DataValues : AWrite(p, a, v)
    \/ \E p \in Pages, a \in Addr, n \in 1..MaxBytes : ARead(p, a, n)
    \/ \E n \in 1..MaxBytes : AReadAnywhere(n)
    \/ \E s \in Snaps : ATake(s) \/ ARestore(s) \/ ADrop(s)

ASpec == AInit /\ [][ANext]_avars
=============================================================================
