-------------------------------- MODULE Path --------------------------------
(***************************************************************************)
(* Path names as namex reads them (kernel/fs.c): skipelem and the loop of  *)
(* namex that calls it.  A path is a C string without its    *)
(* NUL, a sequence of characters of which "/" is the separator.           *)
(*                                                                         *)
(* FsInode works on a path as the record [abs, elems]: whether namex      *)
(* starts at the root, and the names its loop hands to dirlookup.          *)
(* NamexPath(s) is that record computed by skipelem itself, and           *)
(* SkipelemMatchesRef checks it against a reference split of the string   *)
(* for every string up to a length, so the abstraction is the code's.     *)
(***************************************************************************)
EXTENDS Naturals, Sequences, SequencesExt

CONSTANTS
    DIRSIZ,     \* bytes of a directory entry's name (62 in fs.h)
    Letters,    \* characters other than "/" a path may hold
    MaxPath     \* bound: the longest string checked

Chars == Letters \cup {"/"}

(* while ( *path == '/') path++;                                        *)
RECURSIVE DropSlashes(_)
DropSlashes(s) == IF s # << >> /\ Head(s) = "/" THEN DropSlashes(Tail(s)) ELSE s

(* while ( *path != '/' && *path != 0) path++;  len = path - s;              *)
RECURSIVE ElemLen(_)
ElemLen(s) == IF s = << >> \/ Head(s) = "/" THEN 0 ELSE 1 + ElemLen(Tail(s))

(* The name buffer skipelem fills: the first DIRSIZ bytes of an element   *)
(* of DIRSIZ or more, unterminated, else the element and a NUL.  Both     *)
(* read back, through namecmp's strncmp(s, t, DIRSIZ), as this sequence.  *)
NameOf(e) == SubSeq(e, 1, IF Len(e) >= DIRSIZ THEN DIRSIZ ELSE Len(e))

(* skipelem(path, name): 0 when only slashes are left, else the name and  *)
(* the rest of the path past the slashes that follow it.                  *)
NoElem == [name |-> << >>, rest |-> << >>, found |-> FALSE]
Skipelem(path) ==
    LET p == DropSlashes(path)
        len == ElemLen(p)
    IN  IF p = << >> THEN NoElem
        ELSE [name |-> NameOf(SubSeq(p, 1, len)),
              rest |-> DropSlashes(SubSeq(p, len + 1, Len(p))),
              found |-> TRUE]

(* namex's loop, while((path = skipelem(path, name)) != 0): the names it  *)
(* looks up in turn.                                                      *)
RECURSIVE Elems(_)
Elems(path) ==
    LET r == Skipelem(path) IN
    IF ~r.found THEN << >> ELSE <<r.name>> \o Elems(r.rest)

(* The record FsInode walks: an absolute path starts at the root inode    *)
(* (a path that starts with "/"), any other at the cwd.  namex returns 0 for "".          *)
NamexPath(s) == [abs |-> s # << >> /\ Head(s) = "/", elems |-> Elems(s)]

-----------------------------------------------------------------------------
(* The reference: an element is a maximal run of letters, and the names   *)
(* are the elements in order, each cut to DIRSIZ.                         *)
ElemStarts(s) == {i \in 1..Len(s) : s[i] # "/" /\ (i = 1 \/ s[i - 1] = "/")}
ElemEnd(s, i) ==
    CHOOSE j \in i..Len(s) : /\ \A k \in i..j : s[k] # "/"
                             /\ j = Len(s) \/ s[j + 1] = "/"
RefElems(s) ==
    LET st == SetToSortSeq(ElemStarts(s), <)
    IN  [k \in 1..Len(st) |-> NameOf(SubSeq(s, st[k], ElemEnd(s, st[k])))]

(* skipelem, iterated as namex iterates it, yields exactly the reference  *)
(* names, and leaves an empty rest (nameiparent's *path == '\0' test)     *)
(* exactly at the last one, for every string of at most MaxPath           *)
(* characters: leading, trailing and repeated slashes, and elements longer *)
(* than DIRSIZ, included.                                                 *)
SkipelemMatchesRef ==
    \A s \in SeqOf(Chars, MaxPath) :
        /\ Elems(s) = RefElems(s)
        /\ LET r == Skipelem(s) IN
             r.found => (r.rest = << >> <=> Len(RefElems(s)) = 1)
====
