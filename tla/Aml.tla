-------------------------------- MODULE Aml --------------------------------
(***************************************************************************)
(* The AML parser of lethe-aml: the terms of a definition block are read    *)
(* one after the other into a tree of namespaces, each of which carries its *)
(* own read position.  The recursion of parse_next and parse_termlist is a  *)
(* stack of frames; one step parses one term or leaves one term list.       *)
(*                                                                         *)
(* The table is a sequence of cells, one for each byte.  The four           *)
(* characters of a name segment are one atom above Char, followed by three  *)
(* cells Char; every other cell is the byte.  The maps of a namespace are   *)
(* functions (module HashMap); memory for them does not run out.            *)
(***************************************************************************)
EXTENDS Integers, Sequences, SequencesExt

CONSTANTS
  Tables,   \* the definition blocks that are considered: [code, terms]
  Beyond,   \* the byte found behind the end of a table
  IoValues  \* what reading a field of the hardware may return

VARIABLES
  table,   \* the definition block
  io,      \* what the hardware returns
  nss,     \* the namespaces; 1 is the root, 0 is NULL
  stack,   \* the calls of parse_termlist, the running one last
  status,  \* parsing, done, calling (executing a method), called, asleep or exit
  off,     \* a construct has been read that the parser reads differently from how it is written
  misplaced, \* something has been stored under another path, name or offset than it is written for
  entry,   \* where the outermost term list begins
  trace,   \* the positions parse_next has been called at since
  ports    \* the values written to the two control ports

vars == <<table, io, nss, stack, status, off, misplaced, entry, trace, ports>>

ROOT_CHAR == 92
PREFIX_CHAR == 94
KEY_LEN == 4

Char == 256
GPE == 257
PR == 258
SB == 259
SI == 260
TZ == 261
S5 == 262
IsSegment(c) == c > Char

(* The name left when the buffer of a name was moved by one character: the  *)
(* last three characters of the segment and the last one once more.         *)
Moved(seg) == seg + 1000

MutexKey == 999    \* the characters 4, 0, 0, 0

Byte(p) == IF p \in DOMAIN table.code THEN table.code[p] ELSE Beyond

root == 1

NoObject == [type |-> "none"]

(* The root read as an object: the type is the first byte of the namespace, *)
(* the parent, which is NULL.                                               *)
RootObject == [type |-> "hack"]

Lookup(map, key, none) == IF key \in DOMAIN map THEN map[key] ELSE none

Stored(map, key, value) == [k \in DOMAIN map \union {key} |-> IF k = key THEN value ELSE map[k]]
-----------------------------------------------------------------------------
(* Variant: the second byte of a length is shifted by a whole lead byte. *)
parse_length_Shifted(p) ==
  LET lead == Byte(p)
      more == lead \div 64
      low  == lead % 64
  IN  [len  |-> low + (IF more >= 1 THEN Byte(p + 1) * 64 ELSE 0),
       next |-> p + 1 + more]

(* A length: the two high bits of the lead byte are the number of bytes     *)
(* that follow.  Bits 4 and 5 of a lead byte with followers are 0, so "|"   *)
(* is an addition.                                                          *)
parse_length(p) ==
  LET lead == Byte(p)
      more == lead \div 64
      low  == lead % 64
  IN  [len  |-> low + (IF more >= 1 THEN Byte(p + 1) * 16 ELSE 0)
                    + (IF more >= 2 THEN Byte(p + 2) * 4096 ELSE 0)
                    + (IF more >= 3 THEN Byte(p + 3) * 1048576 ELSE 0),
       next |-> p + 1 + more]

(* A name: the first prefix character, or 0, and the segments.  Further     *)
(* prefix characters are skipped.                                           *)
PrefixLength(p) ==
  CHOOSE n \in 0 .. Len(table.code) :
    /\ Byte(p + n) \notin {ROOT_CHAR, PREFIX_CHAR}
    /\ \A k \in 0 .. (n - 1) : Byte(p + k) \in {ROOT_CHAR, PREFIX_CHAR}

parse_namestring(p) ==
  LET q     == p + PrefixLength(p)
      b     == Byte(q)
      count == CASE b = 46 -> 2 [] b = 47 -> Byte(q + 1) [] b = 0 -> 0 [] OTHER -> 1
      first == CASE b = 46 -> q + 1 [] b = 47 -> q + 2 [] b = 0 -> q + 1 [] OTHER -> q
  IN  [prefix |-> IF q = p THEN 0 ELSE Byte(p),
       segs   |-> [i \in 1 .. count |-> Byte(first + KEY_LEN * (i - 1))],
       next   |-> first + KEY_LEN * count]

Count(name) == (IF name.prefix = 0 THEN 0 ELSE 1) + KEY_LEN * Len(name.segs)

valid_name(name) == \A i \in DOMAIN name.segs : IsSegment(name.segs[i])

Simple(seg) == [prefix |-> 0, segs |-> <<seg>>]

(* Variant: only the parent is searched. *)
stage3_Parent(ns, key, namespace) ==
  LET p == nss[ns].parent
  IN  IF namespace THEN IF p = 0 THEN 0 ELSE Lookup(nss[p].namespaces, key, 0)
                   ELSE IF p = 0 THEN NoObject ELSE Lookup(nss[p].children, key, NoObject)

(* The search of one segment, from a namespace up to the root. *)
RECURSIVE stage3(_, _, _)
stage3(ns, key, namespace) ==
  LET found == IF namespace THEN Lookup(nss[ns].namespaces, key, 0)
                            ELSE Lookup(nss[ns].children, key, NoObject)
  IN  IF found # (IF namespace THEN 0 ELSE NoObject) \/ nss[ns].parent = 0
      THEN found
      ELSE stage3(nss[ns].parent, key, namespace)

resolve_scope(ns, segs) ==
  FoldLeft(LAMBDA at, seg : IF at = 0 THEN 0 ELSE Lookup(nss[at].namespaces, seg, 0), ns, segs)

stage2(ns, segs, namespace) ==
  LET scope == resolve_scope(ns, Front(segs))
  IN  IF segs = <<>> \/ scope = 0
      THEN IF namespace THEN 0 ELSE NoObject
      ELSE IF namespace THEN Lookup(nss[scope].namespaces, Last(segs), 0)
                        ELSE Lookup(nss[scope].children, Last(segs), NoObject)

(* Names of one segment are searched for upwards, others only where they    *)
(* point.  The caller has checked valid_name.                               *)
locate_object(ns, name, namespace) ==
  CASE Count(name) = 1 -> IF namespace THEN root ELSE RootObject
    [] Count(name) = KEY_LEN -> stage3(ns, name.segs[1], namespace)
    [] OTHER ->
         LET scope == CASE name.prefix = PREFIX_CHAR -> nss[ns].parent
                        [] name.prefix = ROOT_CHAR -> root
                        [] OTHER -> ns
         IN  IF scope = 0
             THEN IF namespace THEN 0 ELSE NoObject
             ELSE stage2(scope, name.segs, namespace)

(* locate_object drops the prefix character of its argument in place. *)
MovesName(ns, name) ==
  /\ Count(name) > KEY_LEN
  /\ name.prefix = ROOT_CHAR \/ (name.prefix = PREFIX_CHAR /\ nss[ns].parent # 0)

(* The segments from the root down to a namespace; Top is where the way up  *)
(* ends, which resolve_name asserts to be the root.                         *)
RECURSIVE Path(_)
Path(ns) == IF nss[ns].parent = 0 THEN <<>> ELSE Append(Path(nss[ns].parent), nss[ns].name)

RECURSIVE Top(_)
Top(ns) == IF nss[ns].parent = 0 THEN ns ELSE Top(nss[ns].parent)

(* Variant: the names of the namespaces in between are left out. *)
resolve_name_Flat(ns, name) == [prefix |-> ROOT_CHAR, segs |-> name.segs]

resolve_name(ns, name) ==
  IF ns = root \/ name.prefix = ROOT_CHAR
  THEN [prefix |-> name.prefix, segs |-> name.segs]
  ELSE [prefix |-> ROOT_CHAR, segs |-> Path(ns) \o name.segs]

CanResolve(ns, name) ==
  /\ name.prefix # PREFIX_CHAR
  /\ ns = root \/ name.prefix = ROOT_CHAR \/ Top(ns) = root
-----------------------------------------------------------------------------
(* Results of the functions that read a value: the value and the position   *)
(* behind it, or Fail when the parser exits.  ONES is all ones, of 64 bits. *)
Ones == -1
Fail == [ok |-> FALSE, v |-> 0, next |-> 0]
Got(v, p) == [ok |-> TRUE, v |-> v, next |-> p]

Below(a, b) == a # Ones /\ (b = Ones \/ a < b)
Truth(b) == IF b THEN 1 ELSE 0

(* A read of 8, 16, 32 or 64 bits of memory; the ports have no 64 bits.     *)
QWordAcc == 4
read_mem(access, p) == Got(io, p)
read_io(access, p) == IF access = QWordAcc THEN Fail ELSE Got(io, p)

(* What reading a field returns. *)
ReadField(field, p) ==
  CASE field.access \in 0 .. QWordAcc /\ field.region.space = 0 -> read_mem(field.access, p)
    [] field.access \in 0 .. QWordAcc /\ field.region.space = 1 -> read_io(field.access, p)
    [] OTHER -> Fail

NamedValue(ns, p) ==
  LET obj == IF IsSegment(Byte(p)) THEN locate_object(ns, Simple(Byte(p)), FALSE) ELSE NoObject
  IN  CASE obj.type = "none" -> Fail
        [] obj.type = "name" -> IF obj.data.type \in {"byte", "short", "int"}
                                THEN Got(obj.data.v, p + KEY_LEN)
                                ELSE Fail
        [] obj.type = "field" -> ReadField(obj.data, p + KEY_LEN)
        [] OTHER -> Got(0, p + KEY_LEN)

Number(p, bytes) == FoldLeft(LAMBDA sum, i : sum * 256 + Byte(p + bytes - i), 0, [i \in 1 .. bytes |-> i])

RECURSIVE term_arg_to_int(_, _)
term_arg_to_int(ns, p) ==
  LET op   == Byte(p)
      a    == term_arg_to_int(ns, p + 1)
      b    == term_arg_to_int(ns, a.next)
      Two(v) == IF a.ok /\ b.ok THEN Got(Truth(v), b.next) ELSE Fail
  IN  CASE op = 0   -> Got(0, p + 1)
        [] op = 1   -> Got(1, p + 1)
        [] op = 255 -> Got(Ones, p + 1)
        [] op = 10  -> Got(Number(p + 1, 1), p + 2)
        [] op = 11  -> Got(Number(p + 1, 2), p + 3)
        [] op = 12  -> Got(Number(p + 1, 4), p + 5)
        [] op = 146 -> IF a.ok THEN Got(Truth(a.v = 0), a.next) ELSE Fail
        [] op = 147 -> Two(a.v = b.v)
        [] op = 144 -> Two(a.v # 0 /\ b.v # 0)
        [] op = 149 -> Two(Below(a.v, b.v))
        [] op = 148 -> Two(Below(b.v, a.v))
        [] OTHER    -> NamedValue(ns, p)

Variable(type, v) == [type |-> type, v |-> v]

(* A data object.  The elements of a package are names, which are resolved, *)
(* or data objects.                                                         *)
RECURSIVE parse_data_object(_, _), populate_package(_, _, _)
parse_data_object(ns, p) ==
  LET op   == Byte(p)
      size == parse_length(p + 1)
      n    == IF op = 18 THEN Got(Byte(size.next), size.next + 1) ELSE term_arg_to_int(ns, size.next)
  IN  CASE op = 0   -> Got(Variable("byte", 0), p + 1)
        [] op = 1   -> Got(Variable("byte", 1), p + 1)
        [] op = 255 -> Got(Variable("byte", 255), p + 1)
        [] op = 10  -> Got(Variable("byte", Number(p + 1, 1)), p + 2)
        [] op = 11  -> Got(Variable("short", Number(p + 1, 2)), p + 3)
        [] op = 12  -> Got(Variable("int", Number(p + 1, 4)), p + 5)
        [] op = 14  -> Got(Variable("long", Number(p + 1, 8)), p + 9)
        [] op = 13  -> LET n0 == CHOOSE k \in 0 .. Len(table.code) :
                                   Byte(p + 1 + k) = 0 /\ \A j \in 0 .. (k - 1) : Byte(p + 1 + j) # 0
                       IN  Got(Variable("string", n0), p + 2 + n0)
        [] op \in {18, 19} /\ n.ok -> populate_package(ns, n.next, n.v % 256)
        [] op = 17 /\ n.ok -> Got(Variable("buffer", n.v), n.next + n.v)
        [] OTHER    -> Fail

populate_package(ns, p, n) ==
  LET name   == parse_namestring(p)
      isName == valid_name(name) /\ Count(name) # 0
      first  == IF ~isName THEN parse_data_object(ns, p)
                ELSE IF CanResolve(ns, name)
                     THEN Got(Variable("name", resolve_name(ns, name)), name.next)
                     ELSE Fail
      rest   == populate_package(ns, first.next, n - 1)
  IN  CASE n = 0 -> Got(Variable("package", <<>>), p)
        [] n > 0 /\ first.ok /\ rest.ok -> Got(Variable("package", <<first.v>> \o rest.v.v), rest.next)
        [] OTHER -> Fail

(* The elements of a field list, up to the first that is none: the map of   *)
(* children with the named ones added.  The offset advances by the bits of  *)
(* a gap and by the bytes of any other element; bits is where the next      *)
(* field really begins, and exact says that the two have always agreed.     *)
RECURSIVE FieldElements(_, _, _, _, _, _)
FieldElements(p, offset, bits, exact, field, children) ==
  LET op  == Byte(p)
      len == parse_length(IF op = 0 THEN p + 1 ELSE p + KEY_LEN)
  IN  CASE op = 0 -> FieldElements(len.next, offset + len.len, bits + len.len, exact, field, children)
        [] op = 1 -> FieldElements(p + 3, offset + 2, bits, exact, field, children)
        [] op = 2 -> Fail
        [] op = 3 -> FieldElements(p + 4, offset + 3, bits, exact, field, children)
        [] IsSegment(op) ->
             FieldElements(len.next, offset + (len.next - p), bits + len.len, exact /\ offset = bits, field,
               Stored(children, op,
                      [type |-> "field",
                       data |-> [offset |-> offset, len |-> len.len,
                                 access |-> field.access, region |-> field.region]]))
        [] OTHER -> Got([children |-> children, exact |-> exact], p)
-----------------------------------------------------------------------------
Namespace(parent, name, code) ==
  [parent |-> parent, name |-> name, code |-> code, children |-> <<>>, namespaces |-> <<>>]

Predefined == <<GPE, PR, SB, SI, TZ>>

(* root() with init_aml_namespaces, and parse_table. *)
Init ==
  /\ table \in Tables /\ io \in IoValues
  /\ nss = <<[Namespace(0, 0, 1) EXCEPT !.namespaces =
                [seg \in {Predefined[i] : i \in DOMAIN Predefined} |->
                   1 + CHOOSE i \in DOMAIN Predefined : Predefined[i] = seg]]>>
           \o [i \in DOMAIN Predefined |-> Namespace(root, Predefined[i], 0)]
  /\ stack = <<[ns |-> root, end |-> Len(table.code) + 1, copy |-> 1, caller |-> root, then |-> "return", at |-> 0]>>
  /\ status = "parsing" /\ off = FALSE /\ misplaced = FALSE
  /\ entry = 1 /\ trace = <<>> /\ ports = <<>>

Frame == Last(stack)
ns == Frame.ns
here == nss[ns].code
Opcode == IF Byte(here) = 91 THEN 91 * 256 + Byte(here + 1) ELSE Byte(here)
body == IF Byte(here) = 91 THEN here + 2 ELSE here + 1

(* parse_next has read the opcode op. *)
Term(op) ==
  /\ status \in {"parsing", "calling"}
  /\ here < Frame.end
  /\ Opcode = op
  /\ trace' = Append(trace, here)
  /\ UNCHANGED <<table, io, entry, ports>>

(* debug_exit, a failed assertion or a NULL pointer: parsing is over. *)
Exit == status' = "exit" /\ UNCHANGED <<nss, stack, off, misplaced>>

Place(spaces, elsewhere) ==
  /\ nss' = spaces
  /\ misplaced' = (misplaced \/ elsewhere)
  /\ UNCHANGED <<stack, status, off>>

Proceed(spaces) == Place(spaces, FALSE)

At(p) == [nss EXCEPT ![ns].code = p]

add_child_to_namespace(key, obj, p, elsewhere) ==
  Place([nss EXCEPT ![ns].children = Stored(@, key, obj), ![ns].code = p], elsewhere)

(* The call of parse_termlist, and what its caller does afterwards.         *)
parse_termlist(spaces, target, start, end, then, at) ==
  /\ nss' = [spaces EXCEPT ![target].code = start]
  /\ stack' = Append(stack, [ns |-> target, end |-> end, copy |-> spaces[target].code,
                             caller |-> ns, then |-> then, at |-> at])
  /\ UNCHANGED status

(* A package names, by one segment, something that is not in ns but above:  *)
(* resolve_name makes a path in ns of it.                                   *)
Inherits(v) ==
  /\ v.type = "package" /\ ns # root
  /\ \E i \in DOMAIN v.v :
       /\ v.v[i].type = "name" /\ Front(v.v[i].v.segs) = Path(ns)
       /\ LET key == Last(v.v[i].v.segs)
          IN  /\ key \notin DOMAIN nss[ns].children \union DOMAIN nss[ns].namespaces
              /\ stage3(ns, key, TRUE) # 0 \/ stage3(ns, key, FALSE) # NoObject

def_name ==
  LET name == parse_namestring(body)
      data == parse_data_object(ns, name.next)
  IN  /\ Term(8)
      /\ IF Count(name) = KEY_LEN /\ data.ok
         THEN add_child_to_namespace(name.segs[1], [type |-> "name", data |-> data.v], data.next,
                                     Inherits(data.v))
         ELSE Exit

def_alias ==
  LET source == parse_namestring(body)
      alias  == parse_namestring(source.next)
      ref    == Lookup(nss[ns].children, source.segs[1], NoObject)
  IN  /\ Term(6)
      /\ IF Count(source) = KEY_LEN /\ Count(alias) = KEY_LEN /\ ref # NoObject
         THEN add_child_to_namespace(alias.segs[1], ref, alias.next, FALSE)
         ELSE Exit

(* The name of a mutex is copied from the struct that holds the name. *)
def_mutex ==
  LET name == parse_namestring(body)
  IN  /\ Term(91 * 256 + 1)
      /\ IF Count(name) = KEY_LEN
         THEN add_child_to_namespace(MutexKey, [type |-> "mutex", data |-> Byte(name.next)],
                                     name.next + 1, TRUE)
         ELSE Exit

def_op_region ==
  LET name   == parse_namestring(body)
      offset == term_arg_to_int(ns, name.next + 1)
      len    == term_arg_to_int(ns, offset.next)
  IN  /\ Term(91 * 256 + 128)
      /\ IF Count(name) = KEY_LEN /\ offset.ok /\ len.ok
         THEN add_child_to_namespace(name.segs[1],
                [type |-> "region",
                 data |-> [space |-> Byte(name.next), offset |-> offset.v, len |-> len.v]], len.next, FALSE)
         ELSE Exit

def_field ==
  LET size  == parse_length(body)
      name  == parse_namestring(size.next)
      obj   == locate_object(ns, name, FALSE)
      flags == Byte(name.next)
      elems == FieldElements(name.next + 1, 0, 0, TRUE, [access |-> flags % 16, region |-> obj.data],
                             nss[ns].children)
  IN  /\ Term(91 * 256 + 129)
      /\ IF valid_name(name) /\ obj.type = "region" /\ flags < 128 /\ elems.ok
         THEN Place([nss EXCEPT ![ns].children = elems.v.children, ![ns].code = body + size.len],
                    ~elems.v.exact)
         ELSE Exit

(* The elements of an index field are skipped. *)
def_index_field ==
  /\ Term(91 * 256 + 134)
  /\ Place(At(body + parse_length(body).len), TRUE)

(* The processor term is skipped. *)
Processor ==
  /\ Term(91 * 256 + 131)
  /\ Place(At(body + parse_length(body).len), TRUE)

(* The object a segment names, which has to be a buffer. *)
term_arg_to_buffer(space, p) ==
  LET obj == IF IsSegment(Byte(p)) THEN locate_object(space, Simple(Byte(p)), FALSE) ELSE NoObject
  IN  IF obj.type = "name" /\ obj.data.type = "buffer" THEN Got(obj.data, p + KEY_LEN) ELSE Fail

(* CreateWordField, and then the skip of the next case, which it runs into. *)
def_create_word_field ==
  LET buf   == term_arg_to_buffer(ns, body)
      index == term_arg_to_int(ns, buf.next)
      name  == parse_namestring(index.next)
  IN  /\ Term(139)
      /\ IF buf.ok /\ index.ok /\ Count(name) = KEY_LEN
         THEN /\ nss' = [nss EXCEPT ![ns].children = Stored(@, name.segs[1], [type |-> "word", data |-> index.v]),
                                    ![ns].code = name.next + parse_length(name.next).len]
              /\ off' = TRUE
              /\ UNCHANGED <<stack, status, misplaced>>
         ELSE Exit

(* Without an Else the terms of a false If are skipped.  A true If, and an  *)
(* Else, are read from their length on, and an Else ends as far behind its  *)
(* own length as the If is long.                                            *)
def_if_else ==
  LET if      == parse_length(body)
      pred    == term_arg_to_int(ns, if.next)
      behind  == body + if.len
      else    == parse_length(behind + 1)
      HasElse == Byte(behind) = 161
  IN  /\ Term(160)
      /\ CASE ~pred.ok -> Exit
           [] pred.ok /\ pred.v # 0 ->
                parse_termlist(At(pred.next), ns, body, behind, "else", if.len) /\ off' = TRUE /\ UNCHANGED misplaced
           [] pred.ok /\ pred.v = 0 /\ HasElse ->
                /\ parse_termlist(At(else.next), ns, behind + 1, behind + 1 + else.len,
                                  "continue", behind + 1 + if.len)
                /\ off' = TRUE /\ UNCHANGED misplaced
           [] pred.ok /\ pred.v = 0 /\ ~HasElse -> Proceed(At(behind))

(* A path of two segments, the first of which is not below ns but has been  *)
(* searched for upwards, to parent.                                         *)
Strays(name, parent) == Len(name.segs) = 2 /\ name.prefix = 0 /\ parent # resolve_scope(ns, Front(name.segs))

def_method ==
  LET size   == parse_length(body)
      name   == parse_namestring(size.next)
      code   == name.next + 1
      single == Count(name) \in {KEY_LEN, KEY_LEN + 1}
      scope  == CASE single /\ name.prefix = ROOT_CHAR -> root
                  [] single /\ name.prefix = PREFIX_CHAR -> nss[ns].parent
                  [] single /\ name.prefix = 0 -> ns
                  [] OTHER -> locate_object(ns, [name EXCEPT !.segs = Front(@)], TRUE)
      method == [code |-> code, len |-> size.len - (code - body), scope |-> Len(nss) + 1]
  IN  /\ Term(20)
      /\ IF name.segs # <<>> /\ (single \/ valid_name(name)) /\ scope # 0
         THEN /\ nss' = Append([nss EXCEPT
                   ![scope].children = Stored(@, Last(name.segs), [type |-> "method", data |-> method]),
                   ![ns].code = body + size.len],
                   Namespace(scope, Last(name.segs), code))
              /\ misplaced' = (misplaced \/ Strays(name, scope))
              /\ UNCHANGED <<stack, status, off>>
         ELSE Exit

def_scope ==
  LET size  == parse_length(body)
      name  == parse_namestring(size.next)
      scope == IF Count(name) = 0 THEN root ELSE locate_object(ns, name, TRUE)
      end   == body + size.len
  IN  /\ Term(16)
      /\ IF valid_name(name) /\ scope # 0
         THEN parse_termlist(At(name.next), scope, name.next, end, "continue", end) /\ UNCHANGED <<off, misplaced>>
         ELSE Exit

(* Where a device that does not exist is created.  Once locate_object has   *)
(* dropped a prefix, the parent and the name are cut from the moved buffer. *)
NewDevice(name) ==
  LET parent == [name EXCEPT !.segs = Front(@)]
  IN  CASE Count(name) = KEY_LEN -> [parent |-> ns, name |-> name.segs[1]]
        [] MovesName(ns, name) ->
             [parent |-> IF Len(name.segs) = 1 THEN root ELSE 0, name |-> Moved(Last(name.segs))]
        [] OTHER -> [parent |-> locate_object(ns, parent, TRUE), name |-> Last(name.segs)]

(* A device that is declared here but has been found further up. *)
Elsewhere(name, found) == Count(name) = KEY_LEN /\ found # Lookup(nss[ns].namespaces, name.segs[1], 0)

def_device ==
  LET size   == parse_length(body)
      name   == parse_namestring(size.next)
      found  == locate_object(ns, name, TRUE)
      end    == body + size.len
      new    == NewDevice(name)
      id     == Len(nss) + 1
      linked == IF new.parent = 0 THEN At(name.next)
                ELSE [At(name.next) EXCEPT ![new.parent].namespaces = Stored(@, new.name, id)]
  IN  /\ Term(91 * 256 + 130)
      /\ CASE ~valid_name(name) \/ Count(name) = 0 -> Exit
           [] valid_name(name) /\ Count(name) # 0 /\ found # 0 ->
                /\ parse_termlist(At(name.next), found, name.next, end, "continue", end)
                /\ misplaced' = (misplaced \/ Elsewhere(name, found)) /\ UNCHANGED off
           [] valid_name(name) /\ Count(name) # 0 /\ found = 0 ->
                /\ parse_termlist(Append(linked, Namespace(new.parent, new.name, name.next)),
                                  id, name.next, end, "continue", end)
                /\ off' = (off \/ MovesName(ns, name) \/ new.parent = 0)
                /\ misplaced' = (misplaced \/ Strays(name, new.parent))

Known == {160, 8, 20, 16, 6, 139} \union {91 * 256 + op : op \in {128, 129, 134, 130, 1, 131}}

(* An opcode parse_next does not know. *)
Unknown == stack # <<>> /\ Opcode \notin Known /\ Term(Opcode) /\ Exit

(* parse_termlist returns to its caller, which moves its own position. *)
EndTermlist ==
  LET back == [nss EXCEPT ![ns].code = Frame.copy]
  IN  /\ status \in {"parsing", "calling"}
      /\ here >= Frame.end
      /\ stack' = Front(stack)
      /\ nss' = CASE Frame.then = "continue" -> [back EXCEPT ![Frame.caller].code = Frame.at]
                  [] Frame.then = "else" -> IF Byte(Frame.copy) = 161
                                            THEN [back EXCEPT ![ns].code = Frame.copy + 1 + Frame.at]
                                            ELSE back
                  [] Frame.then = "return" -> back
      /\ status' = IF Frame.then # "return" THEN status
                   ELSE IF status = "parsing" THEN "done" ELSE "called"
      /\ UNCHANGED <<table, io, off, misplaced, entry, trace, ports>>

execute_method ==
  /\ status = "done"
  /\ \E id \in DOMAIN nss : \E key \in DOMAIN nss[id].children :
       LET method == nss[id].children[key].data
       IN  /\ nss[id].children[key].type = "method"
           /\ nss' = [nss EXCEPT ![method.scope].code = method.code]
           /\ stack' = <<[ns |-> method.scope, end |-> method.code + method.len,
                          copy |-> nss[method.scope].code, caller |-> method.scope,
                          then |-> "return", at |-> 0]>>
           /\ entry' = method.code
  /\ status' = "calling" /\ trace' = <<>>
  /\ UNCHANGED <<table, io, off, misplaced, ports>>

ACPI_SLEEP == 2^13

variable_to_int(variable) == IF variable.type \in {"byte", "short", "int", "long"} THEN variable.v ELSE Ones

(* typ << 10 | ACPI_SLEEP, of 16 bits: bit 3 of typ is the bit that is set. *)
SleepValue(typ) == ((typ - 8 * ((typ \div 8) % 2)) * 1024 + ACPI_SLEEP) % 2^16

(* Variant: both values are taken from the first element. *)
execute_sleep_First ==
  LET obj == Lookup(nss[root].children, S5, NoObject)
      typ == [i \in {1, 2} |-> variable_to_int(obj.data.v[1])]
  IN  /\ status \in {"done", "called"}
      /\ \E reduced \in BOOLEAN :
           IF /\ obj.type = "name" /\ obj.data.type = "package"
              /\ Ones \notin {typ[1], typ[2]}
              /\ ~reduced
           THEN /\ status' = "asleep"
                /\ ports' = <<SleepValue(typ[1]), SleepValue(typ[2])>>
           ELSE status' = "exit" /\ ports' = ports
      /\ UNCHANGED <<table, io, nss, stack, off, misplaced, entry, trace>>

(* execute_sleep(5), on a machine with the registers it can write to or     *)
(* with reduced hardware.  A package has at least the two elements.         *)
execute_sleep ==
  LET obj == Lookup(nss[root].children, S5, NoObject)
      typ == [i \in {1, 2} |-> variable_to_int(obj.data.v[i])]
  IN  /\ status \in {"done", "called"}
      /\ \E reduced \in BOOLEAN :
           IF /\ obj.type = "name" /\ obj.data.type = "package"
              /\ Ones \notin {typ[1], typ[2]}
              /\ ~reduced
           THEN /\ status' = "asleep"
                /\ ports' = <<SleepValue(typ[1]), SleepValue(typ[2])>>
           ELSE status' = "exit" /\ ports' = ports
      /\ UNCHANGED <<table, io, nss, stack, off, misplaced, entry, trace>>

Next ==
  \/ def_if_else \/ def_name \/ def_method \/ def_op_region \/ def_field \/ def_index_field \/ Processor
  \/ def_scope \/ def_device \/ def_mutex \/ def_alias \/ def_create_word_field \/ Unknown
  \/ EndTermlist \/ execute_method \/ execute_sleep

Spec == Init /\ [][Next]_vars
=============================================================================
