----------------------------- MODULE CameraMessage -----------------------------
(***************************************************************************)
(* VCameraMessage: variables of that class, constructed, loaded from the   *)
(* bytes of one another, copied, moved, assigned and changed.              *)
(*                                                                         *)
(* A variable has two parts: _private, of which only whether it is there   *)
(* counts, for empty() asks it; and _string, the bytes, from which all the *)
(* rest is read.  Bytes are taken four at a time, as words:                *)
(*     lead code, length, token, data ..., checksum                        *)
(* where the length counts token and data, in words as well.  setLength    *)
(* may make it any number, and the place of the checksum goes with it.     *)
(***************************************************************************)
EXTENDS Integers, Sequences

CONSTANTS
  Msgs,      \* the variables
  Tokens,    \* the tokens in use
  Words,     \* what a word of data may be
  MaxData,   \* bound on the words of data a message is given
  MaxLength  \* bound on what a length field may be

ASSUME DataAssumption ==
  /\ MaxData \in Nat /\ MaxLength \in Nat /\ MaxLength > MaxData
  /\ Tokens \subseteq Nat \ {0}

VARIABLES
  held,    \* the variable is not empty()
  string,  \* _string of the variable
  put,     \* history: the fields that were put into the variable's bytes,
           \* None if they are not those of such a message
  outside  \* "bytes" once something outside a message's bytes was read or
           \* written, "null" once a null pointer was followed, "no" before

messageVars == <<held, string, put, outside>>

Lead == <<"lead">>
Num(n) == <<"num", n>>
Zero == Num(0)
Tok(t) == <<"tok", t>>
Datum(w) == <<"data", w>>

(* A checksum is the words it was computed from.  Checksums of checksums   *)
(* are not told apart: no message that is as it was put has one.           *)
Crc(words) ==
  <<"crc", IF \E i \in DOMAIN words : words[i][1] = "crc" THEN <<>> ELSE words>>

Bodies == UNION {[1 .. k -> Words] : k \in 0 .. MaxData}
Fields(t, n, body, fresh) == [token |-> t, length |-> n, data |-> body, fresh |-> fresh]
None == Fields(0, 0, <<>>, FALSE)
Messages == [token : Tokens, length : 0 .. MaxLength, data : Bodies, fresh : BOOLEAN]

(* The length counts the token and the data. *)
Fitting(w) == w # None /\ w.length = 1 + Len(w.data)

(* VCameraMessage(): an empty message. *)
MessageInit ==
  /\ held = [m \in Msgs |-> FALSE]
  /\ string = [m \in Msgs |-> <<>>]
  /\ put = [m \in Msgs |-> None]
  /\ outside = "no"

-----------------------------------------------------------------------------
(* Bytes.                                                                  *)
Data(body) == [i \in DOMAIN body |-> Datum(body[i])]
Middle(s) == SubSeq(s, 2, Len(s) - 1)

(* Mutant: the checksum covers the lead code. *)
MutFrame(t, body, crc) ==
  LET start == <<Lead, Num(1 + Len(body)), Tok(t)>> \o Data(body)
  IN  Append(start, IF crc THEN Crc(start) ELSE Zero)

Frame(t, body, crc) ==
  LET start == <<Lead, Num(1 + Len(body)), Tok(t)>> \o Data(body)
  IN  Append(start, IF crc THEN Crc(Tail(start)) ELSE Zero)

(* length(): what lies behind the first word, be it a number or some other *)
(* word, or behind the bytes, when anything may be read.                   *)
LengthsOf(s) ==
  {n \in 0 .. MaxLength : Len(s) >= 2 /\ s[2][1] = "num" => s[2] = Num(n)}

(* The checksum lies behind as many words as the length counts. *)
HasCrc(s, n) == 3 + n <= Len(s)
CheckCrc(s, n) == s[3 + n] = Crc(Middle(s))

(* load: the buffer may hold more than the message.  Only the lead code is *)
(* taken for one: no other word agrees with it in any byte.                *)
Loads(s, n) == s[1] = Lead /\ Len(s) >= 3 + n
MessageIn(s, n) == SubSeq(s, 1, 3 + n)

MessageTypeOK ==
  /\ held \in [Msgs -> BOOLEAN]
  /\ DOMAIN string = Msgs /\ \A m \in Msgs : Len(string[m]) <= MaxLength + 3
  /\ put \in [Msgs -> Messages \cup {None}]
  /\ outside \in {"no", "bytes", "null"}

-----------------------------------------------------------------------------
(* Construction.                                                           *)
Write(m, s, w, o) ==
  /\ string' = [string EXCEPT ![m] = s]
  /\ put' = [put EXCEPT ![m] = w]
  /\ outside' = o

Becomes(m, h, s, w) ==
  /\ held' = [held EXCEPT ![m] = h]
  /\ Write(m, s, w, "no")

(* VCameraMessage(token, data, len, gen_crc) *)
Construct(m) ==
  \E t \in Tokens, body \in Bodies, crc \in BOOLEAN :
    Becomes(m, TRUE, Frame(t, body, crc), Fields(t, 1 + Len(body), body, crc))

(* VCameraMessage(raw, size), from the bytes of another variable, whatever *)
(* they are, as long as there are any.                                     *)
ConstructRaw(m, p) ==
  /\ string[p] # <<>>
  /\ Becomes(m, TRUE, string[p], put[p])

(* load from the bytes of another variable, as they come from a socket:    *)
(* some of them or all, and other bytes behind them; at least a head.      *)
LoadFrom(m, p) ==
  \E s \in {SubSeq(string[p], 1, k) : k \in 2 .. Len(string[p])} \cup {Append(string[p], Zero)} :
    /\ Len(s) >= 2
    /\ \E n \in LengthsOf(s) :
         \/ /\ Loads(s, n)
            /\ Becomes(m, TRUE, MessageIn(s, n), IF Fitting(put[p]) THEN put[p] ELSE None)
         \/ /\ ~Loads(s, n)
            /\ Becomes(m, FALSE, <<>>, None)

-----------------------------------------------------------------------------
(* Handing on.                                                             *)

(* The copy's bytes are other.length() bytes from other.data(): the data   *)
(* and the checksum, without the head.  Copying an empty message follows a *)
(* null pointer.                                                           *)
Copy(m, p) ==
  \/ /\ ~held[p]
     /\ outside' = "null" /\ UNCHANGED <<held, string, put>>
  \/ /\ held[p]
     /\ \E n \in LengthsOf(string[p]) :
          \/ /\ HasCrc(string[p], n)
             /\ Becomes(m, TRUE, SubSeq(string[p], 4, 3 + n), None)
          \/ /\ ~HasCrc(string[p], n)
             /\ outside' = "bytes" /\ UNCHANGED <<held, string, put>>

(* Neither assignment touches _string. *)
Assign(m, p) ==
  /\ held' = [held EXCEPT ![m] = held[p]]
  /\ UNCHANGED <<string, put, outside>>

MoveAssign(m, p) ==
  /\ held' = [held EXCEPT ![m] = held[p], ![p] = FALSE]
  /\ UNCHANGED <<string, put, outside>>

(* The constructor that moves leaves the new _string empty. *)
Move(m, p) ==
  /\ held' = [held EXCEPT ![m] = held[p], ![p] = FALSE]
  /\ Write(m, <<>>, None, "no")

-----------------------------------------------------------------------------
(* Reading and changing.                                                   *)

(* token, data, crc and checkCrc of a message that is not empty *)
Read(m) ==
  /\ held[m]
  /\ \E n \in LengthsOf(string[m]) :
       outside' = IF HasCrc(string[m], n) THEN "no" ELSE "bytes"
  /\ UNCHANGED <<held, string, put>>

(* A word x put where the length n says the checksum lies, into the bytes  *)
(* s that have the fields w: over the checksum, over another word, or      *)
(* behind the bytes.                                                       *)
PutCrc(m, s, n, x, w, fresh) ==
  \/ /\ HasCrc(s, n)
     /\ Write(m, [s EXCEPT ![3 + n] = x],
              IF Fitting(w) THEN [w EXCEPT !.fresh = fresh] ELSE None, "no")
  \/ /\ ~HasCrc(s, n)
     /\ Write(m, s, w, "bytes")

Unchecked(w) == IF w = None THEN None ELSE [w EXCEPT !.fresh = FALSE]

(* updateCrc computes it from all the bytes but the lead code and the last *)
(* word.                                                                   *)
Updated(m, s, w) ==
  \E n \in LengthsOf(s) : PutCrc(m, s, n, Crc(Middle(s)), w, TRUE)

UpdateCrc(m) ==
  /\ held[m]
  /\ Updated(m, string[m], Unchecked(put[m]))
  /\ UNCHANGED held

(* setCrc, of a number that is not the checksum. *)
SetCrc(m) ==
  /\ held[m]
  /\ \E n \in LengthsOf(string[m]) :
       PutCrc(m, string[m], n, Zero, Unchecked(put[m]), FALSE)
  /\ UNCHANGED held

(* The bytes become s, with the fields w; the checksum is updated or not. *)
Change(m, s, w, up) ==
  /\ IF up THEN Updated(m, s, w) ELSE Write(m, s, w, "no")
  /\ UNCHANGED held

(* A word behind the bytes: setToken and setLength leave them. *)
Misses(m, i) ==
  /\ i > Len(string[m])
  /\ outside' = "bytes" /\ UNCHANGED <<held, string, put>>

SetToken(m) ==
  /\ held[m]
  /\ \/ Misses(m, 3)
     \/ /\ 3 <= Len(string[m])
        /\ \E t \in Tokens, up \in BOOLEAN :
             Change(m, [string[m] EXCEPT ![3] = Tok(t)],
                    IF put[m] = None THEN None
                      ELSE Fields(t, put[m].length, put[m].data, FALSE), up)

SetLength(m) ==
  /\ held[m]
  /\ \/ Misses(m, 2)
     \/ /\ 2 <= Len(string[m])
        /\ \E n \in 0 .. MaxLength, up \in BOOLEAN :
             Change(m, [string[m] EXCEPT ![2] = Num(n)],
                    IF put[m] = None THEN None
                      ELSE Fields(put[m].token, n, put[m].data, FALSE), up)

Resized(s) == [i \in 1 .. 3 |-> IF i <= Len(s) THEN s[i] ELSE Zero]

(* The data behind the head, and room for the checksum. *)
Filled(h, body) == h \o Data(body) \o <<Zero>>

(* Mutant: the length is left as it was. *)
MutWithData(s, body) == Filled(Resized(s), body)

(* Mutant: the data are put behind what was there. *)
MutRefilled(s, body) == Filled([s EXCEPT ![2] = Num(1 + Len(body))], body)

(* resize, append, and setLength of a message that is not empty *)
WithData(s, body) == Filled([Resized(s) EXCEPT ![2] = Num(1 + Len(body))], body)

(* An empty message gets the bytes, but neither length nor checksum. *)
SetData(m) ==
  \E body \in Bodies, up \in BOOLEAN :
    \/ /\ held[m]
       /\ Change(m, WithData(string[m], body),
                 IF put[m] = None THEN None
                   ELSE Fields(put[m].token, 1 + Len(body), body, FALSE), up)
    \/ /\ ~held[m]
       /\ Becomes(m, FALSE, Filled(Resized(string[m]), body), None)

MessageNext ==
  /\ outside = "no"
  /\ \E m \in Msgs :
       \/ Construct(m) \/ Read(m)
       \/ SetToken(m) \/ SetLength(m) \/ SetData(m) \/ SetCrc(m) \/ UpdateCrc(m)
       \/ \E p \in Msgs \ {m} : \/ ConstructRaw(m, p) \/ LoadFrom(m, p)
                                \/ Copy(m, p) \/ Assign(m, p)
                                \/ Move(m, p) \/ MoveAssign(m, p)

MessageSpec == MessageInit /\ [][MessageNext]_messageVars

-----------------------------------------------------------------------------
(* Bytes that a message was put into, by a constructor, load or a setter,  *)
(* keep it, whatever is done with the variable besides, until a copy, a    *)
(* move or the checksum of another length writes over them: lead code,     *)
(* length, token and data are the last that were put; and if the length is *)
(* the one of the data, they load as themselves, and pass checkCrc once    *)
(* the checksum was updated.                                               *)
ReadsBack ==
  \A m \in Msgs : put[m] # None =>
    /\ string[m][1] = Lead
    /\ LengthsOf(string[m]) = {put[m].length}
    /\ string[m][3] = Tok(put[m].token)
    /\ SubSeq(string[m], 4, Len(string[m]) - 1) = Data(put[m].data)
    /\ Fitting(put[m]) =>
         /\ Loads(string[m], put[m].length)
         /\ MessageIn(string[m], put[m].length) = string[m]
         /\ put[m].fresh => CheckCrc(string[m], put[m].length)

(* Nothing outside a message's bytes is read or written, unless there is a *)
(* variable that is not empty() and whose bytes are no message that was    *)
(* put into them, or whose length counts more than there is.               *)
StaysInside ==
  outside = "bytes" =>
    \E m \in Msgs : /\ held[m]
                    /\ put[m] = None \/ put[m].length > 1 + Len(put[m].data)
=============================================================================
