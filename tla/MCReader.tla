------------------------------ MODULE MCReader ------------------------------
(* Sources for model checking the Reader in a decoding call: messages that *)
(* use every form of the format, their truncations, extensions and         *)
(* single-byte corruptions; byte sequences around every limit of the two   *)
(* codecs; and buffers and views that are larger than the message,         *)
(* detached or no buffers at all.                                          *)
EXTENDS JsValues, Codec

Proto == <<95, 95, 112, 114, 111, 116, 111, 95, 95>>
a == <<97>>
b == <<98>>

Named(key, v) == <<OneByteTag, Len(key)>> \o key \o v
Object(properties, count) ==
  <<ObjectTag>> \o properties \o <<EndObjectTag, count>>
One(v) == <<DenseTag, 1>> \o v \o <<EndDenseTag, 0, 1>>
Empty == <<DenseTag, 0, EndDenseTag, 0, 0>>

Bodies ==
  { <<111, 34, 1, 200, 73, 4, 85, 7, 83, 2, 195, 169, 123, 2>>,  \* object
    <<65, 2, 0, 84, 99, 4, 0, 1, 44, 1, 36, 0, 2>>,      \* dense array
    <<97, 2, 85, 0, 95, 73, 2, 48, 64, 2, 2>>,           \* sparse array
    One(One(Object(Named(<<>>, Empty), 1))),             \* too deep
    <<111, 73, 1, 97, 1, 73, 0, 65, 0, 36, 0, 0, 64, 1, 1, 123, 1>>,
    <<63, 1, 66, 4, 5, 6, 7, 8, 0, 86, 119, 2, 2, 0>>,   \* view, old count
    <<92, 3, 2, 8, 9>>,                                  \* host object
    <<68, 0, 0, 0, 0, 0, 0, 248, 63, 0, 0>>,             \* date, padding
    One(<<70>>), Empty, Object(<<>>, 0) }

(* Objects whose names repeat, among them one that is a number, and views. *)
Graphs ==
  { Object(Named(a, <<TrueTag>>) \o Named(b, <<NullTag>>)
             \o Named(a, One(<<Int32Tag, 2>>)), 3),
    Object(Named(Proto, Object(<<>>, 0)) \o Named(b, <<FalseTag>>), 2),
    Object(<<Uint32Tag, 7, UndefinedTag>> \o Named(<<55>>, <<TrueTag>>), 2),
    One(One(<<Uint32Tag, 3>>)), One(One(One(<<NullTag>>))),
    <<BufferTag, 2, 1, 2, ViewTag, 63, 1, 1, 0>>,
    <<HostObjectTag, 5, 4, 8, 9, 7, 6>> }

Meaningful == {0, 1, 2, 3, 4, 127, 128, 239,
               34, 36, 45, 64, 65, 73, 86, 92, 95, 97, 111, 123}

Groups == {0, 1, 15, 16, 17, 127, 128, 129, 143, 144, 255}
Varints == UNION {[1 .. n -> Groups] : n \in 0 .. 2}
             \cup {<<g, 128, h>> : g \in {0, 128, 255}, h \in Groups}
             \cup {<<255, g, 0>> : g \in Groups}

Leads == {0, 65, 127, 128, 191, 192, 193, 194, 223, 224, 225, 236, 237, 238,
          239, 240, 241, 243, 244, 245, 247, 248, 255}
Seconds == {127, 128, 143, 144, 159, 160, 191, 192}
Utf8 ==
  {<<>>} \cup {<<x>> : x \in Leads}
    \cup {<<x, y>> : x \in Leads, y \in Seconds \cup {65}}
    \cup {<<x, y, z>> : x \in Leads, y \in Seconds, z \in {65, 128, 191, 192}}
    \cup {<<x, y, 128, z>> : x \in Leads, y \in Seconds,
                             z \in {127, 128, 191, 192}}
    \cup {<<x, 128, 191, 191, y>> : x \in Leads, y \in {0, 195, 240}}

Truncated(m) == {SubSeq(m, 1, n) : n \in 0 .. Len(m) - 1}
Corrupted(m, S) == {[m EXCEPT ![i] = x] : i \in 1 .. Len(m), x \in S}
Extended(m) == {Append(m, x) : x \in Meaningful}

Whole == {Header \o body : body \in Bodies}
Messages ==
  Whole
    \cup UNION {Truncated(m) \cup Corrupted(m, Meaningful) \cup Extended(m) :
                  m \in Whole}
    \cup UNION {{m} \cup Corrupted(m, {1, 3}) :
                  m \in {Header \o body : body \in Graphs}}
    \cup {Header \o <<tag>> \o body : tag \in {Uint32Tag, Int32Tag},
                                       body \in Varints}
    \cup {Header \o <<Utf8Tag, Len(body)>> \o body : body \in Utf8}

Source(kind, detached, memory, offset, length) ==
  [kind |-> kind, detached |-> detached, memory |-> memory,
   offset |-> offset, length |-> length]

MCSources ==
  {Source("ArrayBuffer", FALSE, m, 0, Len(m)) : m \in Messages}
    \cup UNION {{Source("TypedArray", FALSE, <<7>> \o m \o <<8, 9>>, 1, Len(m)),
                 Source("DataView", FALSE, <<7, 8>> \o m, 2, Len(m) - 1)} :
                  m \in Whole}
    \cup {Source("ArrayBuffer", TRUE, <<>>, 0, 0),
          Source("TypedArray", TRUE, <<>>, 0, 0),
          Source("other", FALSE, <<>>, 0, 0)}
=============================================================================
