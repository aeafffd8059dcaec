-------------------------------- MODULE Utf ---------------------------------
(* The runes of lib/utf.c: numbers of characters, written as one to four   *)
(* bytes.  A text is the sequence of its bytes, ended by 0; p is a place   *)
(* in it, and to read behind the end is an error.  Numbers are below 2^31. *)
EXTENDS Integers, SequencesExt

Runeself == \h80
Runesync == \h80
Runeerror == \hFFFD
Runemax == \h10FFFF
Rune1 == \h7F
Rune2 == \h7FF
Rune3 == \hFFFF
Tx == \h80
T2 == \hC0
T3 == \hE0
T4 == \hF0
T5 == \hF8
-----------------------------------------------------------------------------
(* What is not the shortest form of a rune is the rune Runeerror, of one   *)
(* byte.                                                                   *)
Failed == [rune |-> Runeerror, size |-> 1]
Continues(b) == b \div 64 = 2
Rest(s, p, n) == FoldLeft(LAMBDA l, b : 64 * l + (b % 64), s[p] % 2 ^ (7 - n), SubSeq(s, p + 1, p + n - 1))
Decoded_Overlong(s, p, n, least, most) ==               \* a slip: of a form that is not the shortest
  LET l == Rest(s, p, n) IN IF l > most THEN Failed ELSE [rune |-> l, size |-> n]

Decoded(s, p, n, least, most) ==
  LET l == Rest(s, p, n) IN IF l <= least \/ l > most THEN Failed ELSE [rune |-> l, size |-> n]

get_rune(s, p) ==
  CASE s[p] < Tx -> [rune |-> s[p], size |-> 1]
    [] s[p] >= Tx /\ ~Continues(s[p + 1]) -> Failed
    [] s[p] \in Tx .. T2 - 1 /\ Continues(s[p + 1]) -> Failed
    [] s[p] \in T2 .. T3 - 1 /\ Continues(s[p + 1]) -> Decoded(s, p, 2, Rune1, Rune2)
    [] s[p] >= T3 /\ Continues(s[p + 1]) ->
         IF ~Continues(s[p + 2]) THEN Failed
         ELSE IF s[p] < T4 THEN Decoded(s, p, 3, Rune2, Rune3)
         ELSE IF ~Continues(s[p + 3]) \/ s[p] >= T5 THEN Failed
         ELSE Decoded(s, p, 4, Rune3, Runemax)

fullrune(s, p, n) ==
  /\ n > 0
  /\ n >= (CASE s[p] < Tx -> 1 [] s[p] \in Tx .. T3 - 1 -> 2 [] s[p] \in T3 .. T4 - 1 -> 3 [] s[p] >= T4 -> 4)

Tail6(c, k) == Tx + ((c \div 64 ^ k) % 64)
runetochar(rune) ==
  LET c == IF rune > Runemax THEN Runeerror ELSE rune
  IN CASE c <= Rune1 -> <<c>>
       [] c \in Rune1 + 1 .. Rune2 -> <<T2 + c \div 64, Tail6(c, 0)>>
       [] c \in Rune2 + 1 .. Rune3 -> <<T3 + c \div 64 ^ 2, Tail6(c, 1), Tail6(c, 0)>>
       [] c > Rune3 -> <<T4 + c \div 64 ^ 3, Tail6(c, 2), Tail6(c, 1), Tail6(c, 0)>>
runelen(c) == Len(runetochar(c))
runenlen(r) ==
  FoldLeft(LAMBDA nb, c : nb + (CASE c <= Rune1 -> 1 [] c \in Rune1 + 1 .. Rune2 -> 2
                                  [] c \in Rune2 + 1 .. Rune3 \/ c > Runemax -> 3
                                  [] c \in Rune3 + 1 .. Runemax -> 4), 0, r)
-----------------------------------------------------------------------------
(* The walk along a text, a rune at a time: the places of its runes from p *)
(* to its end.                                                             *)
RECURSIVE Places(_, _)
Places(s, p) ==
  CASE s[p] = 0 -> <<>>
    [] s[p] \in 1 .. Runeself - 1 -> <<p>> \o Places(s, p + 1)
    [] s[p] >= Runeself -> <<p>> \o Places(s, p + get_rune(s, p).size)
runecount(s) == Len(Places(s, 1))

RECURSIVE CountBefore(_, _, _)
CountBefore(s, p, e) ==
  IF p >= e \/ s[p] = 0 \/ (s[p] >= Runeself /\ ~fullrune(s, p, e - p)) THEN 0
  ELSE 1 + CountBefore(s, IF s[p] < Runeself THEN p + 1 ELSE p + get_rune(s, p).size, e)
utfnlen(s, n) == CountBefore(s, 1, 1 + n)

(* The libc looks for a byte or a text among bytes; no place is 0.         *)
Bytes(s) == SubSeq(s, 1, Len(s) - 1)
At(s, p, t) == p + Len(t) - 1 <= Len(s) /\ SubSeq(s, p, p + Len(t) - 1) = t
FirstOf(P) == IF P = {} THEN 0 ELSE CHOOSE p \in P : \A q \in P : p <= q
LastOf(P) == IF P = {} THEN 0 ELSE CHOOSE p \in P : \A q \in P : p >= q
strstr(s, p, t) == FirstOf({q \in p .. Len(s) : At(s, q, t)})
ByteAt(s, p, c) == {q \in p .. Len(s) : s[q] = c}
RuneAt(s, p, c) == LET W == Places(s, p) IN {W[k] : k \in {j \in DOMAIN W : get_rune(s, W[j]).rune = c}}

utfrune(s, p, c) == FirstOf(IF c < Runesync THEN ByteAt(s, p, c) ELSE RuneAt(s, p, c))
utfrrune(s, c) == LastOf(IF c < Runesync THEN ByteAt(s, 1, c) ELSE RuneAt(s, 1, c))

RECURSIVE FindFrom(_, _, _, _)
FindFrom(s, p, t, first) ==
  LET q == utfrune(s, p, first.rune)
  IN IF q = 0 \/ At(s, q, Bytes(t)) THEN q ELSE FindFrom(s, q + first.size, t, first)
utfutf(s, t) ==
  LET first == get_rune(t, 1)
  IN IF first.rune <= Runesync THEN strstr(s, 1, Bytes(t)) ELSE FindFrom(s, 1, t, first)
-----------------------------------------------------------------------------
(* Texts of runes, ended by 0 too, in memory.  What is copied is copied    *)
(* without its end (of an empty text, the end and then what follows it):   *)
(* the copy ends where its memory has been 0.                              *)
EndOf(m) == FirstOf({k \in DOMAIN m : m[k] = 0})
Parting(s, t) == FirstOf({k \in DOMAIN s \cap DOMAIN t : s[k] = 0 \/ s[k] # t[k]})
Order(a, b) == IF a > b THEN 1 ELSE IF a = b THEN 0 ELSE -1
runestrcmp(s, t) == LET k == Parting(s, t) IN Order(s[k], t[k])
runestrncmp(s, t, n) == IF Parting(s, t) > n THEN 0 ELSE runestrcmp(s, t)

Copied(t) == FirstOf({k \in 2 .. Len(t) : t[k] = 0}) - 1
runestrcpy(m, p, t) == [k \in DOMAIN m |-> IF k \in p .. p + Copied(t) - 1 THEN t[k - p + 1] ELSE m[k]]
runestrcat(m, t) == runestrcpy(m, EndOf(m), t)
runestrdup(s) == runestrcpy([k \in 1 .. EndOf(s) |-> 0], 1, s)
runestrncpy(m, t, n) == [k \in DOMAIN m |-> IF k > n THEN m[k] ELSE IF k <= Copied(t) THEN t[k] ELSE 0]
-----------------------------------------------------------------------------
(* The tables, of ranges and of single runes, in their order; the third    *)
(* column, from which the code takes 500, is what is added to change the   *)
(* case.  Runs of every second rune are written as one.                    *)
Singles(list) == [k \in DOMAIN list |-> <<list[k], list[k]>>]
EverySecond(list) ==
  FoldLeft(LAMBDA t, row : t \o [k \in 1 .. (row[2] - row[1]) \div 2 + 1 |->
                                   <<row[1] + 2 * (k - 1), row[1] + 2 * (k - 1), row[3]>>], <<>>, list)

alpha2 == <<
    <<\hd8, \hf6>>, <<\hf8, \h1f5>>, <<\h250, \h2a8>>, <<\h38e, \h3a1>>, <<\h3a3, \h3ce>>,
    <<\h3d0, \h3d6>>, <<\h3e2, \h3f3>>, <<\h490, \h4c4>>, <<\h561, \h587>>, <<\h5d0, \h5ea>>,
    <<\h5f0, \h5f2>>, <<\h621, \h63a>>, <<\h640, \h64a>>, <<\h671, \h6b7>>, <<\h6ba, \h6be>>,
    <<\h6c0, \h6ce>>, <<\h6d0, \h6d3>>, <<\h905, \h939>>, <<\h958, \h961>>, <<\h985, \h98c>>,
    <<\h98f, \h990>>, <<\h993, \h9a8>>, <<\h9aa, \h9b0>>, <<\h9b6, \h9b9>>, <<\h9dc, \h9dd>>,
    <<\h9df, \h9e1>>, <<\h9f0, \h9f1>>, <<\ha05, \ha0a>>, <<\ha0f, \ha10>>, <<\ha13, \ha28>>,
    <<\ha2a, \ha30>>, <<\ha32, \ha33>>, <<\ha35, \ha36>>, <<\ha38, \ha39>>, <<\ha59, \ha5c>>,
    <<\ha85, \ha8b>>, <<\ha8f, \ha91>>, <<\ha93, \haa8>>, <<\haaa, \hab0>>, <<\hab2, \hab3>>,
    <<\hab5, \hab9>>, <<\hb05, \hb0c>>, <<\hb0f, \hb10>>, <<\hb13, \hb28>>, <<\hb2a, \hb30>>,
    <<\hb32, \hb33>>, <<\hb36, \hb39>>, <<\hb5c, \hb5d>>, <<\hb5f, \hb61>>, <<\hb85, \hb8a>>,
    <<\hb8e, \hb90>>, <<\hb92, \hb95>>, <<\hb99, \hb9a>>, <<\hb9e, \hb9f>>, <<\hba3, \hba4>>,
    <<\hba8, \hbaa>>, <<\hbae, \hbb5>>, <<\hbb7, \hbb9>>, <<\hc05, \hc0c>>, <<\hc0e, \hc10>>,
    <<\hc12, \hc28>>, <<\hc2a, \hc33>>, <<\hc35, \hc39>>, <<\hc60, \hc61>>, <<\hc85, \hc8c>>,
    <<\hc8e, \hc90>>, <<\hc92, \hca8>>, <<\hcaa, \hcb3>>, <<\hcb5, \hcb9>>, <<\hce0, \hce1>>,
    <<\hd05, \hd0c>>, <<\hd0e, \hd10>>, <<\hd12, \hd28>>, <<\hd2a, \hd39>>, <<\hd60, \hd61>>,
    <<\he01, \he30>>, <<\he32, \he33>>, <<\he40, \he46>>, <<\he5a, \he5b>>, <<\he81, \he82>>,
    <<\he87, \he88>>, <<\he94, \he97>>, <<\he99, \he9f>>, <<\hea1, \hea3>>, <<\heaa, \heab>>,
    <<\head, \heae>>, <<\heb2, \heb3>>, <<\hec0, \hec4>>, <<\hedc, \hedd>>, <<\hf18, \hf19>>,
    <<\hf40, \hf47>>, <<\hf49, \hf69>>, <<\h10d0, \h10f6>>, <<\h1100, \h1159>>, <<\h115f, \h11a2>>,
    <<\h11a8, \h11f9>>, <<\h1e00, \h1e9b>>, <<\h1f50, \h1f57>>, <<\h1f80, \h1fb4>>,
    <<\h1fb6, \h1fbc>>, <<\h1fc2, \h1fc4>>, <<\h1fc6, \h1fcc>>, <<\h1fd0, \h1fd3>>,
    <<\h1fd6, \h1fdb>>, <<\h1fe0, \h1fec>>, <<\h1ff2, \h1ff4>>, <<\h1ff6, \h1ffc>>,
    <<\h210a, \h2113>>, <<\h2115, \h211d>>, <<\h2120, \h2122>>, <<\h212a, \h2131>>,
    <<\h2133, \h2138>>, <<\h3041, \h3094>>, <<\h30a1, \h30fa>>, <<\h3105, \h312c>>,
    <<\h3131, \h318e>>, <<\h3192, \h319f>>, <<\h3260, \h327b>>, <<\h328a, \h32b0>>,
    <<\h32d0, \h32fe>>, <<\h3300, \h3357>>, <<\h3371, \h3376>>, <<\h337b, \h3394>>,
    <<\h3399, \h339e>>, <<\h33a9, \h33ad>>, <<\h33b0, \h33c1>>, <<\h33c3, \h33c5>>,
    <<\h33c7, \h33d7>>, <<\h33d9, \h33dd>>, <<\h4e00, \h9fff>>, <<\hac00, \hd7a3>>,
    <<\hf900, \hfb06>>, <<\hfb13, \hfb17>>, <<\hfb1f, \hfb28>>, <<\hfb2a, \hfb36>>,
    <<\hfb38, \hfb3c>>, <<\hfb40, \hfb41>>, <<\hfb43, \hfb44>>, <<\hfb46, \hfbb1>>,
    <<\hfbd3, \hfd3d>>, <<\hfd50, \hfd8f>>, <<\hfd92, \hfdc7>>, <<\hfdf0, \hfdf9>>,
    <<\hfe70, \hfe72>>, <<\hfe76, \hfefc>>, <<\hff66, \hff6f>>, <<\hff71, \hff9d>>,
    <<\hffa0, \hffbe>>, <<\hffc2, \hffc7>>, <<\hffca, \hffcf>>, <<\hffd2, \hffd7>>,
    <<\hffda, \hffdc>>>>
alpha1 == Singles(<<
    \haa, \hb5, \hba, \h3da, \h3dc, \h3de, \h3e0, \h6d5, \h9b2, \ha5e, \ha8d, \hae0, \hb9c, \hcde,
    \he4f, \he84, \he8a, \he8d, \hea5, \hea7, \heb0, \hebd, \h1fbe, \h207f, \h20a8, \h2102, \h2107,
    \h2124, \h2126, \h2128, \hfb3e, \hfe74>>)
space2 == <<
    <<\h9, \ha>>, <<\h20, \h20>>, <<\ha0, \ha0>>, <<\h2000, \h200b>>, <<\h2028, \h2029>>,
    <<\h3000, \h3000>>, <<\hfeff, \hfeff>>>>

toupper2 == <<
    <<\h61, \h7a, -32>>, <<\he0, \hf6, -32>>, <<\hf8, \hfe, -32>>, <<\h256, \h257, -205>>,
    <<\h258, \h259, -202>>, <<\h28a, \h28b, -217>>, <<\h3ad, \h3af, -37>>, <<\h3b1, \h3c1, -32>>,
    <<\h3c3, \h3cb, -32>>, <<\h3cd, \h3ce, -63>>, <<\h430, \h44f, -32>>, <<\h451, \h45c, -80>>,
    <<\h45e, \h45f, -80>>, <<\h561, \h586, -48>>, <<\h1f00, \h1f07, 8>>, <<\h1f10, \h1f15, 8>>,
    <<\h1f20, \h1f27, 8>>, <<\h1f30, \h1f37, 8>>, <<\h1f40, \h1f45, 8>>, <<\h1f60, \h1f67, 8>>,
    <<\h1f70, \h1f71, 74>>, <<\h1f72, \h1f75, 86>>, <<\h1f76, \h1f77, 100>>,
    <<\h1f78, \h1f79, 128>>, <<\h1f7a, \h1f7b, 112>>, <<\h1f7c, \h1f7d, 126>>,
    <<\h1f80, \h1f87, 8>>, <<\h1f90, \h1f97, 8>>, <<\h1fa0, \h1fa7, 8>>, <<\h1fb0, \h1fb1, 8>>,
    <<\h1fd0, \h1fd1, 8>>, <<\h1fe0, \h1fe1, 8>>, <<\h2170, \h217f, -16>>, <<\h24d0, \h24e9, -26>>,
    <<\hff41, \hff5a, -32>>>>
toupperLatin == EverySecond(<<
    <<\hff, \hff, 121>>, <<\h101, \h12f, -1>>, <<\h131, \h131, -232>>, <<\h133, \h137, -1>>,
    <<\h13a, \h148, -1>>, <<\h14b, \h177, -1>>, <<\h17a, \h17e, -1>>, <<\h17f, \h17f, -300>>,
    <<\h183, \h185, -1>>, <<\h188, \h188, -1>>, <<\h18c, \h18c, -1>>, <<\h192, \h192, -1>>,
    <<\h199, \h199, -1>>, <<\h1a1, \h1a5, -1>>, <<\h1a8, \h1a8, -1>>, <<\h1ad, \h1ad, -1>>,
    <<\h1b0, \h1b0, -1>>, <<\h1b4, \h1b6, -1>>, <<\h1b9, \h1b9, -1>>, <<\h1bd, \h1bd, -1>>,
    <<\h1c5, \h1c5, -1>>, <<\h1c6, \h1c6, -2>>, <<\h1c8, \h1c8, -1>>, <<\h1c9, \h1c9, -2>>,
    <<\h1cb, \h1cb, -1>>, <<\h1cc, \h1cc, -2>>, <<\h1ce, \h1dc, -1>>, <<\h1df, \h1ef, -1>>,
    <<\h1f2, \h1f2, -1>>, <<\h1f3, \h1f3, -2>>, <<\h1f5, \h1f5, -1>>, <<\h1fb, \h217, -1>>,
    <<\h253, \h253, -210>>, <<\h254, \h254, -206>>, <<\h25b, \h25b, -203>>, <<\h260, \h260, -205>>,
    <<\h263, \h263, -207>>, <<\h268, \h268, -209>>, <<\h269, \h269, -211>>, <<\h26f, \h26f, -211>>,
    <<\h272, \h272, -213>>, <<\h283, \h283, -218>>, <<\h288, \h288, -218>>, <<\h292, \h292, -219>>,
    <<\h3ac, \h3ac, -38>>, <<\h3cc, \h3cc, -64>>, <<\h3d0, \h3d0, -62>>, <<\h3d1, \h3d1, -57>>,
    <<\h3d5, \h3d5, -47>>, <<\h3d6, \h3d6, -54>>, <<\h3e3, \h3ef, -1>>, <<\h3f0, \h3f0, -86>>,
    <<\h3f1, \h3f1, -80>>>>)
toupperCyrillic == EverySecond(<<
    <<\h461, \h481, -1>>, <<\h491, \h4bf, -1>>, <<\h4c2, \h4c4, -1>>, <<\h4c8, \h4c8, -1>>,
    <<\h4cc, \h4cc, -1>>, <<\h4d1, \h4eb, -1>>, <<\h4ef, \h4f5, -1>>, <<\h4f9, \h4f9, -1>>>>)
toupperExtended == EverySecond(<<
    <<\h1e01, \h1e95, -1>>, <<\h1ea1, \h1ef9, -1>>, <<\h1f51, \h1f57, 8>>, <<\h1fb3, \h1fb3, 9>>,
    <<\h1fc3, \h1fc3, 9>>, <<\h1fe5, \h1fe5, 7>>, <<\h1ff3, \h1ff3, 9>>>>)
toupper1 == toupperLatin \o toupperCyrillic \o toupperExtended
tolower2 == <<
    <<\h41, \h5a, 32>>, <<\hc0, \hd6, 32>>, <<\hd8, \hde, 32>>, <<\h189, \h18a, 205>>,
    <<\h18e, \h18f, 202>>, <<\h1b1, \h1b2, 217>>, <<\h388, \h38a, 37>>, <<\h38e, \h38f, 63>>,
    <<\h391, \h3a1, 32>>, <<\h3a3, \h3ab, 32>>, <<\h401, \h40c, 80>>, <<\h40e, \h40f, 80>>,
    <<\h410, \h42f, 32>>, <<\h531, \h556, 48>>, <<\h10a0, \h10c5, 48>>, <<\h1f08, \h1f0f, -8>>,
    <<\h1f18, \h1f1d, -8>>, <<\h1f28, \h1f2f, -8>>, <<\h1f38, \h1f3f, -8>>, <<\h1f48, \h1f4d, -8>>,
    <<\h1f68, \h1f6f, -8>>, <<\h1f88, \h1f8f, -8>>, <<\h1f98, \h1f9f, -8>>, <<\h1fa8, \h1faf, -8>>,
    <<\h1fb8, \h1fb9, -8>>, <<\h1fba, \h1fbb, -74>>, <<\h1fc8, \h1fcb, -86>>,
    <<\h1fd8, \h1fd9, -8>>, <<\h1fda, \h1fdb, -100>>, <<\h1fe8, \h1fe9, -8>>,
    <<\h1fea, \h1feb, -112>>, <<\h1ff8, \h1ff9, -128>>, <<\h1ffa, \h1ffb, -126>>,
    <<\h2160, \h216f, 16>>, <<\h24b6, \h24cf, 26>>, <<\hff21, \hff3a, 32>>>>
tolowerLatin == EverySecond(<<
    <<\h100, \h12e, 1>>, <<\h130, \h130, -199>>, <<\h132, \h136, 1>>, <<\h139, \h147, 1>>,
    <<\h14a, \h176, 1>>, <<\h178, \h178, -121>>, <<\h179, \h17d, 1>>, <<\h181, \h181, 210>>,
    <<\h182, \h184, 1>>, <<\h186, \h186, 206>>, <<\h187, \h187, 1>>, <<\h18b, \h18b, 1>>,
    <<\h190, \h190, 203>>, <<\h191, \h191, 1>>, <<\h193, \h193, 205>>, <<\h194, \h194, 207>>,
    <<\h196, \h196, 211>>, <<\h197, \h197, 209>>, <<\h198, \h198, 1>>, <<\h19c, \h19c, 211>>,
    <<\h19d, \h19d, 213>>, <<\h1a0, \h1a4, 1>>, <<\h1a7, \h1a7, 1>>, <<\h1a9, \h1a9, 218>>,
    <<\h1ac, \h1ac, 1>>, <<\h1ae, \h1ae, 218>>, <<\h1af, \h1af, 1>>, <<\h1b3, \h1b5, 1>>,
    <<\h1b7, \h1b7, 219>>, <<\h1b8, \h1b8, 1>>, <<\h1bc, \h1bc, 1>>, <<\h1c4, \h1c4, 2>>,
    <<\h1c5, \h1c5, 1>>, <<\h1c7, \h1c7, 2>>, <<\h1c8, \h1c8, 1>>, <<\h1ca, \h1ca, 2>>,
    <<\h1cb, \h1db, 1>>, <<\h1de, \h1ee, 1>>, <<\h1f1, \h1f1, 2>>, <<\h1f2, \h1f4, 1>>,
    <<\h1fa, \h216, 1>>, <<\h386, \h386, 38>>, <<\h38c, \h38c, 64>>, <<\h3e2, \h3ee, 1>>>>)
tolowerCyrillic == EverySecond(<<
    <<\h460, \h480, 1>>, <<\h490, \h4be, 1>>, <<\h4c1, \h4c3, 1>>, <<\h4c7, \h4c7, 1>>,
    <<\h4cb, \h4cb, 1>>, <<\h4d0, \h4ea, 1>>, <<\h4ee, \h4f4, 1>>, <<\h4f8, \h4f8, 1>>>>)
tolowerExtended == EverySecond(<<
    <<\h1e00, \h1e94, 1>>, <<\h1ea0, \h1ef8, 1>>, <<\h1f59, \h1f5f, -8>>, <<\h1fbc, \h1fbc, -9>>,
    <<\h1fcc, \h1fcc, -9>>, <<\h1fec, \h1fec, -7>>, <<\h1ffc, \h1ffc, -9>>>>)
tolower1 == tolowerLatin \o tolowerCyrillic \o tolowerExtended
totitle1 == <<
    <<\h1c4, \h1c4, 1>>, <<\h1c6, \h1c6, -1>>, <<\h1c7, \h1c7, 1>>, <<\h1c9, \h1c9, -1>>,
    <<\h1ca, \h1ca, 1>>, <<\h1cc, \h1cc, -1>>, <<\h1f1, \h1f1, 1>>, <<\h1f3, \h1f3, -1>>>>
-----------------------------------------------------------------------------
(* The row of a table that begins last of those that begin by c, or 0.     *)
RECURSIVE Bisect(_, _, _, _)
Bisect(c, t, from, n) ==
  IF n > 1 THEN LET m == n \div 2
                IN IF c >= t[from + m][1] THEN Bisect(c, t, from + m, n - m) ELSE Bisect(c, t, from, m)
  ELSE IF n = 1 /\ c >= t[from][1] THEN from ELSE 0
rune_bsearch(c, t) == Bisect(c, t, 1, Len(t))

Has(t, c) == LET k == rune_bsearch(c, t) IN k # 0 /\ c <= t[k][2]
Changed(c, t) == c + t[rune_bsearch(c, t)][3]
Mapped(c, ranges, singles) ==
  IF Has(ranges, c) THEN Changed(c, ranges) ELSE IF Has(singles, c) THEN Changed(c, singles) ELSE c

tolowerrune(c) == Mapped(c, tolower2, tolower1)
toupperrune(c) == Mapped(c, toupper2, toupper1)
totitlerune(c) == IF Has(totitle1, c) THEN Changed(c, totitle1) ELSE c
islowerrune(c) == Has(toupper2, c) \/ Has(toupper1, c)
isupperrune(c) == Has(tolower2, c) \/ Has(tolower1, c)
isalpharune(c) == isupperrune(c) \/ islowerrune(c) \/ Has(alpha2, c) \/ Has(alpha1, c)
istitlerune(c) == isupperrune(c) /\ islowerrune(c)
isspacerune(c) == Has(space2, c)
-----------------------------------------------------------------------------
(* The shortest forms of UTF-8, as the standard lists them by their first  *)
(* bytes, but with the surrogates, and what they stand for.                *)
Shortest(b) ==
  /\ \A k \in 2 .. Len(b) : b[k] \in 128 .. 191
  /\ \/ Len(b) = 1 /\ b[1] \in 1 .. 127
     \/ Len(b) = 2 /\ b[1] \in 194 .. 223
     \/ Len(b) = 3 /\ b[1] \in 224 .. 239 /\ (b[1] = 224 => b[2] >= 160)
     \/ Len(b) = 4 /\ b[1] \in 240 .. 244 /\ (b[1] = 240 => b[2] >= 144) /\ (b[1] = 244 => b[2] <= 143)
StandsFor(b) ==
  LET low == <<0, 192, 224, 240>>[Len(b)] IN FoldLeft(LAMBDA l, x : 64 * l + x - 128, b[1] - low, Tail(b))

(* Bytes are read as the rune whose shortest form they begin with, or else *)
(* as an error of one byte; what is full is read the same whatever follows.*)
BytesAsMeant(b) ==
  LET forms == {n \in 1 .. Len(b) : Shortest(SubSeq(b, 1, n))}
      got == get_rune(b \o <<0>>, 1)
  IN /\ IF forms = {} THEN got = [rune |-> Runeerror, size |-> 1]
        ELSE \A n \in forms : /\ got = [rune |-> StandsFor(SubSeq(b, 1, n)), size |-> n]
                              /\ runetochar(got.rune) = SubSeq(b, 1, n)
                              /\ fullrune(b, 1, n) /\ \A m \in 0 .. n - 1 : ~fullrune(b, 1, m)
     /\ fullrune(b, 1, Len(b)) => \A x \in {1, 128, 191, 255} : get_rune(b \o <<x, 0>>, 1) = got

(* A rune is written in the shortest form, of the length that is announced *)
(* for it, and one that there is not as the rune of errors.                *)
RuneAsMeant(c) ==
  /\ Shortest(runetochar(c))
  /\ StandsFor(runetochar(c)) = IF c > Runemax THEN Runeerror ELSE c
  /\ runelen(c) = Len(runetochar(c)) /\ runenlen(<<c, c>>) = 2 * runelen(c)

(* In a text of runes r, runes are counted, and found at the places, that  *)
(* they have in it, texts t too, whatever they are; cut after n bytes, it  *)
(* has the runes that are whole.  Texts are ordered as their bytes are.    *)
Written(r) == FlattenSeq([k \in DOMAIN r |-> runetochar(r[k])]) \o <<0>>
Place(r, k) == 1 + runenlen(SubSeq(r, 1, k - 1))
TextAsMeant(r, t, runes) ==
  LET s == Written(r)
      Of(c) == {k \in DOMAIN r : r[k] = c}
      Starts == {k \in 1 .. Len(r) + 1 : At(r, k, t)}
      Cut(u, n) == SubSeq(u, 1, IF n < Len(u) THEN n ELSE Len(u)) \o <<0>>
  IN /\ runecount(s) = Len(r)
     /\ \A n \in 0 .. Len(s) : utfnlen(s, n) = Cardinality({k \in DOMAIN r : Place(r, k + 1) <= 1 + n})
     /\ \A c \in runes : /\ utfrune(s, 1, c) = IF Of(c) = {} THEN 0 ELSE Place(r, FirstOf(Of(c)))
                         /\ utfrrune(s, c) = IF Of(c) = {} THEN 0 ELSE Place(r, LastOf(Of(c)))
     /\ utfutf(s, Written(t)) = IF Starts = {} THEN 0 ELSE Place(r, FirstOf(Starts))
     /\ LET z == r \o <<0>>
            u == t \o <<0>>
            byBytes == runestrcmp(s, Written(t))
        IN /\ runestrcmp(z, u) = byBytes /\ runestrcmp(u, z) = -byBytes
           /\ \A n \in 0 .. Len(z) : runestrncmp(z, u, n) = runestrcmp(Cut(r, n), Cut(t, n))
           /\ r # <<>> => /\ runestrdup(z) = z
                          /\ \A n \in 0 .. Len(z) + 1 : SubSeq(runestrncpy(z \o z, z, n), 1, n) = SubSeq(z \o <<0>>, 1, n)
           /\ t # <<>> => runestrcat(z \o [k \in DOMAIN t |-> 0], u) = r \o u

(* A text is found among any bytes where it is, if it does not begin with  *)
(* the rune of errors.                                                     *)
FoundAsMeant(b, t) ==
  t # <<>> /\ t[1] # Runeerror => utfutf(b \o <<0>>, Written(t)) = strstr(b, 1, Bytes(Written(t)))

(* Every row of every table is found, and nothing between the rows.        *)
Tables == <<alpha2, alpha1, space2, toupper2, toupper1, tolower2, tolower1, totitle1>>
RowsAsMeant(t) ==
  \A k \in DOMAIN t :
    /\ rune_bsearch(t[k][1], t) = k /\ rune_bsearch(t[k][2], t) = k
    /\ Has(t, t[k][2] + 1) => k < Len(t) /\ t[k + 1][1] = t[k][2] + 1
    /\ ~Has(t, t[1][1] - 1)

(* The capital of a small letter is a capital, whose small letter it is,   *)
(* but for variants of a letter; the small letter of a capital has that    *)
(* capital, but for the dotted I, and the letters of Georgian have none.   *)
(* The letters that are both are the titles of the other two.              *)
Titles == {\h1C5, \h1C8, \h1CB, \h1F2}
Variants == {\h131, \h17F, \h3D0, \h3D1, \h3D5, \h3D6, \h3F0, \h3F1}
CaseAsMeant(c) ==
  /\ istitlerune(c) <=> c \in Titles
  /\ islowerrune(c) => isalpharune(c) /\ isupperrune(toupperrune(c))
  /\ islowerrune(c) /\ c \notin Variants \cup Titles => tolowerrune(toupperrune(c)) = c
  /\ ~islowerrune(c) => toupperrune(c) = c
  /\ ~isupperrune(c) => tolowerrune(c) = c
  /\ isupperrune(c) => isalpharune(c) /\ ~isspacerune(c)
  /\ isupperrune(c) /\ c \notin Titles \cup {\h130} \cup (\h10A0 .. \h10C5) => toupperrune(tolowerrune(c)) = c
  /\ c \in Titles => /\ totitlerune(toupperrune(c)) = c /\ totitlerune(tolowerrune(c)) = c
                     /\ toupperrune(tolowerrune(c)) = toupperrune(c)

(* An input is a rune, bytes that begin with b, a text and another, a      *)
(* table, or the runes from n on.                                          *)
AsMeant(x) ==
  CASE x[1] = "rune"  -> RuneAsMeant(x[2])
    [] x[1] = "bytes" -> \A rest \in x[3] : BytesAsMeant(<<x[2]>> \o rest)
    [] x[1] = "text"  -> \A t \in x[3] : TextAsMeant(x[2], t, x[4])
    [] x[1] = "find"  -> \A t \in x[3] : FoundAsMeant(x[2], t)
    [] x[1] = "table" -> RowsAsMeant(Tables[x[2]])
    [] x[1] = "runes" -> \A c \in x[2] .. x[2] + 255 : CaseAsMeant(c)
=============================================================================
