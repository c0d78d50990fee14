------------------------- MODULE Peripherals_proofs -------------------------
(* Proofs about HttpTasks, for URLs of any length, any size of the buffer    *)
(* for the host, and writes cut anywhere; about the types of Servers; and    *)
(* about Peripherals, which puts these two and LedStrip together.            *)
EXTENDS Peripherals, LedStrip_proofs, WellFoundedInduction

TaskSpec == TaskInitially /\ [][TaskNext]_taskVars

-----------------------------------------------------------------------------
(* Sequences.                                                                *)

LEMMA Concat ==
    ASSUME NEW S, NEW s \in Seq(S), NEW t \in Seq(S)
    PROVE  /\ s \o t \in Seq(S) /\ Len(s \o t) = Len(s) + Len(t)
           /\ \A n \in 1 .. Len(s) : (s \o t)[n] = s[n]
           /\ \A n \in 1 .. Len(t) : (s \o t)[Len(s) + n] = t[n]
OBVIOUS

LEMMA ConcatThree ==
    ASSUME NEW S, NEW s \in Seq(S), NEW u \in S, NEW v \in S, NEW w \in S
    PROVE  LET m == s \o <<u, v, w>>
           IN  /\ m \in Seq(S) /\ Len(m) = Len(s) + 3
               /\ \A n \in 1 .. Len(s) : m[n] = s[n]
               /\ m[Len(s) + 1] = u /\ m[Len(s) + 2] = v /\ m[Len(s) + 3] = w
OBVIOUS

LEMMA Cut ==
    ASSUME NEW S, NEW s \in Seq(S), NEW n \in Nat, NEW m \in Nat, n > 0, n + m - 1 <= Len(s)
    PROVE  /\ SubSeq(s, n, n + m - 1) \in Seq(S) /\ Len(SubSeq(s, n, n + m - 1)) = m
           /\ \A i \in 1 .. m : SubSeq(s, n, n + m - 1)[i] = s[n + i - 1]
BY SMTT(30)

LEMMA SameSeq ==
    ASSUME NEW S, NEW s \in Seq(S), NEW t \in Seq(S), Len(s) = Len(t),
           \A n \in 1 .. Len(t) : s[n] = t[n]
    PROVE  s = t
OBVIOUS

LEMMA Least ==
    ASSUME NEW T, T \subseteq Nat, T # {}
    PROVE  Min(T) \in T /\ \A n \in T : Min(T) <= n
<1>1. PICK m \in T : \A n \in T : ~(<<n, m>> \in OpToRel(<, Nat))
  BY NatLessThanWellFounded, WFMin
<1>2. \A n \in T : ~(n < m)
  BY <1>1 DEF OpToRel
<1>3. \A n \in T : m <= n
  BY <1>2
<1> QED  BY <1>3 DEF Min

LEMMA PrefixGrows ==
    ASSUME NEW S, NEW s \in Seq(S), NEW m \in 0 .. Len(s), NEW n \in m .. Len(s)
    PROVE  SubSeq(s, 1, m) \o SubSeq(s, m + 1, n) = SubSeq(s, 1, n)
OBVIOUS

LEMMA CutIsPrefix ==
    ASSUME NEW S, NEW s \in Seq(S), NEW n \in 0 .. Len(s)
    PROVE  IsPrefix(SubSeq(s, 1, n), s)
BY DEF IsPrefix

-----------------------------------------------------------------------------
(* get_host_from_url.                                                        *)

LEMMA AddressParts ==
    ASSUME NEW a \in Addresses
    PROVE  /\ a.scheme \in Seq(Characters) /\ a.host \in Seq(Characters) /\ a.path \in Seq(Characters)
           /\ \A n \in 1 .. Len(a.scheme) : a.scheme[n] # "/"
           /\ \A n \in 1 .. Len(a.host) : a.host[n] # "/"
           /\ Len(a.path) > 0 => a.path[1] = "/"
<1>1. "scheme" \in DOMAIN a /\ "host" \in DOMAIN a /\ "path" \in DOMAIN a
  BY AddressAssumption
<1>2. /\ a.scheme \in Seq(Characters) /\ a.host \in Seq(Characters) /\ a.path \in Seq(Characters)
  BY <1>1, AddressAssumption
<1>3. \A t \in Seq(Characters) : DOMAIN t = 1 .. Len(t) /\ (t = <<>> => Len(t) = 0)
  OBVIOUS
<1>4. /\ \A n \in DOMAIN a.scheme : a.scheme[n] # "/"
      /\ \A n \in DOMAIN a.host : a.host[n] # "/"
      /\ a.path = <<>> \/ a.path[1] = "/"
  BY AddressAssumption
<1>5. Len(a.path) > 0 => a.path # <<>>
  BY <1>2, <1>3
<1> QED  BY <1>2, <1>3, <1>4, <1>5

LEMMA TextType == ASSUME NEW a \in Addresses PROVE Text(a) \in Seq(Characters)
<1>1. ":" \in Characters /\ "/" \in Characters
  BY AddressAssumption
<1>2. <<":", "/", "/">> \in Seq(Characters)
  BY <1>1
<1> QED  BY <1>2, AddressParts, Concat DEF Text

\* The characters of a URL that has a scheme.
IsJoined(url, S, x, u, v, y, z) ==
    LET s == Len(x)
        h == Len(y)
    IN  /\ url \in Seq(S) /\ Len(url) = s + 3 + h + Len(z)
        /\ \A n \in 1 .. s : url[n] = x[n]
        /\ url[s + 1] = u /\ url[s + 2] = v /\ url[s + 3] = v
        /\ \A n \in 1 .. h : url[s + 3 + n] = y[n]
        /\ \A n \in 1 .. Len(z) : url[s + 3 + h + n] = z[n]

LEMMA Joined ==
    ASSUME NEW S, NEW x \in Seq(S), NEW y \in Seq(S), NEW z \in Seq(S), NEW u \in S, NEW v \in S
    PROVE  IsJoined(((x \o <<u, v, v>>) \o y) \o z, S, x, u, v, y, z)
<1>1. PICK m : m = x \o <<u, v, v>>
  OBVIOUS
<1>2. /\ m \in Seq(S) /\ Len(m) = Len(x) + 3
      /\ \A n \in 1 .. Len(x) : m[n] = x[n]
      /\ m[Len(x) + 1] = u /\ m[Len(x) + 2] = v /\ m[Len(x) + 3] = v
  BY <1>1, ConcatThree
<1>3. PICK named : named = m \o y
  OBVIOUS
<1>4. /\ named \in Seq(S) /\ Len(named) = Len(m) + Len(y)
      /\ \A n \in 1 .. Len(m) : named[n] = m[n]
      /\ \A n \in 1 .. Len(y) : named[Len(m) + n] = y[n]
  <2>1. /\ m \o y \in Seq(S) /\ Len(m \o y) = Len(m) + Len(y)
        /\ \A n \in 1 .. Len(m) : (m \o y)[n] = m[n]
        /\ \A n \in 1 .. Len(y) : (m \o y)[Len(m) + n] = y[n]
    <3>1. m \in Seq(S)
      BY <1>2
    <3> QED  BY <3>1, Concat
  <2> QED  BY <1>3, <2>1
<1>5. PICK url : url = named \o z
  OBVIOUS
<1>6. /\ url \in Seq(S) /\ Len(url) = Len(named) + Len(z)
      /\ \A n \in 1 .. Len(named) : url[n] = named[n]
      /\ \A n \in 1 .. Len(z) : url[Len(named) + n] = z[n]
  <2>1. /\ named \o z \in Seq(S) /\ Len(named \o z) = Len(named) + Len(z)
        /\ \A n \in 1 .. Len(named) : (named \o z)[n] = named[n]
        /\ \A n \in 1 .. Len(z) : (named \o z)[Len(named) + n] = z[n]
    <3>1. named \in Seq(S)
      BY <1>4
    <3> QED  BY <3>1, Concat
  <2> QED  BY <1>5, <2>1
<1>7. PICK s \in Nat, h \in Nat : s = Len(x) /\ h = Len(y)
  <2>1. Len(x) \in Nat /\ Len(y) \in Nat
    OBVIOUS
  <2> QED  BY <2>1
<1>8. Len(m) = s + 3 /\ Len(named) = s + 3 + h
  BY <1>2, <1>4, <1>7
<1>9. Len(url) = s + 3 + h + Len(z) /\ \A n \in 1 .. Len(z) : url[s + 3 + h + n] = z[n]
  BY <1>6, <1>8
<1>10. \A n \in 1 .. s : url[n] = x[n]
  <2> SUFFICES ASSUME NEW n \in 1 .. s PROVE url[n] = x[n]
    OBVIOUS
  <2>1. n \in 1 .. s + 3 /\ n \in 1 .. s + 3 + h
    OBVIOUS
  <2> QED  BY <1>2, <1>4, <1>6, <1>7, <1>8, <2>1
<1>11. url[s + 1] = u /\ url[s + 2] = v /\ url[s + 3] = v
  <2>1. \A n \in {s + 1, s + 2, s + 3} : n \in 1 .. s + 3 /\ n \in 1 .. s + 3 + h
    OBVIOUS
  <2>2. \A n \in {s + 1, s + 2, s + 3} : url[n] = m[n]
    BY <1>4, <1>6, <1>8, <2>1
  <2> QED  BY <1>2, <1>7, <2>2
<1>12. \A n \in 1 .. h : url[s + 3 + n] = y[n]
  <2> SUFFICES ASSUME NEW n \in 1 .. h PROVE url[s + 3 + n] = y[n]
    OBVIOUS
  <2>1. s + 3 + n \in 1 .. s + 3 + h
    OBVIOUS
  <2> QED  BY <1>4, <1>6, <1>7, <1>8, <2>1, SMTT(30)
<1>13. url = ((x \o <<u, v, v>>) \o y) \o z
  BY <1>1, <1>3, <1>5
<1>14. IsJoined(url, S, x, u, v, y, z)
  BY <1>6, <1>7, <1>9, <1>10, <1>11, <1>12 DEF IsJoined
<1> QED  BY <1>13, <1>14

LEMMA TextOf ==
    ASSUME NEW a \in Addresses, a.scheme # <<>>
    PROVE  \E s \in Nat, p \in Nat :
             /\ Len(a.host) \in Nat
             /\ Text(a) \in Seq(Characters) /\ Len(Text(a)) = s + 3 + Len(a.host) + p
             /\ \A n \in 1 .. s : Text(a)[n] # "/"
             /\ Text(a)[s + 1] = ":" /\ Text(a)[s + 2] = "/" /\ Text(a)[s + 3] = "/"
             /\ \A n \in 1 .. Len(a.host) : /\ Text(a)[s + 3 + n] = a.host[n]
                                            /\ Text(a)[s + 3 + n] # "/"
             /\ p > 0 => Text(a)[s + 3 + Len(a.host) + 1] = "/"
<1>1. PICK x, y, z : x = a.scheme /\ y = a.host /\ z = a.path
  OBVIOUS
<1>2. /\ x \in Seq(Characters) /\ y \in Seq(Characters) /\ z \in Seq(Characters)
      /\ \A n \in 1 .. Len(x) : x[n] # "/"
      /\ \A n \in 1 .. Len(y) : y[n] # "/"
      /\ Len(z) > 0 => z[1] = "/"
  BY <1>1, AddressParts
<1>3. Text(a) = ((x \o <<":", "/", "/">>) \o y) \o z
  BY <1>1 DEF Text
<1>4. PICK s \in Nat, h \in Nat, q \in Nat : s = Len(x) /\ h = Len(y) /\ q = Len(z)
  <2>1. Len(x) \in Nat /\ Len(y) \in Nat /\ Len(z) \in Nat
    BY <1>2
  <2> QED  BY <2>1
<1>5. PICK url : url = ((x \o <<":", "/", "/">>) \o y) \o z
  OBVIOUS
<1>6. /\ url \in Seq(Characters) /\ Len(url) = s + 3 + h + q
      /\ \A n \in 1 .. s : url[n] = x[n]
      /\ url[s + 1] = ":" /\ url[s + 2] = "/" /\ url[s + 3] = "/"
      /\ \A n \in 1 .. h : url[s + 3 + n] = y[n]
      /\ \A n \in 1 .. q : url[s + 3 + h + n] = z[n]
  <2>1. ":" \in Characters /\ "/" \in Characters
    BY AddressAssumption
  <2>2. IsJoined(((x \o <<":", "/", "/">>) \o y) \o z, Characters, x, ":", "/", y, z)
    BY <1>2, <2>1, Joined
  <2>3. IsJoined(url, Characters, x, ":", "/", y, z)
    BY <1>5, <2>2
  <2> QED  BY <1>4, <2>3 DEF IsJoined
<1>7. /\ \A n \in 1 .. s : url[n] # "/"
      /\ \A n \in 1 .. h : url[s + 3 + n] # "/"
      /\ q > 0 => url[s + 3 + h + 1] = "/"
  BY <1>2, <1>4, <1>6, SMTT(30)
<1>8. url = Text(a) /\ y = a.host /\ h = Len(a.host)
  BY <1>1, <1>3, <1>4, <1>5
<1> QED  BY <1>6, <1>7, <1>8, ZenonT(90)

\* get_host_from_url finds the host of a URL that has a scheme, if the buffer
\* holds it.
LEMMA HostFound ==
    ASSUME NEW a \in Addresses, a.scheme # <<>>, Len(a.host) < HostSize
    PROVE  GetHostFromUrl(Text(a)) = a.host
<1> DEFINE Marks(u) == {n \in 1 .. Len(u) - 2 : SubSeq(u, n, n + 2) = <<":", "/", "/">>}
           Start(u) == IF Marks(u) = {} THEN 1 ELSE Min(Marks(u)) + 3
           Ends(u) == {n \in Start(u) .. Len(u) : u[n] = "/"}
           Length(u) == (IF Ends(u) = {} THEN Len(u) + 1 ELSE Min(Ends(u))) - Start(u)
<1>a. PICK url, h, y : url = Text(a) /\ h = Len(y) /\ y = a.host
  OBVIOUS
<1>d. PICK s \in Nat, p \in Nat :
      /\ h \in Nat /\ url \in Seq(Characters) /\ Len(url) = s + 3 + h + p
      /\ \A n \in 1 .. s : url[n] # "/"
      /\ url[s + 1] = ":" /\ url[s + 2] = "/" /\ url[s + 3] = "/"
      /\ \A n \in 1 .. h : url[s + 3 + n] = y[n] /\ url[s + 3 + n] # "/"
      /\ p > 0 => url[s + 3 + h + 1] = "/"
  BY <1>a, TextOf, ZenonT(40)
<1>0. /\ s \in Nat /\ h \in Nat /\ p \in Nat /\ url \in Seq(Characters) /\ Len(url) = s + 3 + h + p
      /\ \A n \in 1 .. s : url[n] # "/"
      /\ url[s + 1] = ":" /\ url[s + 2] = "/" /\ url[s + 3] = "/"
      /\ \A n \in 1 .. h : url[s + 3 + n] = y[n] /\ url[s + 3 + n] # "/"
      /\ p > 0 => url[s + 3 + h + 1] = "/"
      /\ y \in Seq(Characters)
  BY <1>a, <1>d, AddressParts
<1>b. \A n \in 1 .. Len(url) - 2 : /\ Len(SubSeq(url, n, n + 2)) = 3
                                   /\ SubSeq(url, n, n + 2)[1] = url[n]
                                   /\ SubSeq(url, n, n + 2)[2] = url[n + 1]
                                   /\ SubSeq(url, n, n + 2)[3] = url[n + 2]
                                   /\ SubSeq(url, n, n + 2) \in Seq(Characters)
  <2> SUFFICES ASSUME NEW n \in 1 .. Len(url) - 2
               PROVE  /\ Len(SubSeq(url, n, n + 2)) = 3
                      /\ SubSeq(url, n, n + 2)[1] = url[n]
                      /\ SubSeq(url, n, n + 2)[2] = url[n + 1]
                      /\ SubSeq(url, n, n + 2)[3] = url[n + 2]
                      /\ SubSeq(url, n, n + 2) \in Seq(Characters)
    OBVIOUS
  <2>1. /\ n \in Nat /\ n > 0 /\ n + 3 - 1 <= Len(url) /\ n + 3 - 1 = n + 2 /\ 3 \in Nat
        /\ n + 1 - 1 = n /\ n + 2 - 1 = n + 1
    BY <1>0
  <2>2. /\ SubSeq(url, n, n + 3 - 1) \in Seq(Characters) /\ Len(SubSeq(url, n, n + 3 - 1)) = 3
        /\ \A i \in 1 .. 3 : SubSeq(url, n, n + 3 - 1)[i] = url[n + i - 1]
    BY <1>0, <2>1, Cut
  <2> QED  BY <2>1, <2>2
<1>c. \A t \in Seq(Characters) :
        Len(t) = 3 /\ t[1] = ":" /\ t[2] = "/" /\ t[3] = "/" <=> t = <<":", "/", "/">>
  <2>1. /\ <<":", "/", "/">> \in Seq(Characters) /\ Len(<<":", "/", "/">>) = 3
        /\ <<":", "/", "/">>[1] = ":" /\ <<":", "/", "/">>[2] = "/" /\ <<":", "/", "/">>[3] = "/"
    <3>1. ":" \in Characters /\ "/" \in Characters
      BY AddressAssumption
    <3> QED  BY <3>1
  <2>2. ASSUME NEW t \in Seq(Characters), Len(t) = 3, t[1] = ":", t[2] = "/", t[3] = "/"
        PROVE  t = <<":", "/", "/">>
    <3>1. \A n \in 1 .. 3 : n = 1 \/ n = 2 \/ n = 3
      OBVIOUS
    <3>2. \A n \in 1 .. Len(<<":", "/", "/">>) : t[n] = <<":", "/", "/">>[n]
      BY <2>1, <2>2, <3>1
    <3> QED  BY <2>1, <2>2, <3>2, SameSeq
  <2> QED  BY <2>1, <2>2
<1>1. s + 1 \in Marks(url)
  <2>1. s + 1 \in 1 .. Len(url) - 2 /\ (s + 1) + 1 = s + 2 /\ (s + 1) + 2 = s + 3
    BY <1>0
  <2>2. /\ Len(SubSeq(url, s + 1, s + 1 + 2)) = 3
        /\ SubSeq(url, s + 1, s + 1 + 2)[1] = ":"
        /\ SubSeq(url, s + 1, s + 1 + 2)[2] = "/"
        /\ SubSeq(url, s + 1, s + 1 + 2)[3] = "/"
        /\ SubSeq(url, s + 1, s + 1 + 2) \in Seq(Characters)
    BY <1>0, <1>b, <2>1
  <2>3. SubSeq(url, s + 1, s + 1 + 2) = <<":", "/", "/">>
    BY <1>c, <2>2
  <2> QED  BY <2>1, <2>3
<1>2. \A n \in Marks(url) : n \in Nat /\ s + 1 <= n
  <2> SUFFICES ASSUME NEW n \in Marks(url) PROVE n \in Nat /\ s + 1 <= n
    OBVIOUS
  <2>1. n \in 1 .. Len(url) - 2 /\ url[n + 1] = "/" /\ url[n] = ":"
    BY <1>b, <1>c, ZenonT(40)
  <2>2. ~(n + 1 \in 1 .. s) /\ n + 1 # s + 1
    BY <1>0, <2>1
  <2>3. n \in Nat /\ n >= 1
    BY <1>0, <2>1
  <2> QED  BY <1>0, <2>2, <2>3
<1> HIDE DEF Marks
<1>3. Min(Marks(url)) = s + 1
  <2>1. \A x \in Marks(url) : (\A n \in Marks(url) : x <= n) => x = s + 1
    BY <1>0, <1>1, <1>2
  <2> QED  BY <1>1, <1>2, <2>1 DEF Min
<1>4. Start(url) = s + 4
  BY <1>0, <1>1, <1>3
<1> HIDE DEF Start
<1>5. \A n \in Ends(url) : n \in Nat /\ s + 4 + h <= n /\ n <= s + 3 + h + p
  <2> SUFFICES ASSUME NEW n \in Ends(url)
               PROVE  n \in Nat /\ s + 4 + h <= n /\ n <= s + 3 + h + p
    OBVIOUS
  <2>1. n \in s + 4 .. s + 3 + h + p /\ url[n] = "/"
    BY <1>0, <1>4
  <2>2. CASE n < s + 4 + h
    <3>1. PICK m \in 1 .. h : n = s + 3 + m
      <4>1. n - (s + 3) \in 1 .. h /\ n = s + 3 + (n - (s + 3))
        BY <1>0, <2>1, <2>2
      <4> QED  BY <4>1
    <3> QED  BY <1>0, <2>1, <3>1
  <2> QED  BY <1>0, <2>1, <2>2
<1>6. Length(url) = h
  <2>1. CASE p > 0
    <3>1. s + 4 + h \in Ends(url)
      <4>1. s + 4 + h = s + 3 + h + 1 /\ s + 4 + h \in s + 4 .. Len(url)
        BY <1>0, <2>1
      <4> QED  BY <1>0, <1>4, <2>1, <4>1
    <3> HIDE DEF Ends
    <3>2. \A x \in Ends(url) : (\A n \in Ends(url) : x <= n) => x = s + 4 + h
      BY <1>0, <1>5, <3>1
    <3>3. Min(Ends(url)) = s + 4 + h
      BY <1>5, <3>1, <3>2 DEF Min
    <3> QED  BY <1>0, <1>4, <3>1, <3>3
  <2>2. CASE p = 0
    <3> HIDE DEF Ends
    <3>1. Ends(url) = {}
      BY <1>0, <1>5, <2>2
    <3> QED  BY <1>0, <1>4, <2>2, <3>1
  <2>3. p > 0 \/ p = 0
    BY <1>0
  <2> QED  BY <2>1, <2>2, <2>3
<1>7. GetHostFromUrl(url) = SubSeq(url, s + 4, s + 4 + h - 1)
  <2>1. GetHostFromUrl(url)
          = SubSeq(url, Start(url), Start(url) + (IF Length(url) >= HostSize THEN HostSize - 1 ELSE Length(url)) - 1)
    BY DEF GetHostFromUrl, Marks, Start
  <2> HIDE DEF Length
  <2>2. ~(Length(url) >= HostSize)
    <3>1. h < HostSize /\ HostSize \in Nat
      BY <1>a, AddressAssumption
    <3> QED  BY <1>0, <1>6, <3>1
  <2> QED  BY <1>4, <1>6, <2>1, <2>2
<1>8. SubSeq(url, s + 4, s + 4 + h - 1) = y
  <2>1. /\ SubSeq(url, s + 4, s + 4 + h - 1) \in Seq(Characters)
        /\ Len(SubSeq(url, s + 4, s + 4 + h - 1)) = h
        /\ \A n \in 1 .. h : SubSeq(url, s + 4, s + 4 + h - 1)[n] = url[s + 4 + n - 1]
    <3>1. s + 4 \in Nat /\ s + 4 > 0 /\ s + 4 + h - 1 <= Len(url)
      BY <1>0
    <3> QED  BY <1>0, <3>1, Cut
  <2>2. \A n \in 1 .. h : s + 4 + n - 1 = s + 3 + n
    BY <1>0
  <2>3. /\ Len(SubSeq(url, s + 4, s + 4 + h - 1)) = Len(y)
        /\ \A n \in 1 .. Len(y) : SubSeq(url, s + 4, s + 4 + h - 1)[n] = y[n]
    <3>1. h = Len(y) /\ \A n \in 1 .. h : url[s + 3 + n] = y[n]
      BY <1>0, <1>a
    <3>2. \A n \in 1 .. h : SubSeq(url, s + 4, s + 4 + h - 1)[n] = y[n]
      BY <2>1, <2>2, <3>1
    <3>3. Len(SubSeq(url, s + 4, s + 4 + h - 1)) = h
      BY <2>1
    <3> QED  BY <3>1, <3>2, <3>3
  <2>4. y \in Seq(Characters)
    BY <1>0
  <2> QED  BY <2>1, <2>3, <2>4, SameSeq
<1> QED  BY <1>a, <1>7, <1>8


-----------------------------------------------------------------------------
(* What is sent.                                                             *)

\* Whatever the URL, get_host_from_url stays within it.
LEMMA HostType ==
    ASSUME NEW url \in Seq(Characters) PROVE GetHostFromUrl(url) \in Seq(Characters)
<1> DEFINE marks == {n \in 1 .. Len(url) - 2 : SubSeq(url, n, n + 2) = <<":", "/", "/">>}
           Ends(m) == {n \in m .. Len(url) : url[n] = "/"}
<1>1. PICK l \in Nat : l = Len(url)
  OBVIOUS
<1>2. PICK start : start = IF marks = {} THEN 1 ELSE Min(marks) + 3
  OBVIOUS
<1>3. marks \subseteq Nat /\ \A n \in marks : 1 <= n /\ n <= l - 2
  BY <1>1
<1> HIDE DEF marks
<1>4. start \in Nat /\ 1 <= start /\ start <= l + 1
  <2>1. CASE marks = {}
    BY <1>2, <2>1
  <2>2. CASE marks # {}
    <3>1. Min(marks) \in marks
      BY <1>3, <2>2, Least
    <3>2. PICK m \in Nat : m = Min(marks) /\ 1 <= m /\ m <= l - 2
      BY <1>3, <3>1
    <3>3. start = m + 3
      BY <1>2, <2>2, <3>2
    <3> QED  BY <3>2, <3>3
  <2> QED  BY <2>1, <2>2
<1>a. PICK e : e = IF Ends(start) = {} THEN Len(url) + 1 ELSE Min(Ends(start))
  OBVIOUS
<1>b. e \in Nat /\ start <= e /\ e <= l + 1
  <2>1. Ends(start) \subseteq Nat /\ \A n \in Ends(start) : start <= n /\ n <= l
    BY <1>1, <1>4
  <2> HIDE DEF Ends
  <2>2. CASE Ends(start) = {}
    <3>1. e = l + 1
      BY <1>1, <1>a, <2>2
    <3> QED  BY <1>4, <3>1
  <2>3. CASE Ends(start) # {}
    <3>1. Min(Ends(start)) \in Ends(start)
      BY <2>1, <2>3, Least
    <3>2. e \in Ends(start)
      BY <1>a, <2>3, <3>1
    <3> QED  BY <2>1, <3>2
  <2> QED  BY <2>2, <2>3
<1>5. PICK len \in Nat : len = e - start /\ start + len - 1 <= l
  BY <1>4, <1>b
<1>6. PICK k \in Nat : k = (IF len >= HostSize THEN HostSize - 1 ELSE len) /\ start + k - 1 <= l
  <2>1. HostSize \in Nat \ {0}
    BY AddressAssumption
  <2>2. CASE len >= HostSize
    <3>1. HostSize - 1 \in Nat /\ start + (HostSize - 1) - 1 <= l
      BY <1>4, <1>5, <2>1, <2>2
    <3> QED  BY <2>2, <3>1
  <2>3. CASE ~(len >= HostSize)
    BY <1>5, <2>3
  <2> QED  BY <2>2, <2>3
<1>7. SubSeq(url, start, start + k - 1) \in Seq(Characters)
  BY <1>1, <1>4, <1>6, Cut, SMTT(30)
<1>8. GetHostFromUrl(url)
        = SubSeq(url, start, start + (IF e - start >= HostSize THEN HostSize - 1 ELSE e - start) - 1)
  BY <1>2, <1>a DEF GetHostFromUrl, marks
<1> QED  BY <1>5, <1>6, <1>7, <1>8

LEMMA Phrases ==
    /\ <<"GET ">> \in Seq(Characters) /\ <<" HTTP/1.1", "Host: ">> \in Seq(Characters)
    /\ <<"User-Agent">> \in Seq(Characters)
<1>1. /\ "GET " \in Characters /\ " HTTP/1.1" \in Characters
      /\ "Host: " \in Characters /\ "User-Agent" \in Characters
  BY AddressAssumption
<1>2. \A u, v \in Characters : <<u>> \in Seq(Characters) /\ <<u, v>> \in Seq(Characters)
  OBVIOUS
<1> QED  BY <1>1, <1>2

LEMMA RequestType ==
    ASSUME NEW a \in Addresses PROVE ConstructHttpRequest(Text(a)) \in Seq(Characters)
<1>2. Text(a) \in Seq(Characters) /\ GetHostFromUrl(Text(a)) \in Seq(Characters)
  BY TextType, HostType
<1> QED  BY <1>2, Phrases, Concat DEF ConstructHttpRequest

\* The server has received a beginning of the request, all that was written as
\* long as it was there.
RequestSent ==
    LET request == ConstructHttpRequest(Text(address))
    IN  /\ written <= Len(request)
        /\ \E n \in 0 .. written :
             /\ arrived = SubSeq(request, 1, n)
             /\ server = "there" => n = written

TaskInv ==
    /\ TaskTypeOK
    /\ at # "none" \/ task # "none" => address \in Addresses
    /\ at \in {"none", "init", "connect", "build"} => written = 0 /\ arrived = <<>>
    /\ at \in {"build", "write"} \/ written > 0 => address.scheme # <<>>
    /\ address \in Addresses => RequestSent

LEMMA NothingSent ==
    ASSUME NEW a \in Addresses
    PROVE  LET request == ConstructHttpRequest(Text(a))
           IN  0 <= Len(request) /\ SubSeq(request, 1, 0) = <<>>
<1>1. ConstructHttpRequest(Text(a)) \in Seq(Characters)
  BY RequestType
<1> QED  BY <1>1

LEMMA InitTask == TaskInitially => TaskInv
<1> SUFFICES ASSUME TaskInitially PROVE TaskInv
  OBVIOUS
<1>1. NoAddress \notin Addresses
  BY AddressAssumption
<1>2. <<>> \in Seq(Characters) /\ 0 \in Nat
  OBVIOUS
<1>3. TaskTypeOK
  BY <1>2 DEF TaskInitially, TaskTypeOK
<1> QED  BY <1>1, <1>3 DEF TaskInitially, TaskInv

LEMMA CreateInv ==
    ASSUME TaskInv, NEW a \in Addresses,
           RequestTaskBundle(a) \/ ExampleCom(a) \/ ClientPost(a)
    PROVE  TaskInv'
<1>1. /\ at = "none" /\ at' = "init" /\ address' = a /\ task' \in {"bundle", "get", "post"}
      /\ UNCHANGED <<owned, written, arrived, server>> /\ station' \in {"off", "joining", "joined"}
  BY DEF TaskInv, TaskTypeOK, RequestTaskBundle, ExampleCom, ClientPost, Create, Wifi
<1>2. written = 0 /\ arrived = <<>>
  BY <1>1 DEF TaskInv
<1>3. RequestSent'
  BY <1>1, <1>2, NothingSent DEF RequestSent
<1>4. TaskTypeOK'
  BY <1>1 DEF TaskInv, TaskTypeOK
<1> QED  BY <1>1, <1>2, <1>3, <1>4 DEF TaskInv

LEMMA WriteInv == ASSUME TaskInv, Write PROVE TaskInv'
<1>0. /\ at = "write" /\ address \in Addresses /\ address.scheme # <<>> /\ TaskTypeOK
      /\ written \in Nat
      /\ UNCHANGED <<station, task, address, owned, server>>
  BY DEF TaskInv, TaskTypeOK, Write
<1>1. PICK request \in Seq(Characters) : request = ConstructHttpRequest(Text(address))
  BY <1>0, RequestType
<1>2. PICK m \in 0 .. written :
        /\ written <= Len(request) /\ arrived = SubSeq(request, 1, m)
        /\ server = "there" => m = written
  BY <1>0, <1>1 DEF TaskInv, RequestSent
<1>3. ASSUME NEW n \in written + 1 .. Len(request), written' = n,
             \/ server = "there" /\ arrived' = arrived \o SubSeq(request, written + 1, n)
             \/ server = "gone" /\ UNCHANGED arrived,
             at' = IF n = Len(request) THEN "read" ELSE "write"
      PROVE  TaskInv'
  <2>1. n \in Nat /\ n <= Len(request) /\ written < n
    BY <1>0, <1>1, <1>3
  <2>2. CASE server = "there" /\ arrived' = arrived \o SubSeq(request, written + 1, n)
    <3>1. written \in 0 .. Len(request) /\ n \in written .. Len(request)
      BY <1>0, <1>1, <1>2, <2>1
    <3>2. arrived' = SubSeq(request, 1, n)
      <4>1. m = written
        BY <1>2, <2>2
      <4>2. SubSeq(request, 1, written) \o SubSeq(request, written + 1, n) = SubSeq(request, 1, n)
        BY <1>1, <3>1, PrefixGrows
      <4> QED  BY <1>2, <2>2, <4>1, <4>2
    <3>3. arrived' \in Seq(Characters)
      BY <1>1, <2>1, <3>2
    <3>4. RequestSent'
      BY <1>0, <1>1, <1>3, <2>1, <3>2 DEF RequestSent
    <3> QED  BY <1>0, <1>3, <2>1, <3>3, <3>4 DEF TaskInv, TaskTypeOK
  <2>3. CASE server = "gone" /\ UNCHANGED arrived
    <3>1. m \in 0 .. n
      BY <1>0, <2>1
    <3>2. RequestSent'
      BY <1>0, <1>1, <1>2, <1>3, <2>1, <2>3, <3>1 DEF RequestSent
    <3> QED  BY <1>0, <1>3, <2>1, <2>3, <3>2 DEF TaskInv, TaskTypeOK
  <2> QED  BY <1>3, <2>2, <2>3
<1>4. CASE at' = "read" /\ UNCHANGED <<written, arrived>>
  BY <1>0, <1>4 DEF TaskInv, TaskTypeOK, RequestSent
<1> QED  BY <1>1, <1>3, <1>4 DEF Write

LEMMA NextTask == TaskInv /\ [TaskNext]_taskVars => TaskInv'
<1> SUFFICES ASSUME TaskInv, [TaskNext]_taskVars PROVE TaskInv'
  OBVIOUS
<1>1. CASE UNCHANGED taskVars
  BY <1>1 DEF taskVars, TaskInv, TaskTypeOK, RequestSent
<1>2. CASE \E a \in Addresses : RequestTaskBundle(a) \/ ExampleCom(a) \/ ClientPost(a)
  BY <1>2, CreateInv
<1>3. CASE OtherJoins
  BY <1>3 DEF OtherJoins, Wifi, TaskInv, TaskTypeOK, RequestSent
<1>4. CASE StationEvent
  BY <1>4 DEF StationEvent, TaskInv, TaskTypeOK, RequestSent
<1>5. CASE ServerLeaves
  BY <1>5 DEF ServerLeaves, TaskInv, TaskTypeOK, RequestSent
<1>6. CASE TaskInit
  BY <1>6, ZenonT(40) DEF TaskInit, TaskInv, TaskTypeOK, RequestSent
<1>7. CASE Connect
  <2>1. /\ at = "connect" /\ written = 0 /\ arrived = <<>> /\ address \in Addresses
        /\ UNCHANGED <<station, task, address, written, arrived>>
    BY <1>7 DEF Connect, TaskInv
  <2>2. RequestSent'
    BY <2>1, NothingSent DEF RequestSent
  <2>3. TaskTypeOK'
    BY <1>7 DEF Connect, TaskInv, TaskTypeOK
  <2> QED  BY <1>7, <2>1, <2>2, <2>3 DEF Connect, TaskInv
<1>8. CASE Build
  BY <1>8, ZenonT(40) DEF Build, TaskInv, TaskTypeOK, RequestSent
<1>9. CASE Write
  BY <1>9, WriteInv
<1>10. CASE Read \/ Perform \/ CleanUp
  BY <1>10, ZenonT(40) DEF Read, Perform, CleanUp, TaskInv, TaskTypeOK, RequestSent
<1> QED  BY <1>1, <1>2, <1>3, <1>4, <1>5, <1>6, <1>7, <1>8, <1>9, <1>10 DEF TaskNext, TaskStep

\* In every state, for every URL and every buffer, the variables of the tasks
\* have their types: no text is read past its end (main/requestTaskBundle.c:18-46).
THEOREM TaskTypeCorrect == TaskSpec => []TaskTypeOK
<1>1. TaskInv => TaskTypeOK
  BY DEF TaskInv
<1> QED  BY <1>1, InitTask, NextTask, PTL DEF TaskSpec

\* Whatever the URL, however the writes are cut, and whenever the server or the
\* station goes: the server has received a beginning of one request, which names
\* the host of the URL, if its name fits the buffer
\* (main/requestTaskBundle.c:18-75, 96-110).
THEOREM AlwaysSentRight == TaskSpec => []SentRight
<1>1. TaskInv => SentRight
  <2> SUFFICES ASSUME TaskInv, task = "bundle", Len(address.host) < HostSize
               PROVE  IsPrefix(arrived, <<"GET ">> \o Text(address) \o <<" HTTP/1.1", "Host: ">>
                                          \o address.host \o <<"User-Agent">>)
    BY DEF SentRight
  <2>1. address \in Addresses /\ RequestSent /\ written \in Nat
    BY DEF TaskInv, TaskTypeOK
  <2>2. PICK request \in Seq(Characters) : request = ConstructHttpRequest(Text(address))
    BY <2>1, RequestType
  <2>3. PICK n \in 0 .. Len(request) :
          arrived = SubSeq(request, 1, n) /\ (n > 0 => written > 0)
    <3>1. PICK n \in 0 .. written : arrived = SubSeq(request, 1, n) /\ written <= Len(request)
      BY <2>1, <2>2 DEF RequestSent
    <3>2. n \in 0 .. Len(request) /\ (n > 0 => written > 0)
      BY <2>1, <2>2, <3>1
    <3> QED  BY <3>1, <3>2
  <2>4. IsPrefix(arrived, request)
    BY <2>2, <2>3, CutIsPrefix
  <2>5. CASE n > 0
    <3>1. GetHostFromUrl(Text(address)) = address.host
      BY <2>1, <2>3, <2>5, HostFound DEF TaskInv
    <3> QED  BY <2>2, <2>4, <3>1 DEF ConstructHttpRequest
  <2>6. CASE n = 0
    <3>1. arrived = <<>>
      BY <2>2, <2>3, <2>6
    <3>2. \A t \in Seq(Characters) : IsPrefix(<<>>, t)
      BY DEF IsPrefix
    <3>4. Text(address) \in Seq(Characters) /\ address.host \in Seq(Characters)
      BY <2>1, TextType, AddressParts
    <3>5. <<"GET ">> \o Text(address) \o <<" HTTP/1.1", "Host: ">> \o address.host \o <<"User-Agent">>
            \in Seq(Characters)
      BY <3>4, Phrases, Concat
    <3> QED  BY <3>1, <3>2, <3>5
  <2>7. n > 0 \/ n = 0
    BY <2>3
  <2> QED  BY <2>5, <2>6, <2>7
<1> QED  BY <1>1, InitTask, NextTask, PTL DEF TaskSpec

-----------------------------------------------------------------------------
(* The servers.                                                              *)

ServersInv ==
    /\ ServersTypeOK
    /\ DOMAIN visit = Visitors
    /\ serving \in {"recv", "delay"} => sock \in Clients

LEMMA InitServers == ServersInit => ServersInv
<1> SUFFICES ASSUME ServersInit PROVE ServersInv
  OBVIOUS
<1>1. queue \in Seq(Clients) /\ Len(queue) <= Backlog
  BY ServerAssumption DEF ServersInit
<1>2. \A v \in Visitors : Len(visit[v]) <= 3
  BY DEF ServersInit
<1> QED  BY <1>1, <1>2 DEF ServersInit, ServersInv, ServersTypeOK

LEMMA QueueMoves ==
    ASSUME NEW q \in Seq(Clients)
    PROVE  /\ \A c \in Clients : Append(q, c) \in Seq(Clients) /\ Len(Append(q, c)) = Len(q) + 1
           /\ q # <<>> => /\ Head(q) \in Clients /\ Tail(q) \in Seq(Clients)
                          /\ Len(Tail(q)) <= Len(q)
OBVIOUS

LEMMA NextServers == ServersInv /\ [ServersNext]_serverVars => ServersInv'
<1> SUFFICES ASSUME ServersInv, [ServersNext]_serverVars PROVE ServersInv'
  OBVIOUS
<1>0. /\ ServersTypeOK /\ DOMAIN visit = Visitors /\ Backlog \in Nat
      /\ serving \in {"recv", "delay"} => sock \in Clients
  BY ServerAssumption DEF ServersInv
<1>1. CASE UNCHANGED serverVars
  BY <1>1 DEF serverVars, ServersInv, ServersTypeOK
<1>2. ASSUME NEW c \in Clients, Knock(c) PROVE ServersInv'
  <2>1. queue' \in Seq(Clients) /\ Len(queue') <= Backlog
    BY <1>0, <1>2, QueueMoves DEF Knock, ServersTypeOK
  <2> QED  BY <1>0, <1>2, <2>1 DEF Knock, ServersInv, ServersTypeOK
<1>3. ASSUME NEW c \in Clients, Ask(c) \/ Leave(c) PROVE ServersInv'
  BY <1>0, <1>3 DEF Ask, Leave, ServersInv, ServersTypeOK
<1>4. CASE Accept
  <2>1. queue' \in Seq(Clients) /\ Len(queue') <= Backlog /\ sock' \in Clients
    BY <1>0, <1>4, QueueMoves DEF Accept, ServersTypeOK
  <2> QED  BY <1>0, <1>4, <2>1 DEF Accept, ServersInv, ServersTypeOK
<1>5. CASE AcceptFails
  <2>1. <<>> \in Seq(Clients) /\ Len(<<>>) <= Backlog
    BY <1>0
  <2> QED  BY <1>0, <1>5, <2>1 DEF AcceptFails, StopListening, ServersInv, ServersTypeOK
<1>6. CASE RecvSend \/ CloseSock
  BY <1>0, <1>6 DEF RecvSend, CloseSock, ServersInv, ServersTypeOK
<1>7. CASE StartWebserver
  BY <1>0, <1>7 DEF StartWebserver, ServersInv, ServersTypeOK
<1>8. ASSUME NEW v \in Visitors, NEW how, visit' = [visit EXCEPT ![v] = how], Len(how) <= 3,
             UNCHANGED <<client, queue, sock, serving, httpd>>
      PROVE  ServersInv'
  <2>1. DOMAIN visit' = Visitors /\ \A w \in Visitors : Len(visit'[w]) <= 3
    BY <1>0, <1>8 DEF ServersTypeOK
  <2> QED  BY <1>0, <1>8, <2>1 DEF ServersInv, ServersTypeOK
<1>9. ASSUME NEW v \in Visitors, NEW method, NEW len, Visit(v, method, len) PROVE ServersInv'
  <2>1. \A body : Len(<<method, len, body>>) <= 3
    OBVIOUS
  <2> QED  BY <1>8, <1>9, <2>1 DEF Visit
<1>10. ASSUME NEW v \in Visitors, ServerGetHandler(v) PROVE ServersInv'
  <2>1. Len(<<"page">>) <= 3
    OBVIOUS
  <2> QED  BY <1>8, <1>10, <2>1 DEF ServerGetHandler
<1>11. ASSUME NEW v \in Visitors, ServerPostHandler(v) PROVE ServersInv'
  <2>1. Len(<<"page">>) <= 3 /\ Len(<<"408", "closed">>) <= 3 /\ Len(<<"closed">>) <= 3
    OBVIOUS
  <2>2. \E how \in {<<"page">>, <<"408", "closed">>, <<"closed">>} : visit' = [visit EXCEPT ![v] = how]
    BY <1>11 DEF ServerPostHandler
  <2> QED  BY <1>8, <1>11, <2>1, <2>2 DEF ServerPostHandler
<1> QED  BY <1>1, <1>2, <1>3, <1>4, <1>5, <1>6, <1>7, <1>9, <1>10, <1>11
         DEF ServersNext, ServersStep, HandlerStep

-----------------------------------------------------------------------------
(* The three together.                                                       *)

AllInv == StripInv /\ TaskInv /\ ServersInv

LEMMA InitAll == Init => AllInv
BY InitStrip, InitTask, InitServers DEF Init, AllInv

LEMMA NextAll == AllInv /\ [Next]_vars => AllInv'
BY NextStrip, NextTask, NextServers DEF AllInv, Next, vars

\* For strips, URLs, buffers, backlogs and requests of any size, every variable
\* of the strip, the request tasks and the servers has its type: what is kept
\* of a colour are bytes and as many as the strip has components, no text is
\* read past its end, and no more connections wait than listen has room for
\* (led_strip_rmt_dev.c, led_strip_spi_dev.c, main/requestTaskBundle.c:18-46,
\* main/wifi.c).
THEOREM PeripheralsTypeCorrect == Spec => []PeripheralsTypeOK
<1>1. AllInv => PeripheralsTypeOK
  BY StripTyped DEF AllInv, TaskInv, ServersInv, PeripheralsTypeOK
<1> QED  BY <1>1, InitAll, NextAll, PTL DEF Spec
=============================================================================
