------------------------ MODULE SyscallSupportProofs ------------------------
(***************************************************************************)
(* The calls of linux_syscall_support.h, for words of any width and any    *)
(* identifiers: the sets of signals are those the kernel reads, and that   *)
(* the kernel lacks the newer calls does not show.                         *)
(***************************************************************************)
EXTENDS SyscallSupport, TLAPS

\* The layout of a set and the calls the kernel has never change.
Machine == arch \in {"x86_64", "i386", "arm", "mips"} /\ old \in BOOLEAN

\* Arrays of words.
Arrays == [Words -> SUBSET (0 .. W - 1)]

\* What the client's set holds.
SetInv ==
  /\ set \in Arrays /\ pending \subseteq Signals
  /\ KernelSet(set) = want

\* Actions whose mask is a member of M.
Action(M) ==
  [handler : {"default", "client"}, flags : SUBSET {"SA_SIGINFO", "SA_RESTORER"},
   restorer : {"none", "restore", "restore_rt"}, mask : M]

\* HandlerCanReturn, of an action.
CanReturn(a) ==
  arch \in {"i386", "x86_64"} /\ ~old /\ a.handler = "client" =>
    /\ "SA_RESTORER" \in a.flags
    /\ a.restorer = IF arch = "i386" /\ "SA_SIGINFO" \notin a.flags THEN "restore"
                    ELSE "restore_rt"

\* The signals the kernel reads from the mask of an action.
MaskRead(m) == IF old THEN KernelSet(m) \cap FirstWord ELSE KernelSet(m)

\* The action in the kernel, and what the client has kept of an earlier one: the words
\* it did not get from the kernel are words the kernel will not read.
ActInv ==
  /\ kact \in Action(SUBSET Signals) /\ (old => kact.mask \subseteq FirstWord)
  /\ CanReturn(kact)
  /\ kept # NULL =>
       /\ kept \in Action(Arrays) /\ CanReturn(kept)
       /\ kept.handler = before.handler /\ kept.flags = before.flags
       /\ MaskRead(kept.mask) = before.mask

\* A kernel with 16-bit identifiers has no others.
IdInv ==
  /\ ids \in [{"uid", "gid"} -> IdRecord]
  /\ old => \A k \in {"uid", "gid"}, i \in {"r", "e", "s", "fs"} : ids[k][i] <= Id16

-----------------------------------------------------------------------------
(* Words and signals. *)

\* A signal has a word and a bit of its own.
LEMMA Position ==
  ASSUME Machine, NEW n \in Signals
  PROVE  /\ (n - 1) \div W \in Words /\ (n - 1) % W \in 0 .. W - 1
         /\ ((n - 1) \div W) * W + ((n - 1) % W) + 1 = n
<1>1. W \in Nat \ {0} /\ NWords \in {1, 2, 4} /\ n \in 1 .. NWords * W
  BY CallsAssumption DEF Machine, NWords, Signals
<1> DEFINE d == (n - 1) \div W
           m == (n - 1) % W
<1>2. d \in Int /\ m \in 0 .. W - 1 /\ n - 1 = d * W + m
  BY <1>1
<1> HIDE DEF d, m
<1>3. d >= 0 /\ d < NWords
  <2>1. d >= 0
    BY <1>1, <1>2
  <2>2. d * W < NWords * W
    BY <1>1, <1>2
  <2> QED
    BY <1>1, <1>2, <2>1, <2>2
<1>4. d \in Words /\ d * W + m + 1 = n
  BY <1>1, <1>2, <1>3 DEF Words
<1> QED
  BY <1>2, <1>4 DEF d, m

\* The first word holds the first W signals, and no others.
LEMMA PositionInFirst ==
  ASSUME Machine, NEW n \in Signals
  PROVE  (n - 1) \div W = 0 <=> n \in FirstWord
<1>1. W \in Nat \ {0} /\ NWords \in {1, 2, 4} /\ n \in 1 .. NWords * W
  BY CallsAssumption DEF Machine, NWords, Signals
<1> DEFINE d == (n - 1) \div W
           m == (n - 1) % W
<1>2. d \in Nat /\ m \in 0 .. W - 1 /\ d * W + m + 1 = n
  BY Position, <1>1 DEF Words
<1> HIDE DEF d, m
<1>3. d = 0 => n \in 1 .. W
  BY <1>1, <1>2
<1>4. ASSUME d # 0 PROVE n > W
  <2>1. d * W >= W
    BY <1>1, <1>2, <1>4
  <2> QED
    BY <1>1, <1>2, <2>1
<1> QED
  BY <1>1, <1>3, <1>4 DEF FirstWord, d

\* The kernel reads from the words of a set that set.
LEMMA KernelReadsWords ==
  ASSUME Machine, NEW S \in SUBSET Signals
  PROVE  ToWords(S) \in Arrays /\ KernelSet(ToWords(S)) = S
<1>1. ToWords(S) \in Arrays
  BY DEF ToWords, Arrays
<1>2. ASSUME NEW n \in Signals
      PROVE  (n - 1) % W \in ToWords(S)[(n - 1) \div W] <=> n \in S
  <2> DEFINE d == (n - 1) \div W
             m == (n - 1) % W
  <2>1. d \in Words /\ m \in 0 .. W - 1 /\ d * W + m + 1 = n
    BY Position
  <2> HIDE DEF d, m
  <2>2. m \in ToWords(S)[d] <=> n \in S
    BY <2>1 DEF ToWords
  <2> QED
    BY <2>2 DEF d, m
<1> QED
  BY <1>1, <1>2 DEF KernelSet

\* One word read from the kernel, the others whatever they were: the signals of the first
\* word are the kernel's.
LEMMA FirstWordRead ==
  ASSUME Machine, NEW S \in SUBSET Signals, NEW s \in Arrays
  PROVE  LET r == [s EXCEPT ![0] = ToWords(S)[0]] IN
         /\ r \in Arrays
         /\ KernelSet(r) \cap FirstWord = S \cap FirstWord
         /\ KernelSet(r) \ FirstWord = KernelSet(s) \ FirstWord
<1> DEFINE r == [s EXCEPT ![0] = ToWords(S)[0]]
<1>1. 0 \in Words /\ ToWords(S) \in Arrays
  BY KernelReadsWords, CallsAssumption DEF Machine, NWords, Words
<1>2. r \in Arrays /\ r[0] = ToWords(S)[0] /\ \A w \in Words \ {0} : r[w] = s[w]
  BY <1>1 DEF Arrays
<1> HIDE DEF r
<1>3. ASSUME NEW n \in Signals, n \in FirstWord
      PROVE  n \in KernelSet(r) <=> n \in S
  <2>1. (n - 1) \div W = 0
    BY <1>3, PositionInFirst
  <2>2. n \in KernelSet(ToWords(S)) <=> n \in S
    BY KernelReadsWords
  <2> QED
    BY <1>2, <2>1, <2>2 DEF KernelSet
<1>4. ASSUME NEW n \in Signals, n \notin FirstWord
      PROVE  n \in KernelSet(r) <=> n \in KernelSet(s)
  <2>1. (n - 1) \div W \in Words \ {0}
    BY <1>4, PositionInFirst, Position
  <2> QED
    BY <1>2, <2>1 DEF KernelSet
<1>5. KernelSet(r) \subseteq Signals /\ KernelSet(s) \subseteq Signals
  BY DEF KernelSet
<1> QED
  BY <1>2, <1>3, <1>4, <1>5 DEF r

\* sigaddset and sigdelset on the words do what they do to the set.
LEMMA AddAndDelete ==
  ASSUME Machine, NEW s \in Arrays, NEW n \in Signals
  PROVE  /\ sigaddset(s, n) \in Arrays /\ sigdelset(s, n) \in Arrays
         /\ KernelSet(sigaddset(s, n)) = KernelSet(s) \cup {n}
         /\ KernelSet(sigdelset(s, n)) = KernelSet(s) \ {n}
<1> DEFINE d == (n - 1) \div W
           m == (n - 1) % W
<1>1. d \in Words /\ m \in 0 .. W - 1 /\ d * W + m + 1 = n
  BY Position
<1>2. ~BadSignal(n)
  BY CallsAssumption DEF BadSignal, Signals, Machine, NWords
<1>3. /\ sigaddset(s, n) = [s EXCEPT ![d] = @ \cup {m}]
      /\ sigdelset(s, n) = [s EXCEPT ![d] = @ \ {m}]
  BY <1>2 DEF sigaddset, sigdelset
<1> HIDE DEF d, m
<1>4. sigaddset(s, n) \in Arrays /\ sigdelset(s, n) \in Arrays
  BY <1>1, <1>3 DEF Arrays
<1>5. ASSUME NEW k \in Signals
      PROVE  /\ k \in KernelSet(sigaddset(s, n)) <=> k \in KernelSet(s) \cup {n}
             /\ k \in KernelSet(sigdelset(s, n)) <=> k \in KernelSet(s) \ {n}
  <2> DEFINE c == (k - 1) \div W
             b == (k - 1) % W
  <2>1. c \in Words /\ b \in 0 .. W - 1 /\ c * W + b + 1 = k
    BY Position
  <2>2. k = n => c = d /\ b = m
    BY DEF c, b, d, m
  <2> HIDE DEF c, b
  <2>3. c = d /\ b = m => k = n
    BY <1>1, <2>1
  <2>4. /\ b \in sigaddset(s, n)[c] <=> b \in s[c] \/ k = n
        /\ b \in sigdelset(s, n)[c] <=> b \in s[c] /\ k # n
    BY <1>1, <1>3, <2>1, <2>2, <2>3 DEF Arrays
  <2> QED
    BY <2>4 DEF KernelSet, c, b
<1>6. \A a : KernelSet(a) \subseteq Signals
  BY DEF KernelSet
<1> QED
  BY <1>4, <1>5, <1>6

\* sigemptyset and sigfillset.
LEMMA EmptyAndFull ==
  ASSUME Machine
  PROVE  /\ sigemptyset \in Arrays /\ sigfillset \in Arrays
         /\ KernelSet(sigemptyset) = {} /\ KernelSet(sigfillset) = Signals
<1>1. sigemptyset \in Arrays /\ sigfillset \in Arrays
  BY DEF sigemptyset, sigfillset, Arrays
<1>2. \A n \in Signals : (n - 1) \div W \in Words /\ (n - 1) % W \in 0 .. W - 1
  BY Position
<1> QED
  BY <1>1, <1>2 DEF KernelSet, sigemptyset, sigfillset

-----------------------------------------------------------------------------
(* The steps. *)

\* The calls on identifiers leave the signals alone.
LEMMA IdentityKeepsSignals == Identity => UNCHANGED sigVars
BY DEF Identity, getresgid32, getresuid32, setfsgid32, setfsuid32, setresgid32,
   setresuid32

\* No call changes the machine.
LEMMA MachineStep ==
  ASSUME Machine, [Next]_vars
  PROVE  /\ arch' = arch /\ old' = old /\ Machine'
         /\ NWords' = NWords /\ Words' = Words /\ Signals' = Signals /\ Arrays' = Arrays
<1>1. CASE Signalling
  BY <1>1 DEF Signalling, ChangeSet, Sigaction, sigaction, sigprocmask, Kill, sigpending,
     sigsuspend, Wakes, Ends, Machine, NWords, Words, Signals, Arrays
<1>2. CASE Identity
  BY <1>2 DEF Identity, getresgid32, getresuid32, setfsgid32, setfsuid32, setresgid32,
     setresuid32, GetRes, SetFs, SetRes, Ends, Machine, NWords, Words, Signals, Arrays
<1>3. CASE UNCHANGED vars
  BY <1>3 DEF vars, Machine, NWords, Words, Signals, Arrays
<1> QED
  BY <1>1, <1>2, <1>3 DEF Next

\* A signal that is no signal changes nothing.
LEMMA BadSignals ==
  ASSUME Machine, NEW n \in 0 .. NWords * W + 1
  PROVE  BadSignal(n) <=> n \notin Signals
BY CallsAssumption DEF BadSignal, Signals, Machine, NWords

\* Every change of the words is the same change of the set.
LEMMA SetStep ==
  ASSUME Machine, SetInv, [Next]_vars
  PROVE  SetInv'
<1>1. /\ Signals' = Signals /\ Arrays' = Arrays
      /\ KernelSet(set)' = KernelSet(set')
  BY MachineStep DEF KernelSet
<1>2. set \in Arrays /\ pending \subseteq Signals /\ KernelSet(set) = want
      /\ want \subseteq Signals
  BY DEF SetInv, KernelSet
<1>3. SUFFICES set' \in Arrays /\ pending' \subseteq Signals /\ KernelSet(set') = want'
  BY <1>1 DEF SetInv
<1>4. CASE ChangeSet
  <2>1. UNCHANGED pending
    BY <1>4 DEF ChangeSet
  <2>2. CASE set' = sigemptyset /\ want' = {}
    BY <1>2, <2>1, <2>2, EmptyAndFull
  <2>3. CASE set' = sigfillset /\ want' = Signals
    BY <1>2, <2>1, <2>3, EmptyAndFull
  <2>4. ASSUME NEW n \in 0 .. NWords * W + 1,
               \/ set' = sigaddset(set, n) /\ want' = want \cup ({n} \cap Signals)
               \/ set' = sigdelset(set, n) /\ want' = want \ {n}
        PROVE  set' \in Arrays /\ KernelSet(set') = want'
    <3>1. CASE n \in Signals
      <4>1. /\ sigaddset(set, n) \in Arrays /\ sigdelset(set, n) \in Arrays
            /\ KernelSet(sigaddset(set, n)) = want \cup {n}
            /\ KernelSet(sigdelset(set, n)) = want \ {n}
        BY <1>2, <3>1, AddAndDelete
      <4>2. {n} \cap Signals = {n}
        BY <3>1
      <4> QED
        BY <2>4, <4>1, <4>2, Zenon
    <3>2. CASE n \notin Signals
      <4>1. sigaddset(set, n) = set /\ sigdelset(set, n) = set
        BY <3>2, BadSignals DEF sigaddset, sigdelset
      <4>2. want' = want
        BY <1>2, <2>4, <3>2
      <4> QED
        BY <1>2, <2>4, <4>1, <4>2
    <3> QED
      BY <3>1, <3>2
  <2>5. \/ set' = sigemptyset /\ want' = {}
        \/ set' = sigfillset /\ want' = Signals
        \/ \E n \in 0 .. NWords * W + 1 :
             \/ set' = sigaddset(set, n) /\ want' = want \cup ({n} \cap Signals)
             \/ set' = sigdelset(set, n) /\ want' = want \ {n}
    BY <1>4, Zenon DEF ChangeSet
  <2> QED
    BY <1>2, <2>1, <2>2, <2>3, <2>4, <2>5
<1>5. CASE sigpending
  <2>1. UNCHANGED pending /\ set' = PendingInto(set)
        /\ (want' = IF old THEN pending \cap FirstWord ELSE pending)
    BY <1>5 DEF sigpending
  <2>2. CASE old
    <3> DEFINE r == [sigemptyset EXCEPT ![0] = ToWords(pending)[0]]
    <3>1. /\ r \in Arrays /\ KernelSet(r) \cap FirstWord = pending \cap FirstWord
          /\ KernelSet(r) \ FirstWord = KernelSet(sigemptyset) \ FirstWord
      BY <1>2, EmptyAndFull, FirstWordRead
    <3>2. set' = r /\ want' = pending \cap FirstWord
      BY <2>1, <2>2 DEF PendingInto
    <3> HIDE DEF r
    <3>3. KernelSet(r) = pending \cap FirstWord
      BY <3>1, EmptyAndFull
    <3> QED
      BY <1>2, <2>1, <3>1, <3>2, <3>3
  <2>3. CASE ~old
    <3>1. set' = ToWords(pending) /\ want' = pending
      BY <2>1, <2>3 DEF PendingInto
    <3> QED
      BY <1>2, <2>1, <3>1, KernelReadsWords
  <2> QED
    BY <2>2, <2>3
<1>6. CASE Kill
  BY <1>2, <1>6 DEF Kill
<1>7. CASE Wakes
  BY <1>2, <1>7 DEF Wakes
<1>8. CASE Sigaction
  BY <1>2, <1>8 DEF Sigaction, sigaction
<1>9. CASE sigprocmask \/ sigsuspend
  BY <1>2, <1>9 DEF sigprocmask, sigsuspend
<1>10. CASE Identity
  BY <1>2, <1>10, IdentityKeepsSignals DEF sigVars
<1>11. CASE UNCHANGED vars
  BY <1>2, <1>11 DEF vars, sigVars
<1> QED
  BY <1>4, <1>5, <1>6, <1>7, <1>8, <1>9, <1>10, <1>11 DEF Next, Signalling

\* The words of an action the client passes, or NULL.
ActOK(act) == act # NULL => act \in Action(Arrays)

\* What the client gets as oldact describes the action of before: the words it does not
\* describe are not read when the action is put back.
LEMMA OldActDescribes ==
  ASSUME Machine, ActInv, NEW act, ActOK(act), NEW k,
         k = IF old THEN OldActFallback(act) ELSE OldAct
  PROVE  /\ k \in Action(Arrays) /\ CanReturn(k)
         /\ k.handler = kact.handler /\ k.flags = kact.flags
         /\ MaskRead(k.mask) = kact.mask
<1>1. kact \in Action(SUBSET Signals) /\ (old => kact.mask \subseteq FirstWord)
      /\ CanReturn(kact) /\ kact.mask \in SUBSET Signals
  BY DEF ActInv, Action
<1>2. ToWords(kact.mask) \in Arrays /\ KernelSet(ToWords(kact.mask)) = kact.mask
  BY <1>1, KernelReadsWords
<1>3. CASE ~old
  <2>1. k = [kact EXCEPT !.mask = ToWords(kact.mask)]
    BY <1>3 DEF OldAct
  <2>2. /\ k \in Action(Arrays) /\ k.handler = kact.handler /\ k.flags = kact.flags
        /\ k.restorer = kact.restorer /\ k.mask = ToWords(kact.mask)
    BY <1>1, <1>2, <2>1 DEF Action
  <2> QED
    BY <1>1, <1>2, <1>3, <2>2 DEF CanReturn, MaskRead
<1>4. CASE old
  <2> DEFINE b == IF act # NULL THEN act
                  ELSE [handler |-> "none", flags |-> {}, restorer |-> "none",
                        mask |-> sigemptyset]
             m == IF arch = "mips" THEN ToWords(kact.mask)
                  ELSE [b.mask EXCEPT ![0] = ToWords(kact.mask)[0]]
  <2>1. k = [b EXCEPT !.handler = kact.handler, !.flags = kact.flags,
                      !.restorer = kact.restorer, !.mask = m]
    BY <1>4 DEF OldActFallback
  <2>2. b.mask \in Arrays /\ DOMAIN b = {"handler", "flags", "restorer", "mask"}
    BY EmptyAndFull DEF ActOK, Action
  <2>3. m \in Arrays /\ KernelSet(m) \cap FirstWord = kact.mask \cap FirstWord
    BY <1>1, <1>2, <2>2, FirstWordRead
  <2> HIDE DEF b, m
  <2>4. /\ k = [handler |-> kact.handler, flags |-> kact.flags,
                restorer |-> kact.restorer, mask |-> m]
    BY <2>1, <2>2 DEF b, ActOK, Action
  <2>5. k \in Action(Arrays)
    BY <1>1, <2>3, <2>4 DEF Action
  <2>6. MaskRead(k.mask) = kact.mask
    BY <1>1, <1>4, <2>3, <2>4 DEF MaskRead
  <2> QED
    BY <1>4, <2>4, <2>5, <2>6 DEF CanReturn
<1> QED
  BY <1>3, <1>4 DEF Machine

\* The action the kernel has after a call of sigaction that it did not refuse.
Installed(act) == IF old THEN OldKernelAction(act) ELSE KernelAction(WithRestorer(act))

\* Such an action is the one passed, as far as the kernel can read it, and its handler
\* can return.
LEMMA InstalledIsAct ==
  ASSUME Machine, NEW act \in Action(Arrays),
         CanReturn(act) \/ "SA_RESTORER" \notin act.flags
  PROVE  LET n == Installed(act) IN
         /\ n \in Action(SUBSET Signals) /\ (old => n.mask \subseteq FirstWord)
         /\ CanReturn(n) /\ n.handler = act.handler /\ n.mask = MaskRead(act.mask)
         /\ n.flags \ {"SA_RESTORER"} = act.flags \ {"SA_RESTORER"}
<1>1. KernelSet(act.mask) \subseteq Signals
  BY DEF KernelSet
<1>2. CASE old
  <2>1. Installed(act) = [act EXCEPT !.mask = KernelSet(act.mask) \cap FirstWord]
    BY <1>2 DEF Installed, OldKernelAction
  <2> QED
    BY <1>1, <1>2, <2>1 DEF Action, CanReturn, MaskRead
<1>3. CASE ~old
  <2> DEFINE w == WithRestorer(act)
  <2>1. /\ w \in Action(Arrays) /\ w.handler = act.handler /\ w.mask = act.mask
        /\ w.flags \ {"SA_RESTORER"} = act.flags \ {"SA_RESTORER"}
    BY DEF WithRestorer, Action
  <2>2. CanReturn(w)
    <3>1. CASE "SA_RESTORER" \in act.flags
      BY <3>1 DEF WithRestorer
    <3>2. CASE "SA_RESTORER" \notin act.flags /\ arch \in {"i386", "x86_64"}
      BY <3>2 DEF WithRestorer, CanReturn, Action
    <3>3. CASE arch \notin {"i386", "x86_64"}
      BY <3>3 DEF CanReturn
    <3> QED
      BY <3>1, <3>2, <3>3
  <2>3. Installed(act) = [w EXCEPT !.mask = KernelSet(w.mask)]
    BY <1>3 DEF Installed, KernelAction
  <2> HIDE DEF w
  <2> QED
    BY <1>1, <1>3, <2>1, <2>2, <2>3 DEF Action, CanReturn, MaskRead
<1> QED
  BY <1>2, <1>3 DEF Machine

\* The actions a client passes: a new one, none, or one that it kept.
LEMMA SigactionCalls ==
  ASSUME Machine, SetInv, ActInv, Sigaction
  PROVE  \E name \in {"sigaction", "restore"}, o \in BOOLEAN, refused \in BOOLEAN : \E act :
           /\ sigaction(name, act, o, refused) /\ ActOK(act)
           /\ act # NULL => CanReturn(act) \/ "SA_RESTORER" \notin act.flags
           /\ name = "restore" => act = kept /\ kept # NULL
<1>1. PICK refused \in BOOLEAN :
        \/ \E f \in {{}, {"SA_SIGINFO"}}, o \in BOOLEAN :
             sigaction("sigaction", [handler |-> "client", flags |-> f, restorer |-> "none",
                                     mask |-> set], o, refused)
        \/ sigaction("sigaction", NULL, TRUE, refused)
        \/ kept # NULL /\ sigaction("restore", kept, FALSE, refused)
  BY Zenon DEF Sigaction
<1>2. ASSUME NEW f \in {{}, {"SA_SIGINFO"}}, NEW o \in BOOLEAN,
             sigaction("sigaction", [handler |-> "client", flags |-> f, restorer |-> "none",
                                     mask |-> set], o, refused)
      PROVE  \E act :
               /\ sigaction("sigaction", act, o, refused) /\ act \in Action(Arrays)
               /\ "SA_RESTORER" \notin act.flags
  <2> DEFINE act == [handler |-> "client", flags |-> f, restorer |-> "none", mask |-> set]
  <2>1. act \in Action(Arrays) /\ "SA_RESTORER" \notin act.flags
    BY DEF Action, SetInv
  <2> QED
    BY <1>2, <2>1, Zenon
<1>3. kept # NULL => kept \in Action(Arrays) /\ CanReturn(kept)
  BY DEF ActInv
<1> DEFINE Passed(name, act, o) ==
             /\ sigaction(name, act, o, refused) /\ ActOK(act)
             /\ act # NULL => CanReturn(act) \/ "SA_RESTORER" \notin act.flags
             /\ name = "restore" => act = kept /\ kept # NULL
<1>4. ASSUME \E f \in {{}, {"SA_SIGINFO"}}, o \in BOOLEAN :
               sigaction("sigaction", [handler |-> "client", flags |-> f,
                                       restorer |-> "none", mask |-> set], o, refused)
      PROVE  \E o \in BOOLEAN : \E act : Passed("sigaction", act, o)
  BY <1>2, <1>4 DEF ActOK
<1>5. ASSUME sigaction("sigaction", NULL, TRUE, refused)
      PROVE  Passed("sigaction", NULL, TRUE)
  BY <1>5 DEF ActOK
<1>6. ASSUME kept # NULL, sigaction("restore", kept, FALSE, refused)
      PROVE  Passed("restore", kept, FALSE)
  BY <1>3, <1>6 DEF ActOK
<1>7. \E name \in {"sigaction", "restore"}, o \in BOOLEAN : \E act : Passed(name, act, o)
  <2> HIDE DEF Passed
  <2> QED
    BY <1>1, <1>4, <1>5, <1>6, Zenon
<1> QED
  BY <1>7, Zenon

\* The actions, and what was kept of them, outlive the calls.
LEMMA ActStep ==
  ASSUME Machine, SetInv, ActInv, [Next]_vars
  PROVE  ActInv'
<1>1. /\ arch' = arch /\ old' = old /\ Signals' = Signals /\ Arrays' = Arrays
  BY MachineStep
<1>2. CanReturn(kact)' = CanReturn(kact') /\ CanReturn(kept)' = CanReturn(kept')
  BY <1>1 DEF CanReturn
<1>3. MaskRead(kept.mask)' = MaskRead(kept'.mask)
  BY <1>1 DEF MaskRead, KernelSet
<1>4. SUFFICES
        /\ kact' \in Action(SUBSET Signals) /\ (old => kact'.mask \subseteq FirstWord)
        /\ CanReturn(kact')
        /\ kept' # NULL =>
             /\ kept' \in Action(Arrays) /\ CanReturn(kept')
             /\ kept'.handler = before'.handler /\ kept'.flags = before'.flags
             /\ MaskRead(kept'.mask) = before'.mask
  BY <1>1, <1>2, <1>3 DEF ActInv, Action, FirstWord
<1>5. CASE Sigaction
  <2>1. PICK name \in {"sigaction", "restore"}, o \in BOOLEAN, refused \in BOOLEAN :
          \E act : /\ sigaction(name, act, o, refused) /\ ActOK(act)
                   /\ act # NULL => CanReturn(act) \/ "SA_RESTORER" \notin act.flags
    BY <1>5, SigactionCalls
  <2>2. PICK act : /\ sigaction(name, act, o, refused) /\ ActOK(act)
                   /\ act # NULL => CanReturn(act) \/ "SA_RESTORER" \notin act.flags
    BY <2>1, Zenon
  <2>3. /\ kact' \in Action(SUBSET Signals) /\ (old => kact'.mask \subseteq FirstWord)
        /\ CanReturn(kact')
    <3>1. kact' = kact \/ (act # NULL /\ kact' = Installed(act))
      BY <2>2 DEF sigaction, Installed
    <3>2. CASE kact' = kact
      BY <3>2 DEF ActInv
    <3>3. CASE act # NULL /\ kact' = Installed(act)
      BY <2>2, <3>3, InstalledIsAct DEF ActOK
    <3> QED
      BY <3>1, <3>2, <3>3
  <2>4. CASE UNCHANGED <<before, kept>>
    BY <2>3, <2>4 DEF ActInv
  <2>5. CASE before' = kact /\ kept' = IF old THEN OldActFallback(act) ELSE OldAct
    <3>1. /\ kept' \in Action(Arrays) /\ CanReturn(kept')
          /\ kept'.handler = kact.handler /\ kept'.flags = kact.flags
          /\ MaskRead(kept'.mask) = kact.mask
      BY <2>2, <2>5, OldActDescribes
    <3> QED
      BY <2>3, <2>5, <3>1
  <2> QED
    BY <2>2, <2>4, <2>5 DEF sigaction
<1>6. CASE UNCHANGED <<kact, kept, before>>
  BY <1>6 DEF ActInv
<1>7. CASE \/ ChangeSet \/ sigprocmask \/ Kill \/ sigpending \/ sigsuspend \/ Wakes
           \/ UNCHANGED vars
  BY <1>6, <1>7 DEF ChangeSet, sigprocmask, Kill, sigpending, sigsuspend, Wakes, vars, sigVars
<1>8. CASE Identity
  BY <1>6, <1>8, IdentityKeepsSignals DEF sigVars
<1> QED
  BY <1>5, <1>7, <1>8 DEF Next, Signalling

\* What restoring an action does, when it succeeds.
LEMMA RestoreStep ==
  ASSUME Machine, SetInv, ActInv, Next, last'.call = "restore", last'.rc = 0,
         calls' # calls
  PROVE  /\ kact'.handler = before.handler /\ kact'.mask = before.mask
         /\ kact'.flags \ {"SA_RESTORER"} = before.flags \ {"SA_RESTORER"}
<1>1. Sigaction
  BY DEF Next, Signalling, Identity, ChangeSet, sigprocmask, Kill, sigpending, sigsuspend,
     Wakes, getresgid32, getresuid32, setfsgid32, setfsuid32, setresgid32, setresuid32,
     GetRes, SetFs, SetRes, Ends
<1>2. PICK name \in {"sigaction", "restore"}, o \in BOOLEAN, refused \in BOOLEAN :
        \E act : /\ sigaction(name, act, o, refused)
                 /\ name = "restore" => act = kept /\ kept # NULL
  BY <1>1, SigactionCalls
<1>3. PICK act : /\ sigaction(name, act, o, refused)
                 /\ name = "restore" => act = kept /\ kept # NULL
  BY <1>2, Zenon
<1>4. last'.call = name
  BY <1>3 DEF sigaction, Ends
<1>5. ~refused
  BY <1>3 DEF sigaction, Ends, LssReturn, Fails, EINVAL
<1>6. act = kept /\ kept # NULL /\ kact' = Installed(kept)
  BY <1>3, <1>4, <1>5 DEF sigaction, Installed
<1>7. /\ kept \in Action(Arrays) /\ CanReturn(kept)
      /\ kept.handler = before.handler /\ kept.flags = before.flags
      /\ MaskRead(kept.mask) = before.mask
  BY <1>6 DEF ActInv
<1> QED
  BY <1>6, <1>7, InstalledIsAct

\* A call that the older one serves takes and gives identifiers of 16 bits only.
LEMMA IdStep ==
  ASSUME Machine, IdInv, [Next]_vars
  PROVE  IdInv'
<1> USE CallsAssumption, MachineStep
<1>1. ASSUME NEW k \in {"uid", "gid"}, NEW n \in Ids, SetFs(k, n) PROVE IdInv'
  BY <1>1 DEF SetFs, Fits16, IdInv, IdRecord
<1>2. ASSUME NEW k \in {"uid", "gid"}, NEW n \in [{"r", "e", "s"} -> Ids], SetRes(k, n)
      PROVE  IdInv'
  <2> DEFINE new == [r |-> n.r, e |-> n.e, s |-> n.s, fs |-> n.e]
  <2>1. new \in IdRecord
    BY DEF IdRecord
  <2>2. CASE ids' = ids
    BY <2>2 DEF IdInv
  <2>3. CASE /\ ids' = [ids EXCEPT ![k] = new]
             /\ old => \A i \in {"r", "e", "s"} : n[i] <= Id16
    <3>1. old => \A i \in {"r", "e", "s", "fs"} : new[i] <= Id16
      BY <2>3
    <3> HIDE DEF new
    <3> QED
      BY <2>1, <2>3, <3>1 DEF IdInv
  <2> QED
    BY <1>2, <2>2, <2>3 DEF SetRes, Fits16
<1>3. CASE UNCHANGED ids
  BY <1>3 DEF IdInv
<1>4. CASE Signalling
  BY <1>3, <1>4 DEF Signalling, ChangeSet, Sigaction, sigaction, sigprocmask, Kill,
     sigpending, sigsuspend, Wakes
<1>5. CASE Identity
  BY <1>1, <1>2, <1>3, <1>5 DEF Identity, getresgid32, getresuid32, setfsgid32,
     setfsuid32, setresgid32, setresuid32
<1>6. CASE UNCHANGED vars
  BY <1>3, <1>6 DEF vars
<1> QED
  BY <1>4, <1>5, <1>6 DEF Next

\* What 16 bits hold of an identifier of 16 bits is that identifier.
LEMMA LowIsExact ==
  ASSUME NEW n \in Nat, n <= Id16
  PROVE  Low(n) = n
<1> DEFINE m == Id16 + 1
           q == n \div m
           r == n % m
<1>1. m \in Nat \ {0} /\ n < m
  BY CallsAssumption
<1> HIDE DEF m
<1>2. q \in Int /\ r \in 0 .. m - 1 /\ n = q * m + r
  BY <1>1
<1> HIDE DEF q, r
<1>3. q = 0
  <2>1. q > 0 => q * m >= m
    BY <1>1, <1>2
  <2>2. q < 0 => q * m <= 0 - m
    BY <1>1, <1>2
  <2> QED
    BY <1>1, <1>2, <2>1, <2>2
<1>4. r = n
  BY <1>1, <1>2, <1>3
<1> QED
  BY <1>4 DEF Low, r, m

\* What a call on signals leaves in errno.
SignalErrno ==
  IF last'.rc = -1 THEN errno' # 0 ELSE errno' = errno

\* Each such call.
LEMMA SignalErrnoStep ==
  ASSUME Machine, Signalling, calls' # calls
  PROVE  SignalErrno /\ last'.call \notin {"getres", "setfs", "setres"}
<1> USE DEF SignalErrno, Ends, Fine
<1>1. CASE ChangeSet
  BY <1>1 DEF ChangeSet, EINVAL
<1>2. CASE Sigaction
  <2>1. ASSUME NEW name \in {"sigaction", "restore"}, NEW act, NEW o, NEW refused \in BOOLEAN,
               sigaction(name, act, o, refused)
        PROVE  SignalErrno /\ last'.call = name
    BY <2>1 DEF sigaction, LssReturn, Fails, EINVAL, Done, ErrnoBeforeOld
  <2> HIDE DEF SignalErrno, Ends
  <2> QED
    BY <1>2, <2>1 DEF Sigaction
<1>3. CASE sigprocmask
  BY <1>3 DEF sigprocmask, LssReturn, Fails, ENOSYS
<1>4. CASE sigpending
  BY <1>4 DEF sigpending, Done, ErrnoBeforeOld
<1>5. CASE sigsuspend
  BY <1>5 DEF sigsuspend
<1>6. CASE Kill \/ Wakes
  BY <1>6 DEF Kill, Wakes
<1> QED
  BY <1>1, <1>2, <1>3, <1>4, <1>5, <1>6 DEF Signalling

\* What a call on identifiers reports and does.
IdentityResult ==
  /\ last'.call = "setres" =>
       LET k == last'.asked.kind n == last'.asked.id IN
       IF last'.rc = 0 THEN \A i \in {"r", "e", "s"} : ids'[k][i] = n[i] ELSE ids' = ids
  /\ last'.call = "setfs" =>
       ids'[last'.asked.kind].fs \in {ids[last'.asked.kind].fs, last'.asked.id}
  /\ last'.call = "getres" /\ last'.rc = 0 =>
       \A i \in {"r", "e", "s"} : buf'[i] = ids[last'.asked][i]

\* Each such call.
LEMMA IdentityStep ==
  ASSUME Machine, IdInv, Identity
  PROVE  IdentityResult /\ last'.call \in {"getres", "setfs", "setres"}
<1>1. ASSUME NEW k \in {"uid", "gid"}, NEW null \in BOOLEAN, GetRes(k, null)
      PROVE  IdentityResult /\ last'.call = "getres"
  <2>1. last'.call = "getres" /\ last'.asked = k
    BY <1>1 DEF GetRes, Ends
  <2>2. null => last'.rc # 0
    BY <1>1 DEF GetRes, Ends, LssReturn, Fails, EFAULT
  <2>3. ASSUME ~null, NEW i \in {"r", "e", "s"} PROVE buf'[i] = ids[k][i]
    <3>1. ids[k][i] \in Nat /\ (old => ids[k][i] <= Id16)
      BY DEF IdInv, IdRecord
    <3>2. buf'[i] = IF old THEN Low(ids[k][i]) ELSE ids[k][i]
      BY <1>1, <2>3 DEF GetRes
    <3> QED
      BY <3>1, <3>2, LowIsExact
  <2> QED
    BY <2>1, <2>2, <2>3 DEF IdentityResult
<1>2. ASSUME NEW k \in {"uid", "gid"}, NEW n \in Ids, SetFs(k, n)
      PROVE  IdentityResult /\ last'.call = "setfs"
  BY <1>2 DEF SetFs, Ends, IdentityResult, IdInv, IdRecord
<1>3. ASSUME NEW k \in {"uid", "gid"}, NEW n \in [{"r", "e", "s"} -> Ids], SetRes(k, n)
      PROVE  IdentityResult /\ last'.call = "setres"
  BY <1>3 DEF SetRes, Ends, IdentityResult, IdInv, EINVAL
<1> QED
  BY <1>1, <1>2, <1>3 DEF Identity, getresgid32, getresuid32, setfsgid32,
     setfsuid32, setresgid32, setresuid32

-----------------------------------------------------------------------------
(* The theorems. *)

CallsInv == Machine /\ SetInv /\ ActInv /\ IdInv

\* The invariant holds at the start and is kept by every call.
LEMMA CallsInvariant == Spec => []CallsInv
<1>1. Init => CallsInv
  <2> SUFFICES ASSUME Init PROVE CallsInv
    OBVIOUS
  <2>1. Machine
    <3>1. CASE arch = "x86_64"
      BY <3>1 DEF Init, Machine
    <3>2. CASE arch # "x86_64"
      BY <3>2 DEF Init, Machine
    <3> QED
      BY <3>1, <3>2
  <2>2. SetInv
    BY <2>1, EmptyAndFull DEF Init, SetInv
  <2>3. ActInv
    BY DEF Init, ActInv, Action, CanReturn
  <2>4. IdInv
    BY CallsAssumption DEF Init, IdInv, IdRecord
  <2> QED
    BY <2>1, <2>2, <2>3, <2>4 DEF CallsInv
<1>2. CallsInv /\ [Next]_vars => CallsInv'
  BY MachineStep, SetStep, ActStep, IdStep DEF CallsInv
<1> QED
  BY <1>1, <1>2, PTL DEF Spec

\* The set a client builds or gets is the one the kernel reads out of its words, and the
\* one sigismember tells, for words of any width.
THEOREM SetsAreTheKernels == Spec => []SetsMatchKernel
<1>1. CallsInv => SetsMatchKernel
  <2> SUFFICES ASSUME CallsInv PROVE SetsMatchKernel
    OBVIOUS
  <2>1. KernelSet(set) = want /\ Machine
    BY DEF CallsInv, SetInv
  <2>2. ASSUME NEW n \in 0 .. NWords * W + 1
        PROVE  sigismember(set, n) = IF BadSignal(n) THEN -1 ELSE IF n \in want THEN 1 ELSE 0
    <3>1. CASE BadSignal(n)
      BY <3>1 DEF sigismember
    <3>2. CASE ~BadSignal(n)
      <4>1. n \in want <=> (n - 1) % W \in set[(n - 1) \div W]
        BY <2>1, <3>2, BadSignals DEF KernelSet
      <4> QED
        BY <3>2, <4>1 DEF sigismember
    <3> QED
      BY <3>1, <3>2
  <2> QED
    BY <2>1, <2>2 DEF SetsMatchKernel
<1> QED
  BY <1>1, CallsInvariant, PTL

\* An action that is put back is the one that was there, and a handler can return.
THEOREM RestoringIsExact == Spec => RestoreIsExact
<1>1. ASSUME CallsInv, CallsInv', [Next]_vars, calls' # calls
      PROVE  /\ HandlerCanReturn'
             /\ last'.call = "restore" /\ last'.rc = 0 =>
                  /\ kact'.handler = before.handler /\ kact'.mask = before.mask
                  /\ kact'.flags \ {"SA_RESTORER"} = before.flags \ {"SA_RESTORER"}
  <2>1. HandlerCanReturn'
    BY <1>1 DEF CallsInv, ActInv, CanReturn, HandlerCanReturn
  <2>2. Next
    BY <1>1 DEF vars
  <2> QED
    BY <1>1, <2>1, <2>2, RestoreStep DEF CallsInv
<1> QED
  BY <1>1, CallsInvariant, PTL DEF Spec, RestoreIsExact

\* That the kernel lacks the newer calls shows neither in errno nor in an identifier.
THEOREM FallbacksAreTransparent == Spec => FallbackIsTransparent
<1>1. ASSUME CallsInv, [Next]_vars, calls' # calls
      PROVE  /\ last'.call \notin {"getres", "setfs", "setres"} => SignalErrno
             /\ IdentityResult
  <2>1. CASE Signalling
    BY <1>1, <2>1, SignalErrnoStep DEF CallsInv, IdentityResult
  <2>2. CASE Identity
    BY <1>1, <2>2, IdentityStep DEF CallsInv
  <2> QED
    BY <1>1, <2>1, <2>2 DEF Next, vars
<1> QED
  BY <1>1, CallsInvariant, PTL
  DEF Spec, FallbackIsTransparent, SignalErrno, IdentityResult

=============================================================================
