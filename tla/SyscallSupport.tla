--------------------------- MODULE SyscallSupport ---------------------------
(***************************************************************************)
(* The signal and identity calls of coredumper/linux_syscall_support.h,    *)
(* which stand in for those of libc.  A set of signals is an array of      *)
(* words, laid out as the kernel lays it out.  A kernel may lack the       *)
(* rt_ calls and the calls with 32-bit identifiers (ENOSYS); the calls are *)
(* then made with the older ones, which know only one word of signals and  *)
(* 16 bits of an identifier.                                               *)
(***************************************************************************)
EXTENDS Integers

CONSTANTS
  NULL,
  W,         \* bits of a word
  Ids,       \* identifiers
  Id16,      \* the greatest identifier of 16 bits
  Sent,      \* signals that may be sent to the process
  MaxCalls   \* bound: calls made

ASSUME CallsAssumption ==
  /\ W \in Nat \ {0} /\ Id16 \in Nat /\ Ids \subseteq Nat /\ MaxCalls \in Nat
  /\ Sent \subseteq Nat

EINTR  == 4
EFAULT == 14
EINVAL == 22
ENOSYS == 38

VARIABLES
  arch,
  client,    \* what the client is after: the calls on signals or those on identifiers
  old,       \* the kernel lacks the newer calls
  set,       \* a struct kernel_sigset_t of the client: words of bits
  want,      \* the signals the client put into it
  kact,      \* the action of a signal, in the kernel
  kept,      \* the struct kernel_sigaction the client got as oldact
  before,    \* the action it describes
  blocked, pending,   \* sets of signals, in the kernel
  waiting,   \* 1 in sigsuspend
  ids,       \* by kind: real, effective and saved identifier, and that for files
  buf,       \* the three variables the client reads identifiers into
  errno,
  last,      \* the last call: its name, its result and what was asked for
  calls

sigVars == <<set, want, kact, kept, before, blocked, pending, waiting>>
vars == <<arch, client, old, sigVars, ids, buf, errno, last, calls>>

-----------------------------------------------------------------------------
(* The kernel. *)

\* KERNEL_NSIG signals: 64, and 128 on MIPS; a word has 64 bits on x86-64, else 32.
NWords  == CASE arch = "x86_64" -> 1 [] arch = "mips" -> 4 [] OTHER -> 2
Words   == 0 .. NWords - 1
Signals == 1 .. NWords * W
FirstWord == 1 .. W

\* The signals of an array of words, and the array of a set.
KernelSet(s) == {n \in Signals : (n - 1) % W \in s[(n - 1) \div W]}
ToWords(S)   == [w \in Words |-> {b \in 0 .. W - 1 : w * W + b + 1 \in S}]

\* How a call reports its result: an error is a negative number, on MIPS it is flagged.
Fails(e) == IF arch = "mips" THEN [res |-> e, err |-> 1] ELSE [res |-> 0 - e, err |-> 0]

\* LSS_RETURN
LssReturn(r) ==
  CASE arch = "mips" /\ r.err # 0               -> [rc |-> -1, errno |-> r.res]
    [] arch # "mips" /\ r.res \in -4095 .. -1   -> [rc |-> -1, errno |-> 0 - r.res]
    [] OTHER                                    -> [rc |-> r.res, errno |-> errno]

-----------------------------------------------------------------------------
(* Sets of signals. *)

BadSignal(n) == n < 1 \/ n > NWords * W

sigemptyset == [w \in Words |-> {}]
sigfillset  == [w \in Words |-> 0 .. W - 1]

sigaddset(s, n) == IF BadSignal(n) THEN s
                   ELSE [s EXCEPT ![(n - 1) \div W] = @ \cup {(n - 1) % W}]
sigdelset(s, n) == IF BadSignal(n) THEN s
                   ELSE [s EXCEPT ![(n - 1) \div W] = @ \ {(n - 1) % W}]

sigismember(s, n) == IF BadSignal(n) THEN -1
                     ELSE IF (n - 1) % W \in s[(n - 1) \div W] THEN 1 ELSE 0

-----------------------------------------------------------------------------
Init ==
  /\ arch \in {"x86_64", "i386", "arm", "mips"}
  /\ client \in {"signals", "identity"}
  /\ old \in IF arch = "x86_64" THEN {FALSE} ELSE BOOLEAN
  /\ set = sigemptyset /\ want = {}
  /\ kact = [handler |-> "default", flags |-> {}, restorer |-> "none", mask |-> {}]
  /\ kept = NULL /\ before = NULL
  /\ blocked = {} /\ pending = {} /\ waiting = 0
  /\ ids = [k \in {"uid", "gid"} |-> [r |-> 0, e |-> 0, s |-> 0, fs |-> 0]]
  /\ buf = [r |-> Id16 + 2, e |-> Id16 + 2, s |-> Id16 + 2]
  /\ errno = 0 /\ last = [call |-> "none", rc |-> 0, asked |-> NULL] /\ calls = 0

\* A call ends with result x, of rc and errno.
Ends(name, x, asked) ==
  /\ waiting = 0 /\ calls < MaxCalls /\ calls' = calls + 1
  /\ errno' = x.errno /\ last' = [call |-> name, rc |-> x.rc, asked |-> asked]
  /\ UNCHANGED <<arch, client, old>>

Fine(v) == [rc |-> v, errno |-> errno]

\* The client works on its set.
ChangeSet ==
  /\ \/ set' = sigemptyset /\ want' = {} /\ Ends("set", Fine(0), NULL)
     \/ set' = sigfillset /\ want' = Signals /\ Ends("set", Fine(0), NULL)
     \/ \E n \in 0 .. NWords * W + 1 :
          LET x == IF BadSignal(n) THEN [rc |-> -1, errno |-> EINVAL] ELSE Fine(0) IN
          \/ set' = sigaddset(set, n) /\ want' = want \cup ({n} \cap Signals) /\ Ends("set", x, n)
          \/ set' = sigdelset(set, n) /\ want' = want \ {n} /\ Ends("set", x, n)
  /\ UNCHANGED <<kact, kept, before, blocked, pending, waiting, ids, buf>>

-----------------------------------------------------------------------------
(* sigaction. *)

\* i386 and x86-64 need a function that returns from the handler.
WithRestorer(a) ==
  IF arch \notin {"i386", "x86_64"} \/ "SA_RESTORER" \in a.flags THEN a
  ELSE [a EXCEPT !.flags = @ \cup {"SA_RESTORER"},
                 !.restorer = IF arch = "x86_64" \/ "SA_SIGINFO" \in a.flags THEN "restore_rt"
                              ELSE "restore"]

\* rt_sigaction, and sigaction with one word of signals.
KernelAction(a)    == [a EXCEPT !.mask = KernelSet(a.mask)]
OldKernelAction(a) == [a EXCEPT !.mask = KernelSet(a.mask) \cap FirstWord]

\* What the client finds in oldact.
OldAct == [kact EXCEPT !.mask = ToWords(kact.mask)]

OldActFromNew(act) ==   \* a mutant: oldact keeps the mask of act
  IF act # NULL THEN [act EXCEPT !.handler = kact.handler, !.flags = kact.flags]
  ELSE [handler |-> kact.handler, flags |-> kact.flags, restorer |-> kact.restorer,
        mask |-> sigemptyset]

\* With the older call only the first word is known; the others are those of act, or 0.
\* On MIPS it uses the same structure, and all words are set.
OldActFallback(act) ==
  LET base == IF act # NULL THEN act
              ELSE [handler |-> "none", flags |-> {}, restorer |-> "none", mask |-> sigemptyset]
  IN [base EXCEPT !.handler = kact.handler, !.flags = kact.flags,
                  !.restorer = kact.restorer,
                  !.mask = IF arch = "mips" THEN ToWords(kact.mask)
                           ELSE [@ EXCEPT ![0] = ToWords(kact.mask)[0]]]

\* errno before the older call: that of before the rt_ call.
ErrnoBeforeOld == errno

Done == [rc |-> 0, errno |-> IF old THEN ErrnoBeforeOld ELSE errno]

\* The kernel may refuse.
sigaction(name, act, wantold, refused) ==
  LET x == IF refused THEN LssReturn(Fails(EINVAL)) ELSE Done IN
  /\ Ends(name, x, NULL)
  /\ kact' = IF act = NULL \/ refused THEN kact
             ELSE IF old THEN OldKernelAction(act) ELSE KernelAction(WithRestorer(act))
  /\ IF wantold /\ ~refused
     THEN before' = kact /\ kept' = IF old THEN OldActFallback(act) ELSE OldAct
     ELSE UNCHANGED <<before, kept>>
  /\ UNCHANGED <<set, want, blocked, pending, waiting, ids, buf>>

\* The client installs a handler, asks for the action, or puts back what it got.
Sigaction ==
  \E refused \in BOOLEAN :
    \/ \E f \in {{}, {"SA_SIGINFO"}}, o \in BOOLEAN :
         sigaction("sigaction", [handler |-> "client", flags |-> f, restorer |-> "none",
                                 mask |-> set], o, refused)
    \/ sigaction("sigaction", NULL, TRUE, refused)
    \/ kept # NULL /\ sigaction("restore", kept, FALSE, refused)

-----------------------------------------------------------------------------
(* The other calls on signals. *)

\* There is no older call: the mask stays.
sigprocmask ==
  /\ \E how \in {"SIG_BLOCK", "SIG_UNBLOCK", "SIG_SETMASK"} :
       /\ blocked' = CASE old -> blocked
                       [] how = "SIG_BLOCK" -> blocked \cup KernelSet(set)
                       [] how = "SIG_UNBLOCK" -> blocked \ KernelSet(set)
                       [] OTHER -> KernelSet(set)
       /\ Ends("sigprocmask", IF old THEN LssReturn(Fails(ENOSYS)) ELSE Fine(0), NULL)
  /\ UNCHANGED <<set, want, kact, kept, before, pending, waiting, ids, buf>>

\* A signal is sent to the process.
Kill ==
  /\ calls < MaxCalls
  /\ \E n \in Sent \cap Signals : pending' = pending \cup {n}
  /\ pending' # pending
  /\ UNCHANGED <<arch, client, old, set, want, kact, kept, before, blocked, waiting, ids, buf, errno, last,
                 calls>>

PendingOver(s) == IF old THEN [s EXCEPT ![0] = ToWords(pending)[0]] ELSE ToWords(pending)   \* a mutant

\* The older call fills in one word of a set that was emptied.
PendingInto(s) == IF old THEN [sigemptyset EXCEPT ![0] = ToWords(pending)[0]]
                  ELSE ToWords(pending)

sigpending ==
  /\ set' = PendingInto(set)
  /\ want' = IF old THEN pending \cap FirstWord ELSE pending
  /\ Ends("sigpending", Done, NULL)
  /\ UNCHANGED <<kact, kept, before, blocked, pending, waiting, ids, buf>>

\* The mask while the process waits; the older call gets one word.
SuspendMask == IF old THEN KernelSet(set) \cap FirstWord ELSE KernelSet(set)

\* The kernel keeps the mask of before, here in last.asked.
sigsuspend ==
  /\ Ends("sigsuspend", Fine(0), blocked)
  /\ blocked' = SuspendMask /\ waiting' = 1
  /\ UNCHANGED <<set, want, kact, kept, before, pending, ids, buf>>

\* A signal that is not blocked ends it, with EINTR.
Wakes ==
  /\ waiting = 1 /\ waiting' = 0
  /\ \E n \in pending \ blocked :
       /\ pending' = pending \ {n}
       /\ last' = [call |-> "woken", rc |-> LssReturn(Fails(EINTR)).rc, asked |-> n]
  /\ errno' = LssReturn(Fails(EINTR)).errno
  /\ blocked' = last.asked
  /\ UNCHANGED <<arch, client, old, set, want, kact, kept, before, ids, buf, calls>>

-----------------------------------------------------------------------------
(* Identifiers, of 32 bits. *)

Fits16(n) == n <= Id16

\* An older call writes 16 bits of a variable, and takes 16 bits of an argument.
Low(n) == n % (Id16 + 1)

\* The variables are cleared before the older call; a missing one is refused with a
\* result of its own.
GetRes(k, null) ==
  /\ Ends("getres", CASE ~null -> [rc |-> 0, errno |-> IF old THEN ENOSYS ELSE errno]
                      [] null /\ old -> [rc |-> EFAULT, errno |-> ENOSYS]
                      [] OTHER -> LssReturn(Fails(EFAULT)), k)
  /\ buf' = IF null THEN buf
            ELSE [i \in {"r", "e", "s"} |-> IF old THEN Low(ids[k][i]) ELSE ids[k][i]]

getresgid32 == \E null \in BOOLEAN : GetRes("gid", null) /\ UNCHANGED <<sigVars, ids>>
getresuid32 == \E null \in BOOLEAN : GetRes("uid", null) /\ UNCHANGED <<sigVars, ids>>

\* The result is the identifier of before.
SetFs(k, n) ==
  LET ok == ~old \/ Fits16(n) IN
  /\ Ends("setfs", [rc |-> IF ok THEN ids[k].fs ELSE EINVAL,
                    errno |-> IF old THEN ENOSYS ELSE errno], [kind |-> k, id |-> n])
  /\ ids' = IF ok THEN [ids EXCEPT ![k].fs = n] ELSE ids

setfsgid32 == \E n \in Ids : SetFs("gid", n) /\ UNCHANGED <<sigVars, buf>>
setfsuid32 == \E n \in Ids : SetFs("uid", n) /\ UNCHANGED <<sigVars, buf>>

SetResTruncates(k, n) ==   \* a mutant
  /\ Ends("setres", [rc |-> 0, errno |-> IF old THEN ENOSYS ELSE errno], [kind |-> k, id |-> n])
  /\ ids' = [ids EXCEPT ![k] = LET l == [i \in {"r", "e", "s"} |-> IF old THEN Low(n[i]) ELSE n[i]]
                               IN [r |-> l.r, e |-> l.e, s |-> l.s, fs |-> l.e]]

\* Identifiers the older call cannot take are refused, with a result of its own; the
\* identifier for files follows the effective one.
SetRes(k, n) ==
  LET ok == ~old \/ \A i \in {"r", "e", "s"} : Fits16(n[i]) IN
  /\ Ends("setres", [rc |-> IF ok THEN 0 ELSE EINVAL, errno |-> IF old THEN ENOSYS ELSE errno],
          [kind |-> k, id |-> n])
  /\ ids' = IF ok THEN [ids EXCEPT ![k] = [r |-> n.r, e |-> n.e, s |-> n.s, fs |-> n.e]] ELSE ids

setresgid32 ==
  \E n \in [{"r", "e", "s"} -> Ids] : SetRes("gid", n) /\ UNCHANGED <<sigVars, buf>>
setresuid32 ==
  \E n \in [{"r", "e", "s"} -> Ids] : SetRes("uid", n) /\ UNCHANGED <<sigVars, buf>>

\* MIPS has none of these.
Identity ==
  /\ client = "identity" /\ arch # "mips"
  /\ \/ getresgid32 \/ getresuid32 \/ setfsgid32 \/ setfsuid32 \/ setresgid32 \/ setresuid32

Signalling ==
  /\ client = "signals"
  /\ \/ ChangeSet \/ Sigaction \/ sigprocmask \/ Kill \/ sigpending \/ sigsuspend \/ Wakes

Next == Signalling \/ Identity

Spec == Init /\ [][Next]_vars

-----------------------------------------------------------------------------
(* Properties. *)

IdRecord == [r : Nat, e : Nat, s : Nat, fs : Nat]

\* The words hold bits of a word, the kernel's sets hold signals, a kernel without the
\* newer calls holds nothing beyond 16 bits in its identifiers, and only a call that was
\* suspended leaves the process waiting.
TypeOK ==
  /\ set \in [Words -> SUBSET (0 .. W - 1)]
  /\ blocked \subseteq Signals /\ pending \subseteq Signals /\ kact.mask \subseteq Signals
  /\ ids \in [{"uid", "gid"} -> IdRecord] /\ buf \in [{"r", "e", "s"} -> Nat]
  /\ old => \A k \in {"uid", "gid"}, i \in {"r", "e", "s", "fs"} : ids[k][i] <= Id16
  /\ errno \in {0, EINTR, EFAULT, EINVAL, ENOSYS}
  /\ waiting \in {0, 1} /\ (waiting = 1 => last.call = "sigsuspend")

\* The set the client built with sigaddset and its kin, or got from sigpending, is the
\* one the kernel reads out of its words and the one sigismember tells it, whichever
\* calls the kernel has (linux_syscall_support.h:4311-4354, 4462-4471).
SetsMatchKernel ==
  /\ KernelSet(set) = want
  /\ \A n \in 0 .. NWords * W + 1 :
       sigismember(set, n) = IF BadSignal(n) THEN -1 ELSE IF n \in want THEN 1 ELSE 0

\* A handler the kernel has installed on i386 or x86-64 through rt_sigaction has a
\* restorer, the one that fits the frame the kernel will build.
HandlerCanReturn ==
  arch \in {"i386", "x86_64"} /\ ~old /\ kact.handler = "client" =>
    /\ "SA_RESTORER" \in kact.flags
    /\ kact.restorer = IF arch = "i386" /\ "SA_SIGINFO" \notin kact.flags THEN "restore"
                       ELSE "restore_rt"

\* Putting back the action that an earlier call returned as oldact gives the kernel the
\* action it had then, but for the restorer, although the older call returned one word
\* of its mask and the others came from the new action
\* (linux_syscall_support.h:4442-4455).  A handler can return, whether its action is new
\* or was read and put back (linux_syscall_support.h:4153-4158, 4419-4423).
RestoreIsExact ==
  [][calls' # calls =>
       /\ HandlerCanReturn'
       /\ last'.call = "restore" /\ last'.rc = 0 =>
            /\ kact'.handler = before.handler /\ kact'.mask = before.mask
            /\ kact'.flags \ {"SA_RESTORER"} = before.flags \ {"SA_RESTORER"}]_vars

\* That the kernel lacks the newer call does not show.  A call on signals that succeeds
\* leaves errno alone, also when the newer call failed with ENOSYS first, and one that
\* fails has an errno (linux_syscall_support.h:4401, 4440, 4463, 4466).  An identifier
\* is never cut to 16 bits: what the kernel holds after a call to set it is what was
\* asked for when the result says so and what it was otherwise, and what is read is what
\* the kernel holds (linux_syscall_support.h:4223-4309).
FallbackIsTransparent ==
  [][calls' # calls =>
       /\ last'.call \notin {"getres", "setfs", "setres"} =>
            IF last'.rc = -1 THEN errno' # 0 ELSE errno' = errno
       /\ last'.call = "setres" =>
            LET k == last'.asked.kind n == last'.asked.id IN
            IF last'.rc = 0 THEN \A i \in {"r", "e", "s"} : ids'[k][i] = n[i] ELSE ids' = ids
       /\ last'.call = "setfs" => ids'[last'.asked.kind].fs \in {ids[last'.asked.kind].fs, last'.asked.id}
       /\ last'.call = "getres" /\ last'.rc = 0 =>
            \A i \in {"r", "e", "s"} : buf'[i] = ids[last'.asked][i]]_vars
=============================================================================
