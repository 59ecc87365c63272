----------------------------- MODULE TapDevices -----------------------------
(***************************************************************************)
(* The tap devices of the host as the distributor meets them: what         *)
(* `openvpn --mktun --dev tap`, `ip link set tapN up`, open+ioctl in       *)
(* tun_alloc, and the end of a process do to them, and what other          *)
(* processes of the host may do meanwhile.  Everything but tun_alloc is    *)
(* outside the repository and modelled from how the program uses it.       *)
(* Devices are identified by their number: n stands for "tap<n>".          *)
(***************************************************************************)
EXTENDS Integers

CONSTANTS
    NDev,      \* openvpn --mktun can create tap0 .. tap<NDev-1>
    MaxFd,     \* RLIMIT_NOFILE: descriptors are 0 .. MaxFd-1
    FirstFd,   \* the first descriptor tun_alloc can get (after 0, 1, 2, sfd)
    NoTap      \* the state of a descriptor that is not open on a tap

ASSUME DeviceAssumption ==
    /\ NDev \in Nat
    /\ FirstFd \in Nat
    /\ MaxFd \in Nat
    /\ NoTap \notin Nat

VARIABLES
    present,     \* the tap devices that exist
    persistent,  \* those that outlive the process attached to them
    up,          \* those that are administratively up
    foreign,     \* those another process is attached to
    fds          \* the program's descriptors: the tap each is attached to

devices == <<present, persistent, up, foreign, fds>>

Units == 0 .. NDev - 1
Fds == FirstFd .. MaxFd - 1

\* The devices the program is attached to.
Held == {fds[d] : d \in Fds} \ {NoTap}

DevicesTypeOK ==
    /\ present \subseteq Nat
    /\ persistent \subseteq present
    /\ up \subseteq present
    /\ foreign \subseteq present
    /\ fds \in [Fds -> Nat \cup {NoTap}]

\* The host before the program first runs: persistent devices left by earlier
\* use, some up, some with another process attached.
DevicesInit ==
    /\ present \in SUBSET Units
    /\ persistent = present
    /\ up \in SUBSET present
    /\ foreign \in SUBSET present
    /\ fds = [d \in Fds |-> NoTap]

-----------------------------------------------------------------------------
LowestFreeUnit(n) ==
    /\ n \in Units \ present
    /\ \A k \in 0 .. n - 1 : k \in present

LowestFreeFd(d) ==
    /\ d \in Fds
    /\ fds[d] = NoTap
    /\ \A e \in FirstFd .. d - 1 : fds[e] # NoTap

\* openvpn --mktun --dev tap: the lowest free unit becomes a persistent device
\* that is down.
CreateUnit ==
    \E n \in Units :
        /\ LowestFreeUnit(n)
        /\ present' = present \cup {n}
        /\ persistent' = persistent \cup {n}
        /\ UNCHANGED <<up, foreign, fds>>

\* The same command with every unit taken: it fails and changes nothing.
NoFreeUnit ==
    /\ Units \subseteq present
    /\ UNCHANGED devices

\* Mutant of LinkUp: a device that does not exist is brought up.
LinkUpAnyway(n) ==
    /\ up' = up \cup {n}
    /\ UNCHANGED <<present, persistent, foreign, fds>>

\* ip link set tap<n> up: fails, changing nothing, when there is no tap<n>.
LinkUp(n) ==
    /\ up' = IF n \in present THEN up \cup {n} ELSE up
    /\ UNCHANGED <<present, persistent, foreign, fds>>

\* tun_alloc("tap<n>"): open("/dev/net/tun") fails when the process is out of
\* descriptors; TUNSETIFF fails (EBUSY) on a device some process holds.
AllocRefused(n) ==
    \/ \A d \in Fds : fds[d] # NoTap
    \/ n \in foreign \cup Held

\* Mutant of Attach: tun_alloc closes the descriptor before it returns it.
AttachAndClose(n, d) ==
    /\ ~AllocRefused(n)
    /\ LowestFreeFd(d)
    /\ present' = present \cup {n}
    /\ UNCHANGED <<persistent, up, foreign, fds>>

\* The successful tun_alloc: the lowest free descriptor d is attached to the
\* device, which TUNSETIFF creates (not persistent, and down) if there is none.
Attach(n, d) ==
    /\ ~AllocRefused(n)
    /\ LowestFreeFd(d)
    /\ fds' = [fds EXCEPT ![d] = n]
    /\ present' = present \cup {n}
    /\ UNCHANGED <<persistent, up, foreign>>

\* The end of the process: every descriptor is closed, and the devices it held
\* that are not persistent disappear.
ReleaseAll ==
    /\ fds' = [d \in Fds |-> NoTap]
    /\ present' = present \ (Held \ persistent)
    /\ up' = up \ (Held \ persistent)
    /\ UNCHANGED <<persistent, foreign>>

-----------------------------------------------------------------------------
(* Other processes of the host: the reader of a tap (the README's ebtables  *)
(* setup, a second distributor, a monitor), and an operator with openvpn.   *)

ForeignAttach(n) ==
    /\ n \in persistent \ (foreign \cup Held)
    /\ foreign' = foreign \cup {n}
    /\ UNCHANGED <<present, persistent, up, fds>>

ForeignDetach(n) ==
    /\ n \in foreign
    /\ foreign' = foreign \ {n}
    /\ UNCHANGED <<present, persistent, up, fds>>

\* openvpn --rmtun attaches to the device, so it cannot take one that is held.
ForeignRmtun(n) ==
    /\ n \in persistent \ (foreign \cup Held)
    /\ present' = present \ {n}
    /\ persistent' = persistent \ {n}
    /\ up' = up \ {n}
    /\ UNCHANGED <<foreign, fds>>
=============================================================================
