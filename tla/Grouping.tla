------------------------------- MODULE Grouping -------------------------------
(***************************************************************************)
(* GroupDeviceRegisterWithLogicalContinuity (enhancement-group.go): the    *)
(* registers an application loads are split by slave, sorted by address    *)
(* and cut into the runs that one request can read.                        *)
(*                                                                         *)
(* The order of the loaded list only reaches the result through the ties   *)
(* of a sort that is not stable, and the order of the slaves is that of a  *)
(* Go map, so the list is a set here and both orders are free.             *)
(***************************************************************************)
EXTENDS Integers, Sequences, FiniteSets

CONSTANTS
    Registers,    \* the DeviceRegisters there are to load
    AddressSpace, \* values of a uint16 (2^16)
    MaxLoaded     \* bound: registers loaded together

ASSUME GroupingAssumption ==
    /\ IsFiniteSet(Registers)
    /\ AddressSpace \in Nat \ {0} /\ MaxLoaded \in Nat
    /\ \A r \in Registers :
         r.address \in 0..(AddressSpace - 1) /\ r.quantity \in 0..(AddressSpace - 1)

VARIABLES
    registers, \* the loaded registers
    slaves,    \* slave ids whose registers are not grouped yet
    regs,      \* the sorted registers of the slave at work
    pos,       \* the next of them to look at
    current,   \* currentGroup
    groups     \* result

groupVars == <<registers, slaves, regs, pos, current, groups>>

RegistersOf(s) == {r \in registers : r.slave = s}

\* sort.Slice by address; where addresses are equal any order comes out.
Sorted(R) ==
    {f \in [1..Cardinality(R) -> R] :
        /\ \A r \in R : \E k \in DOMAIN f : f[k] = r
        /\ \A k \in DOMAIN f : k > 1 => f[k - 1].address <= f[k].address}

\* (Mutant: an overlapping register is taken into the run too.)
ContinuesOrOverlaps(p, r) ==
    /\ p.quantity # 0
    /\ r.address <= (p.address + p.quantity) % AddressSpace

\* The sum is a uint16.
Continues(p, r) ==
    /\ p.quantity # 0
    /\ r.address = (p.address + p.quantity) % AddressSpace

GroupInit ==
    /\ registers \in {R \in SUBSET Registers : Cardinality(R) <= MaxLoaded}
    /\ slaves = {r.slave : r \in registers}
    /\ regs = <<>> /\ pos = 1 /\ current = <<>>
    /\ groups = <<>>

TakeSlave(s) ==
    /\ regs = <<>>
    /\ slaves' = slaves \ {s}
    /\ regs' \in Sorted(RegistersOf(s))
    /\ current' = <<regs'[1]>>
    /\ pos' = 2
    /\ UNCHANGED <<registers, groups>>

Extend ==
    /\ regs # <<>> /\ pos <= Len(regs)
    /\ Continues(regs[pos - 1], regs[pos])
    /\ current' = Append(current, regs[pos])
    /\ pos' = pos + 1
    /\ UNCHANGED <<registers, slaves, regs, groups>>

\* A new group starts after a gap, an overlap or a register without quantity.
Cut ==
    /\ regs # <<>> /\ pos <= Len(regs)
    /\ ~Continues(regs[pos - 1], regs[pos])
    /\ groups' = Append(groups, current)
    /\ current' = <<regs[pos]>>
    /\ pos' = pos + 1
    /\ UNCHANGED <<registers, slaves, regs>>

\* (Mutant: the last group of a slave is forgotten.)
LastGroupForgotten ==
    /\ regs # <<>> /\ pos > Len(regs)
    /\ regs' = <<>> /\ pos' = 1 /\ current' = <<>>
    /\ UNCHANGED <<registers, slaves, groups>>
LastGroup ==
    /\ regs # <<>> /\ pos > Len(regs)
    /\ groups' = Append(groups, current)
    /\ regs' = <<>> /\ pos' = 1 /\ current' = <<>>
    /\ UNCHANGED <<registers, slaves>>

GroupNext ==
    \/ \E s \in slaves : TakeSlave(s)
    \/ Extend \/ Cut \/ LastGroup

GroupSpec == GroupInit /\ [][GroupNext]_groupVars

Grouped == slaves = {} /\ regs = <<>>

-----------------------------------------------------------------------------
\* A group is one run of one slave: each register begins where the one before
\* it ends.  The comparison in the code is of sums that wrap at 2^16; that a
\* run never wraps around the address space rests on the sort before it.
OneRun(g) ==
    /\ g # <<>>
    /\ \A k \in 1..(Len(g) - 1) :
         /\ g[k + 1].slave = g[k].slave
         /\ g[k + 1].address = g[k].address + g[k].quantity

\* What readGroup relies on when it reads a group with one request from the
\* first register's address and cuts the answer up in order.
GroupsContiguous ==
    /\ \A n \in 1..Len(groups) : OneRun(groups[n])
    /\ current # <<>> => OneRun(current)

\* No register is lost or read twice: in the end every loaded register is at
\* exactly one place of one group.
PlacesOf(r) ==
    {p \in (1..Len(groups)) \X (1..MaxLoaded) :
        p[2] <= Len(groups[p[1]]) /\ groups[p[1]][p[2]] = r}
GroupsPartition == Grouped => \A r \in registers : Cardinality(PlacesOf(r)) = 1
===============================================================================
