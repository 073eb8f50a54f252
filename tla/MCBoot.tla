------------------------------- MODULE MCBoot -------------------------------
(***************************************************************************)
(* Three computers.  An old one has a PIC only and no tables.  A PC of     *)
(* revision 0 has its one IOAPIC in the RSDT, where a table that another   *)
(* one shadows follows.  A newer one has two IOAPICs, the one for the ISA  *)
(* bus behind the other, interrupts that are wired elsewhere, and an RSDT  *)
(* that is out of date; its MADT is longer than it says.                   *)
(***************************************************************************)
EXTENDS Boot

ioapic(n, first) == [type |-> "ioapic", length |-> 12, id |-> n, gsib |-> first]
override(i, g)   == [type |-> "override", length |-> 10, irq |-> i, gsi |-> g]
other            == [type |-> "lapic", length |-> 8]
madt(size, list) == [signature |-> "APIC", length |-> size, entries |-> list]
fadt(x, as, pm)  == [signature |-> "FACP", xPMTimerBlock |-> x, space |-> as, pmTimerBlock |-> pm]
hpet             == [signature |-> "HPET"]

Isa == [irq \in Irqs |-> irq]

Old == [rsdp |-> FALSE, revision |-> 0, rsdt |-> <<>>, xsdt |-> <<>>,
        gsi |-> Isa, gsib |-> <<>>, last |-> <<>>]

Pc == [rsdp |-> TRUE, revision |-> 0, xsdt |-> <<>>,
       rsdt |-> <<fadt(0, "mmio", 8), madt(40, <<other, ioapic(1, 0), override(KBD, KBD), override(0, 2)>>),
                  madt(12, <<ioapic(1, 8)>>)>>,
       gsi |-> Isa, gsib |-> <<0>>, last |-> <<23>>]

New == [rsdp |-> TRUE, revision |-> 2,
        rsdt |-> <<fadt(0, "mmio", 8), madt(12, <<ioapic(1, 24)>>)>>,
        xsdt |-> <<hpet, fadt(9, "pcc", 8),
                   madt(54, <<ioapic(1, 24), ioapic(2, 0), override(MOUSE, 5), override(SERIAL, 20),
                              override(5, MOUSE), override(KBD, 7)>>)>>,
        gsi |-> [Isa EXCEPT ![MOUSE] = 5, ![SERIAL] = 20], gsib |-> <<24, 0>>, last |-> <<7, 23>>]

MCBoards == {Old, Pc, New}
=============================================================================
