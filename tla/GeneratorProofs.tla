--------------------------- MODULE GeneratorProofs ---------------------------
(****************************************************************************)
(* What the generator guarantees for every register file, target cycle,     *)
(* retry limit and choice of random numbers: to the programs it accepts, to *)
(* the compilers, and with the loops in which it draws again.               *)
(****************************************************************************)
EXTENDS Pipeline, Drawing, Induction

-----------------------------------------------------------------------------
(* The templates and the layout.                                            *)

\* The tables of program.c, as far as typing looks at a single template.
WellFormed(tpl) ==
    /\ tpl.group \in Groups
    /\ tpl.latency \in Nat
    /\ tpl.uop1 \subseteq Ports
    /\ tpl.uop2 \subseteq Ports
    /\ tpl.op_par_src => tpl.has_src

LEMMA TemplateFacts ==
    ASSUME NEW tpl \in Templates
    PROVE  WellFormed(tpl)
  <1>1. ASSUME NEW type \in Groups, NEW group \in Groups, NEW lat \in Nat,
               NEW uop \in SUBSET Ports
        PROVE  /\ WellFormed(WideMul(group))
               /\ WellFormed(TwoOperand(type, group, lat, uop))
               /\ WellFormed(TwoOperand("SUB_R", group, lat, uop))
               /\ WellFormed(WithConstant(group, uop))
               /\ WellFormed(Control(group))
    BY DEF WellFormed, WideMul, TwoOperand, WithConstant, Control, Ports,
           PORT_NONE, PORT_P015
  <1>2. /\ PORT_P01 \in SUBSET Ports
        /\ PORT_P05 \in SUBSET Ports
        /\ PORT_P015 \in SUBSET Ports
        /\ {"P1"} \in SUBSET Ports
    BY DEF Ports, PORT_P01, PORT_P05, PORT_P015
  <1>3. Groups = {"UMULH_R", "SMULH_R", "MUL_R", "XOR_R", "ADD_RS", "ROR_C",
                  "ADD_C", "XOR_C", "TARGET", "BRANCH"}
    BY DEF Groups
  <1>4. CASE tpl \in WideTemplates
    BY <1>1, <1>2, <1>3, <1>4 DEF WideTemplates, tpl_umulh_r, tpl_smulh_r
  <1>5. CASE tpl \in {tpl_mul_r, tpl_target, tpl_branch}
    BY <1>1, <1>2, <1>3, <1>5 DEF tpl_mul_r, tpl_target, tpl_branch
  <1>6. CASE tpl \in {tpl_ror_c, tpl_xor_c, tpl_add_c}
    BY <1>1, <1>2, <1>3, <1>6 DEF tpl_ror_c, tpl_xor_c, tpl_add_c
  <1>7. CASE tpl \in {tpl_sub_r, tpl_xor_r, tpl_add_rs}
    BY <1>1, <1>2, <1>3, <1>7 DEF tpl_sub_r, tpl_xor_r, tpl_add_rs
  <1> QED BY <1>4, <1>5, <1>6, <1>7 DEF Templates, AnyTemplates

LEMMA AnyFacts ==
    ASSUME NEW tpl \in AnyTemplates
    PROVE  /\ tpl.uop1 \in {PORT_P01, PORT_P05, PORT_P015}
           /\ tpl.uop1 = PORT_P01 => tpl.group = "ADD_RS"
           /\ tpl.uop2 = {}
           /\ tpl.latency = 1
           /\ tpl.has_dst
           /\ ~is_mul(tpl.type)
  BY DEF AnyTemplates, tpl_ror_c, tpl_xor_c, tpl_add_c, tpl_sub_r, tpl_xor_r,
         tpl_add_rs, TwoOperand, WithConstant, Ports, PORT_NONE, PORT_P01,
         PORT_P05, PORT_P015, is_mul

LEMMA WideFacts ==
    ASSUME NEW tpl \in WideTemplates
    PROVE  /\ tpl.uop1 = {"P1"}
           /\ tpl.uop2 = {"P5"}
           /\ tpl.latency = 4
           /\ tpl.has_dst
           /\ is_mul(tpl.type)
  BY DEF WideTemplates, tpl_umulh_r, tpl_smulh_r, WideMul, is_mul

LEMMA MulFacts ==
    /\ tpl_mul_r.uop1 = {"P1"}
    /\ tpl_mul_r.uop2 = {}
    /\ tpl_mul_r.latency = 3
    /\ tpl_mul_r.has_dst
    /\ is_mul(tpl_mul_r.type)
  BY DEF tpl_mul_r, TwoOperand, PORT_NONE, is_mul

LEMMA ControlFacts ==
    ASSUME NEW tpl \in {tpl_target, tpl_branch}
    PROVE  /\ tpl.uop1 = Ports
           /\ tpl.uop2 = Ports
           /\ ~tpl.has_dst
           /\ ~is_mul(tpl.type)
  BY DEF tpl_target, tpl_branch, Control, PORT_P015, is_mul

\* The byte drawn, masked, is an index of the item's table.
LEMMA DrawnTemplate ==
    ASSUME NEW item \in {item_mul, item_target, item_branch, item_wide_mul, item_any},
           NEW b \in U8Draws, attempt \in Nat
    PROVE  LET tpl == item.templates[TemplateIndex(item, b) + 1]
           IN  /\ item = item_mul => tpl = tpl_mul_r
               /\ item = item_target => tpl = tpl_target
               /\ item = item_branch => tpl = tpl_branch
               /\ item = item_wide_mul => tpl \in WideTemplates
               /\ item = item_any => tpl \in AnyTemplates
               /\ item = item_any /\ chain_mul =>
                    tpl \in {tpl_ror_c, tpl_xor_c, tpl_add_c}
  <1> DEFINE i == TemplateIndex(item, b)
  <1>b. b \in 0 .. 255
    BY ConstantsAssumption
  <1>1. item \in {item_mul, item_target, item_branch} => i = 0
    BY <1>b DEF TemplateIndex, item_mul, item_target, item_branch, OneTemplate
  <1>2. item = item_wide_mul => i \in {0, 1}
    BY <1>b DEF TemplateIndex, item_wide_mul
  <1>3. item = item_any => i \in {0, 1, 2, 3, 4, 5, 6, 7}
    BY <1>b DEF TemplateIndex, item_any
  <1>4. item = item_any /\ chain_mul => i \in {0, 1, 2, 3}
    BY <1>b DEF TemplateIndex, item_any, chain_mul
  <1> HIDE DEF i
  <1>5. \A tpl : OneTemplate(tpl).templates[0 + 1] = tpl
    BY DEF OneTemplate
  <1>6. item = item_wide_mul => item.templates[i + 1] \in WideTemplates
    BY <1>2 DEF item_wide_mul, wide_mul_lookup, WideTemplates
  <1>7. item = item_any => item.templates[i + 1] \in AnyTemplates
    BY <1>3 DEF item_any, instr_lookup, AnyTemplates
  <1>8. item = item_any /\ chain_mul =>
            item.templates[i + 1] \in {tpl_ror_c, tpl_xor_c, tpl_add_c}
    BY <1>4 DEF item_any, instr_lookup
  <1> QED
    BY <1>1, <1>5, <1>6, <1>7, <1>8 DEF i, item_mul, item_target, item_branch

\* What the layout offers, by the position within a cycle.
LEMMA OfferedTemplates ==
    ASSUME sub_cycle \in Nat, attempt \in Nat, NEW tpl \in select_template
    PROVE  /\ tpl \in Templates
           /\ sub_cycle % 3 = 0 =>
                IF sub_cycle % 36 \in {12, 24} THEN tpl \in WideTemplates
                ELSE tpl = tpl_mul_r
           /\ sub_cycle % 3 = 1 =>
                IF sub_cycle % 36 \in {1, 19} THEN tpl \in {tpl_target, tpl_branch}
                ELSE tpl \in AnyTemplates
           /\ sub_cycle % 3 = 2 =>
                /\ tpl \in AnyTemplates
                /\ tpl.group # last_instr
                /\ chain_mul => tpl \in {tpl_ror_c, tpl_xor_c, tpl_add_c}
  <1> DEFINE pos == sub_cycle % 36
             item == program_layout(pos)
  <1>1. pos \in Nat /\ pos % 3 = sub_cycle % 3 /\ sub_cycle % 3 \in {0, 1, 2}
    OBVIOUS
  <1>2. PICK b \in U8Draws :
            /\ tpl = item.templates[TemplateIndex(item, b) + 1]
            /\ item.duplicates \/ tpl.group # last_instr
    BY DEF select_template, LayoutSize
  <1> HIDE DEF pos
  <1>3. item \in {item_mul, item_target, item_branch, item_wide_mul, item_any}
    BY DEF program_layout
  <1>4. /\ item = item_mul => tpl = tpl_mul_r
        /\ item = item_target => tpl = tpl_target
        /\ item = item_branch => tpl = tpl_branch
        /\ item = item_wide_mul => tpl \in WideTemplates
        /\ item = item_any => tpl \in AnyTemplates
        /\ item = item_any /\ chain_mul =>
                tpl \in {tpl_ror_c, tpl_xor_c, tpl_add_c}
    BY <1>2, <1>3, DrawnTemplate
  <1>5. pos % 3 = 0 =>
            item = IF pos \in {12, 24} THEN item_wide_mul ELSE item_mul
    BY DEF program_layout
  <1>6. pos % 3 = 1 =>
            IF pos \in {1, 19} THEN item \in {item_target, item_branch}
            ELSE item = item_any
    BY <1>1 DEF program_layout
  <1>7. pos % 3 = 2 => item = item_any
    BY <1>1 DEF program_layout
  <1>8. ~item_any.duplicates
    BY DEF item_any
  <1>9. tpl \in Templates
    BY <1>3, <1>4 DEF Templates
  <1> HIDE DEF item
  <1> QED BY <1>1, <1>2, <1>4, <1>5, <1>6, <1>7, <1>8, <1>9 DEF pos

-----------------------------------------------------------------------------
(* The scheduler.                                                           *)

\* A nonempty set of natural numbers has a least element.
LEMMA SmallestExists ==
    ASSUME NEW S \in SUBSET Nat, S # {}
    PROVE  \E c \in S : \A d \in S : c <= d
  <1> DEFINE R == {p \in Nat \X Nat : p[1] < p[2]}
  <1>1. IsWellFoundedOn(R, Nat)
    BY NatLessThanWellFounded DEF OpToRel
  <1>2. \A d \in Nat, c \in Nat : <<d, c>> \in R <=> d < c
    OBVIOUS
  <1> HIDE DEF R
  <1>3. PICK c \in S : \A d \in S : <<d, c>> \notin R
    BY <1>1, WFMin
  <1>4. \A d \in S : ~(d < c) /\ d \in Nat /\ c \in Nat
    BY <1>2, <1>3
  <1>5. \A d \in S : c <= d
    BY <1>4
  <1> QED BY <1>3, <1>5

\* schedule_uop returns -1 or a cycle of the map, and from itself if it can.
LEMMA ScheduleUop ==
    ASSUME NEW uop, NEW map, NEW from \in Nat
    PROVE  LET c == schedule_uop(uop, map, from)
           IN  /\ c = -1 \/ (c \in Cycles /\ c >= from /\ uop \ map[c] # {})
               /\ from \notin Cycles => c = -1
               /\ from \in Cycles /\ uop \ map[from] # {} => c = from
  <1>1. PORT_MAP_SIZE \in Nat
    BY ConstantsAssumption DEF PORT_MAP_SIZE
  <1> DEFINE Fits(c) == uop \ map[c] # {}
             First(c) == Fits(c) /\ \A d \in from .. c - 1 : ~Fits(d)
  <1>2. CASE from \in Cycles /\ Fits(from)
    <2>1. from \in from .. PORT_MAP_SIZE - 1 /\ First(from)
      BY <1>1, <1>2 DEF Cycles
    <2>2. \A c \in from .. PORT_MAP_SIZE - 1 : First(c) => c = from
      BY <1>1, <1>2
    <2>3. (CHOOSE c \in from .. PORT_MAP_SIZE - 1 : First(c)) = from
      BY <2>1, <2>2
    <2> QED BY <1>2, <2>1, <2>3 DEF schedule_uop
  <1>3. CASE from \in Cycles /\ ~Fits(from)
    <2>1. CASE \E c \in from .. PORT_MAP_SIZE - 1 : Fits(c)
      <3> DEFINE S == {c \in from .. PORT_MAP_SIZE - 1 : Fits(c)}
      <3>0. S \in SUBSET Nat /\ S # {}
        BY <1>1, <2>1
      <3> HIDE DEF S
      <3>1. PICK c \in S : \A d \in S : c <= d
        BY <3>0, SmallestExists
      <3> USE DEF S
      <3>2. c \in from .. PORT_MAP_SIZE - 1 /\ First(c)
        BY <1>1, <3>1
      <3>3. LET e == CHOOSE e \in from .. PORT_MAP_SIZE - 1 : First(e)
            IN  e \in from .. PORT_MAP_SIZE - 1 /\ Fits(e)
        BY <3>2
      <3> QED BY <1>1, <1>3, <2>1, <3>3 DEF schedule_uop, Cycles
    <2>2. CASE ~(\E c \in from .. PORT_MAP_SIZE - 1 : Fits(c))
      BY <1>3, <2>2 DEF schedule_uop
    <2> QED BY <2>1, <2>2
  <1>4. CASE from \notin Cycles
    BY <1>1, <1>4 DEF Cycles, schedule_uop
  <1> QED BY <1>2, <1>3, <1>4

LEMMA AgreedCycleType ==
    ASSUME NEW tpl, cycle \in Nat
    PROVE  LET at == AgreedCycle(tpl, cycle)
           IN  at = -1 \/ (at \in Nat /\ at \in cycle .. PORT_MAP_SIZE - 1)
  <1>0. PORT_MAP_SIZE \in Nat
    BY ConstantsAssumption DEF PORT_MAP_SIZE
  <1> DEFINE at == AgreedCycle(tpl, cycle)
             First(c) == Agree(tpl, c) /\ \A d \in cycle .. c - 1 : ~Agree(tpl, d)
             Window == cycle .. PORT_MAP_SIZE - 1
  <1>1. CASE \E c \in Window : Agree(tpl, c)
    <2> DEFINE S == {c \in Window : Agree(tpl, c)}
    <2>0. S \in SUBSET Nat /\ S # {}
      BY <1>0, <1>1
    <2> HIDE DEF S
    <2>1. PICK c \in S : \A d \in S : c <= d
      BY <2>0, SmallestExists
    <2> USE DEF S
    <2>2. c \in Window /\ First(c)
      BY <1>0, <2>1
    <2>3. (CHOOSE e \in Window : First(e)) \in Window
      BY <2>2
    <2> QED BY <1>1, <2>3 DEF AgreedCycle
  <1>2. CASE ~(\E c \in Window : Agree(tpl, c))
    BY <1>2 DEF AgreedCycle
  <1> QED BY <1>1, <1>2

\* In a cycle with room for all its uOPs, an instruction is not delayed.
LEMMA ScheduleInstr ==
    ASSUME NEW tpl, cycle \in Nat
    PROVE  /\ schedule_instr(tpl) = -1
                \/ (schedule_instr(tpl) \in Cycles /\ schedule_instr(tpl) >= cycle)
           /\ cycle \notin Cycles => schedule_instr(tpl) = -1
           /\ /\ cycle \in Cycles
              /\ tpl.uop1 \ ports[cycle] # {}
              /\ tpl.uop2 # {} => tpl.uop2 \ ports[cycle] # {}
              => /\ schedule_instr(tpl) = cycle
                 /\ tpl.uop2 # {} => AgreedCycle(tpl, cycle) = cycle
  <1>1. PORT_MAP_SIZE \in Nat
    BY ConstantsAssumption DEF PORT_MAP_SIZE
  <1> DEFINE at == AgreedCycle(tpl, cycle)
             First(c) == Agree(tpl, c) /\ \A d \in cycle .. c - 1 : ~Agree(tpl, d)
             Window == cycle .. PORT_MAP_SIZE - 1
  <1>2. at = -1 \/ at \in Window
    BY AgreedCycleType
  <1>3. cycle \notin Cycles => at = -1
    BY <1>1 DEF Cycles, AgreedCycle
  <1>4. ASSUME cycle \in Cycles, tpl.uop1 \ ports[cycle] # {},
               tpl.uop2 \ ports[cycle] # {}
        PROVE  at = cycle
    <2>1. Agree(tpl, cycle)
      BY <1>4, ScheduleUop DEF Agree
    <2>2. cycle \in Window /\ First(cycle)
      BY <1>1, <1>4, <2>1 DEF Cycles
    <2>3. \A c \in Window : First(c) => c = cycle
      BY <1>1, <2>1
    <2>4. (CHOOSE c \in Window : First(c)) = cycle
      BY <2>2, <2>3
    <2> QED BY <2>1, <2>2, <2>4 DEF AgreedCycle
  <1>5. CASE tpl.uop2 = {}
    BY <1>5, ScheduleUop DEF schedule_instr, PORT_NONE
  <1>6. CASE tpl.uop2 # {} /\ at = -1
    BY <1>4, <1>6 DEF schedule_instr, PORT_NONE
  <1>7. CASE tpl.uop2 # {} /\ at \in Window
    <2>1. at \in Nat /\ at >= cycle
      BY <1>1, <1>7
    <2>2. schedule_instr(tpl) = schedule_uop(tpl.uop1, ports, at)
      BY <1>7, <2>1 DEF schedule_instr, PORT_NONE
    <2>3. schedule_instr(tpl) = -1
            \/ (schedule_instr(tpl) \in Cycles /\ schedule_instr(tpl) >= at)
      BY <2>1, <2>2, ScheduleUop
    <2>4. cycle \in Cycles
      BY <1>3, <1>7, <2>1
    <2>5. ASSUME tpl.uop1 \ ports[cycle] # {}, tpl.uop2 \ ports[cycle] # {}
          PROVE  schedule_instr(tpl) = cycle
      BY <1>4, <2>2, <2>4, <2>5, ScheduleUop
    <2> HIDE DEF at
    <2> QED BY <1>1, <1>4, <1>7, <2>1, <2>3, <2>4, <2>5 DEF at, Cycles
  <1> QED BY <1>2, <1>5, <1>6, <1>7

\* What an instruction that is not delayed leaves in the port map.
AfterUop(uop, busy) == busy \cup {PortFor(uop, busy)}
AfterInstr(tpl, busy) ==
    IF tpl.uop2 = {} THEN AfterUop(tpl.uop1, busy)
    ELSE AfterUop(tpl.uop2, AfterUop(tpl.uop1, busy))

LEMMA AfterUopType ==
    ASSUME NEW uop, NEW busy \in SUBSET Ports
    PROVE  AfterUop(uop, busy) \in SUBSET Ports
  BY DEF AfterUop, PortFor, Ports

\* The map with other busy ports in the cycle c.
Put(map, c, busy) == [map EXCEPT ![c] = busy]

LEMMA PutFacts ==
    ASSUME NEW map \in [Cycles -> SUBSET Ports], NEW c \in Cycles,
           NEW busy \in SUBSET Ports
    PROVE  /\ Put(map, c, busy) \in [Cycles -> SUBSET Ports]
           /\ Put(map, c, busy)[c] = busy
           /\ \A d \in Cycles : d # c => Put(map, c, busy)[d] = map[d]
           /\ \A again : Put(Put(map, c, busy), c, again) = Put(map, c, again)
  BY DEF Put

LEMMA CommitUop ==
    ASSUME NEW uop, NEW map \in [Cycles -> SUBSET Ports], NEW from \in Nat
    PROVE  /\ commit_uop(uop, map, from) \in [Cycles -> SUBSET Ports]
           /\ from \in Cycles /\ uop \ map[from] # {} =>
                commit_uop(uop, map, from) = Put(map, from, AfterUop(uop, map[from]))
  <1> DEFINE c == schedule_uop(uop, map, from)
  <1>1. c = -1 \/ c \in Cycles
    BY ScheduleUop
  <1>2. \A busy : PortFor(uop, busy) \in Ports
    BY DEF PortFor, Ports
  <1>3. c \in Cycles => c \in Nat
    BY ConstantsAssumption DEF Cycles, PORT_MAP_SIZE
  <1>4. from \in Cycles /\ uop \ map[from] # {} => c = from
    BY ScheduleUop
  <1> HIDE DEF c
  <1>5. commit_uop(uop, map, from) =
            IF c < 0 THEN map ELSE [map EXCEPT ![c] = @ \cup {PortFor(uop, @)}]
    BY DEF commit_uop, c
  <1>6. CASE c = -1
    BY <1>3, <1>4, <1>5, <1>6
  <1>7. CASE c \in Cycles
    <2>1. commit_uop(uop, map, from) = Put(map, c, AfterUop(uop, map[c]))
      BY <1>3, <1>5, <1>7 DEF AfterUop, Put
    <2>2. AfterUop(uop, map[c]) \in SUBSET Ports
      BY <1>2, <1>7 DEF AfterUop
    <2> QED BY <1>4, <1>7, <2>1, <2>2, PutFacts
  <1> QED BY <1>1, <1>6, <1>7

LEMMA CommitInstr ==
    ASSUME NEW tpl, cycle \in Nat, ports \in [Cycles -> SUBSET Ports]
    PROVE  /\ commit_instr(tpl) \in [Cycles -> SUBSET Ports]
           /\ /\ cycle \in Cycles
              /\ tpl.uop1 \ ports[cycle] # {}
              /\ tpl.uop2 # {} => tpl.uop2 \ AfterUop(tpl.uop1, ports[cycle]) # {}
              => commit_instr(tpl) = Put(ports, cycle, AfterInstr(tpl, ports[cycle]))
  <1> DEFINE at == AgreedCycle(tpl, cycle)
             once == commit_uop(tpl.uop1, ports, at)
  <1>0. commit_instr(tpl) =
            IF tpl.uop2 = {} THEN commit_uop(tpl.uop1, ports, cycle)
            ELSE IF at < 0 THEN ports ELSE commit_uop(tpl.uop2, once, at)
    BY DEF commit_instr, PORT_NONE
  <1>a. at \in Nat => once \in [Cycles -> SUBSET Ports]
    BY CommitUop
  <1>b. /\ cycle \in Cycles
        /\ tpl.uop1 \ ports[cycle] # {}
        /\ tpl.uop2 # {}
        /\ tpl.uop2 \ ports[cycle] # {}
        => at = cycle
    BY ScheduleInstr
  <1>c. at = cycle /\ cycle \in Cycles /\ tpl.uop1 \ ports[cycle] # {} =>
            once = Put(ports, cycle, AfterUop(tpl.uop1, ports[cycle]))
    BY CommitUop
  <1>1. at = -1 \/ at \in Nat
    BY AgreedCycleType
  <1> HIDE DEF at, once
  <1>2. CASE tpl.uop2 = {}
    BY <1>0, <1>2, CommitUop DEF AfterInstr
  <1>3. CASE tpl.uop2 # {} /\ at \in Nat
    <2>1. commit_instr(tpl) = commit_uop(tpl.uop2, once, at)
      BY <1>0, <1>3
    <2>2. once \in [Cycles -> SUBSET Ports]
      BY <1>3, <1>a
    <2>a. commit_uop(tpl.uop2, once, at) \in [Cycles -> SUBSET Ports]
      BY <1>3, <2>2, CommitUop
    <2>3. commit_instr(tpl) \in [Cycles -> SUBSET Ports]
      BY <2>1, <2>a
    <2>4. ASSUME cycle \in Cycles, tpl.uop1 \ ports[cycle] # {},
                 tpl.uop2 \ AfterUop(tpl.uop1, ports[cycle]) # {}
          PROVE  commit_instr(tpl) = Put(ports, cycle, AfterInstr(tpl, ports[cycle]))
      <3>0. AfterUop(tpl.uop1, ports[cycle]) \in SUBSET Ports
        BY <2>4, AfterUopType
      <3>1. tpl.uop2 \ ports[cycle] # {}
        BY <2>4 DEF AfterUop
      <3>2. at = cycle
        BY <1>3, <2>4, <3>1, <1>b
      <3>3. once = Put(ports, cycle, AfterUop(tpl.uop1, ports[cycle]))
        BY <2>4, <3>2, <1>c
      <3>4. once[cycle] = AfterUop(tpl.uop1, ports[cycle])
        BY <2>4, <3>0, <3>3, PutFacts
      <3>5. commit_instr(tpl) = Put(once, cycle, AfterUop(tpl.uop2, once[cycle]))
        BY <2>1, <2>2, <2>4, <3>2, <3>4, CommitUop
      <3> QED BY <1>3, <2>4, <3>0, <3>3, <3>4, <3>5, PutFacts DEF AfterInstr
    <2> QED BY <1>3, <2>3, <2>4
  <1>4. CASE tpl.uop2 # {} /\ at = -1
    <2>1. commit_instr(tpl) = ports
      BY <1>0, <1>4
    <2>2. ASSUME cycle \in Cycles, tpl.uop1 \ ports[cycle] # {},
                 tpl.uop2 \ AfterUop(tpl.uop1, ports[cycle]) # {}
          PROVE  FALSE
      <3>1. tpl.uop2 \ ports[cycle] # {}
        BY <2>2 DEF AfterUop
      <3> QED BY <1>4, <2>2, <3>1, <1>b
    <2> QED BY <1>4, <2>1, <2>2
  <1> QED BY <1>1, <1>2, <1>3, <1>4

-----------------------------------------------------------------------------
(* Counting the instructions.                                               *)

LEMMA IssuedNat ==
    ASSUME NEW s \in Nat
    PROVE  Issued(s) \in Nat
  BY DEF Issued

LEMMA IssuedMonotone ==
    ASSUME NEW s \in Nat, NEW t \in Nat, s <= t
    PROVE  Issued(s) <= Issued(t)
  BY DEF Issued

\* Every slot but a second one holds an instruction.
LEMMA IssuedNext ==
    ASSUME NEW s \in Nat
    PROVE  Issued(s + 1) = Issued(s) + (IF SecondSlot(s) THEN 0 ELSE 1)
  BY DEF Issued, SecondSlot

\* Among the three slots a skip passes over at most one is a second one.
LEMMA IssuedSkip ==
    ASSUME NEW s \in Nat
    PROVE  Issued(s + 3) >= Issued(s) + (IF SecondSlot(s + 3) THEN 3 ELSE 2)
  BY DEF Issued, SecondSlot

-----------------------------------------------------------------------------
(* Type correctness.                                                        *)

LEMMA ConstantTypes ==
    /\ TARGET_CYCLE \in Nat \ {0}
    /\ MAX_RETRIES \in Nat
    /\ HASHX_PROGRAM_MAX_SIZE \in Nat
    /\ HASHX_PROGRAM_MAX_SIZE = Issued(3 * TARGET_CYCLE)
  BY ConstantsAssumption, CalibrationAssumption, IssuedNat

LEMMA TypeInit == Init => TypeOK
  <1> SUFFICES ASSUME Init PROVE TypeOK
    OBVIOUS
  <1>1. registers \in [Registers -> [latency : Nat, last_op : Groups \cup {NoInstr},
                                    last_op_par : OpPars]]
    BY DEF Init, OpPars
  <1>2. ports \in [Cycles -> SUBSET Ports]
    BY DEF Init
  <1>3. /\ attempt \in 0 .. MAX_RETRIES
        /\ code_size \in 0 .. HASHX_PROGRAM_MAX_SIZE
        /\ sub_cycle \in Nat /\ mul_count \in Nat /\ latency \in Nat
    BY ConstantTypes DEF Init
  <1>4. /\ accepted \in BOOLEAN /\ skipped \in BOOLEAN
        /\ last_instr \in Groups \cup {NoInstr}
        /\ pc \in {"generate", "break", "returned"}
    BY DEF Init
  <1> QED BY <1>1, <1>2, <1>3, <1>4 DEF TypeOK

\* What select_source and op_par choose from.
LEMMA OperandTypes ==
    ASSUME NEW tpl \in Templates, NEW c,
           NEW src \in select_source(tpl, c), NEW par \in op_par(tpl, src)
    PROVE  par \in OpPars
  <1>1. tpl.has_src => src \in Registers
    BY DEF select_source, MustReadDisplacement, Ready
  <1>2. tpl.op_par_src => tpl.has_src
    BY TemplateFacts DEF WellFormed
  <1> QED BY <1>1, <1>2 DEF op_par, OpPars

LEMMA CycleType ==
    ASSUME sub_cycle \in Nat
    PROVE  /\ cycle \in Nat
           /\ sub_cycle = 3 * cycle + (sub_cycle % 3)
           /\ sub_cycle % 3 \in {0, 1, 2}
  <1>1. cycle \in Nat
    BY DEF cycle
  <1>2. sub_cycle = 3 * cycle + (sub_cycle % 3)
    BY DEF cycle
  <1>3. sub_cycle % 3 \in {0, 1, 2}
    OBVIOUS
  <1> QED BY <1>1, <1>2, <1>3

LEMMA StallType ==
    ASSUME TypeOK, Stall
    PROVE  /\ attempt' \in 0 .. MAX_RETRIES
           /\ sub_cycle' \in Nat
           /\ skipped' \in BOOLEAN
  <1>1. CASE attempt < MAX_RETRIES
    BY <1>1, ConstantTypes DEF TypeOK, Stall
  <1>2. CASE ~(attempt < MAX_RETRIES)
    BY <1>2, ConstantTypes DEF TypeOK, Stall
  <1> QED BY <1>1, <1>2

LEMMA TypeNext == TypeOK /\ [Next]_vars => TypeOK'
  <1> SUFFICES ASSUME TypeOK, [Next]_vars
               PROVE  TypeOK'
    OBVIOUS
  <1> USE ConstantTypes
  <1>c. cycle \in Nat /\ attempt \in Nat
    BY CycleType DEF TypeOK
  <1>1. ASSUME NEW tpl \in select_template, Generate
        PROVE  tpl \in Templates /\ tpl.group \in Groups
    BY <1>c, OfferedTemplates, TemplateFacts DEF TypeOK, WellFormed
  <1>2. ASSUME NEW tpl \in select_template, tpl \in Templates,
               tpl.group \in Groups, Unschedulable(tpl)
        PROVE  TypeOK'
    BY <1>2 DEF Unschedulable, Iteration, ctx, TypeOK
  <1>3. ASSUME NEW tpl \in select_template, tpl \in Templates,
               tpl.group \in Groups, SourceStall(tpl)
        PROVE  TypeOK'
    BY <1>3, StallType DEF SourceStall, Iteration, TypeOK
  <1>4. ASSUME NEW tpl \in select_template, tpl \in Templates,
               tpl.group \in Groups, NEW src, NEW par,
               DestinationStall(tpl, src, par)
        PROVE  TypeOK'
    BY <1>4, StallType DEF DestinationStall, Iteration, TypeOK
  <1>5. ASSUME NEW tpl \in select_template, tpl \in Templates,
               tpl.group \in Groups, Overrun(tpl)
        PROVE  TypeOK'
    <2>1. ports' \in [Cycles -> SUBSET Ports]
      BY <1>c, <1>5, CommitInstr DEF Overrun, TypeOK
    <2> QED BY <1>5, <2>1 DEF Overrun, Iteration, TypeOK
  <1>6. ASSUME NEW tpl \in select_template, tpl \in Templates,
               tpl.group \in Groups,
               NEW src \in select_source(tpl, schedule_instr(tpl)),
               NEW par \in op_par(tpl, src),
               NEW dst \in select_destination(tpl, src, par, schedule_instr(tpl)),
               Emit(tpl, par, dst)
        PROVE  TypeOK'
    <2>1. ports' \in [Cycles -> SUBSET Ports]
      BY <1>c, <1>6, CommitInstr DEF Emit, TypeOK
    <2>2. schedule_instr(tpl) \in Nat
      BY <1>c, <1>6, ScheduleInstr DEF Emit, Cycles, PORT_MAP_SIZE
    <2>3. tpl.latency \in Nat
      BY <1>6, TemplateFacts DEF WellFormed
    <2>4. par \in OpPars
      BY <1>6, OperandTypes
    <2>5. tpl.has_dst => dst \in Registers
      BY DEF select_destination, Ready
    <2>6. /\ registers' \in [Registers -> [latency : Nat,
                                           last_op : Groups \cup {NoInstr},
                                           last_op_par : OpPars]]
          /\ latency' \in Nat
      BY <1>6, <2>2, <2>3, <2>4, <2>5 DEF Emit, Retire, TypeOK
    <2>7. /\ code_size' \in 0 .. HASHX_PROGRAM_MAX_SIZE
          /\ mul_count' \in Nat
          /\ sub_cycle' \in Nat
      BY <1>6 DEF Emit, Iteration, TypeOK
    <2> QED BY <1>6, <2>1, <2>6, <2>7 DEF Emit, Iteration, TypeOK, OpPars
  <1>7. CASE Generate
    BY <1>1, <1>2, <1>3, <1>4, <1>5, <1>6, <1>7 DEF Generate, TryTemplate
  <1>8. CASE Return
    BY <1>8 DEF Return, Meets, ctx, TypeOK
  <1>9. CASE Terminated \/ UNCHANGED vars
    BY <1>9 DEF Terminated, vars, ctx, TypeOK
  <1> QED BY <1>7, <1>8, <1>9 DEF Next

\* Type correctness: no index, counter or register file ever leaves its range,
\* code_size in particular never exceeds the array it indexes.
THEOREM TypeCorrect == Spec => []TypeOK
  <1>1. Init => TypeOK
    BY TypeInit
  <1>2. TypeOK /\ [Next]_vars => TypeOK'
    BY TypeNext
  <1> QED BY <1>1, <1>2, PTL DEF Spec

-----------------------------------------------------------------------------
(* A slot, and the instruction that fills it.                               *)

\* The slots of the instructions with two uOPs.
DoubleSlot(s) == s % 36 \in {1, 12, 19, 24}
SlotWidth(s) == IF DoubleSlot(s) THEN 2 ELSE 1

\* What the counters read of the template the layout offers for the slot.
LEMMA OfferedCounts ==
    ASSUME sub_cycle \in Nat, attempt \in Nat, NEW tpl \in select_template
    PROVE  /\ tpl.uop2 # {} <=> DoubleSlot(sub_cycle)
           /\ is_mul(tpl.type) <=> sub_cycle % 3 = 0
           /\ sub_cycle % 3 = 0 =>
                tpl.has_dst /\ tpl.latency = IF DoubleSlot(sub_cycle) THEN 4 ELSE 3
           /\ sub_cycle % 3 # 0 => ~tpl.has_dst \/ tpl.latency = 1
  <1>1. /\ sub_cycle % 3 = (sub_cycle % 36) % 3
        /\ sub_cycle % 3 \in {0, 1, 2}
    OBVIOUS
  <1>2. CASE sub_cycle % 3 = 0
    <2>1. DoubleSlot(sub_cycle) <=> sub_cycle % 36 \in {12, 24}
      BY <1>1, <1>2 DEF DoubleSlot
    <2>2. IF DoubleSlot(sub_cycle) THEN tpl \in WideTemplates ELSE tpl = tpl_mul_r
      BY <1>2, <2>1, OfferedTemplates
    <2> QED BY <1>2, <2>2, WideFacts, MulFacts
  <1>3. CASE sub_cycle % 3 = 1
    <2>1. DoubleSlot(sub_cycle) <=> sub_cycle % 36 \in {1, 19}
      BY <1>1, <1>3 DEF DoubleSlot
    <2>2. IF DoubleSlot(sub_cycle) THEN tpl \in {tpl_target, tpl_branch}
          ELSE tpl \in AnyTemplates
      BY <1>3, <2>1, OfferedTemplates
    <2> QED BY <1>3, <2>2, ControlFacts, AnyFacts DEF Ports
  <1>4. CASE sub_cycle % 3 = 2
    <2>1. ~DoubleSlot(sub_cycle)
      BY <1>1, <1>4 DEF DoubleSlot
    <2>2. tpl \in AnyTemplates
      BY <1>4, OfferedTemplates
    <2> QED BY <1>4, <2>1, <2>2, AnyFacts
  <1> QED BY <1>1, <1>2, <1>3, <1>4

\* The ports it takes if the ones PortsFree promises are free.
LEMMA OfferedPorts ==
    ASSUME sub_cycle \in Nat, attempt \in Nat, NEW tpl \in select_template,
           NEW busy \in SUBSET Ports,
           sub_cycle % 3 = 0 => busy = {},
           sub_cycle % 3 = 1 => busy \subseteq {"P1"},
           sub_cycle % 3 = 2 =>
                \/ "P0" \notin busy
                \/ "P5" \notin busy /\ (last_instr = "ADD_RS" \/ chain_mul)
    PROVE  /\ tpl.uop1 \ busy # {}
           /\ tpl.uop2 # {} => tpl.uop2 \ AfterUop(tpl.uop1, busy) # {}
           /\ sub_cycle % 3 = 0 =>
                AfterInstr(tpl, busy) =
                    IF DoubleSlot(sub_cycle) THEN {"P1", "P5"} ELSE {"P1"}
           /\ sub_cycle % 3 = 1 /\ DoubleSlot(sub_cycle) =>
                AfterInstr(tpl, busy) = busy \cup {"P5", "P0"}
           /\ sub_cycle % 3 = 1 /\ ~DoubleSlot(sub_cycle) =>
                \/ AfterInstr(tpl, busy) = busy \cup {"P5"}
                \/ AfterInstr(tpl, busy) = busy \cup {"P0"} /\ tpl.group = "ADD_RS"
           /\ sub_cycle % 3 = 2 =>
                (busy \in {{"P1", "P0"}, {"P1", "P5"}} => AfterInstr(tpl, busy) = Ports)
  <1>1. sub_cycle % 3 = (sub_cycle % 36) % 3 /\ sub_cycle % 3 \in {0, 1, 2}
    OBVIOUS
  <1>2. CASE sub_cycle % 3 = 0
    <2>1. IF DoubleSlot(sub_cycle) THEN tpl \in WideTemplates ELSE tpl = tpl_mul_r
      BY <1>1, <1>2, OfferedTemplates DEF DoubleSlot
    <2>2. busy = {}
      BY <1>2
    <2>3. CASE DoubleSlot(sub_cycle)
      <3>1. tpl.uop1 = {"P1"} /\ tpl.uop2 = {"P5"}
        BY <2>1, <2>3, WideFacts
      <3> QED BY <1>2, <2>2, <2>3, <3>1 DEF AfterInstr, AfterUop, PortFor
    <2>4. CASE ~DoubleSlot(sub_cycle)
      <3>1. tpl.uop1 = {"P1"} /\ tpl.uop2 = {}
        BY <2>1, <2>4, MulFacts
      <3> QED BY <1>2, <2>2, <2>4, <3>1 DEF AfterInstr, AfterUop, PortFor
    <2> QED BY <2>3, <2>4
  <1>3. CASE sub_cycle % 3 = 1
    <2>1. IF DoubleSlot(sub_cycle) THEN tpl \in {tpl_target, tpl_branch}
          ELSE tpl \in AnyTemplates
      BY <1>1, <1>3, OfferedTemplates DEF DoubleSlot
    <2>2. busy \subseteq {"P1"}
      BY <1>3
    <2>3. CASE DoubleSlot(sub_cycle)
      <3>1. tpl.uop1 = Ports /\ tpl.uop2 = Ports
        BY <2>1, <2>3, ControlFacts
      <3>2. AfterUop(Ports, busy) = busy \cup {"P5"}
        BY <2>2 DEF AfterUop, PortFor, Ports
      <3>3. AfterUop(Ports, busy \cup {"P5"}) = busy \cup {"P5", "P0"}
        BY <2>2 DEF AfterUop, PortFor, Ports
      <3>4. Ports \ busy # {} /\ Ports \ (busy \cup {"P5"}) # {} /\ Ports # {}
        BY <2>2 DEF Ports
      <3>5. AfterInstr(tpl, busy) = busy \cup {"P5", "P0"}
        BY <3>1, <3>2, <3>3, <3>4 DEF AfterInstr
      <3> QED BY <1>3, <2>3, <3>1, <3>2, <3>4, <3>5
    <2>4. CASE ~DoubleSlot(sub_cycle)
      <3>1. /\ tpl.uop1 \in {PORT_P01, PORT_P05, PORT_P015}
            /\ tpl.uop1 = PORT_P01 => tpl.group = "ADD_RS"
            /\ tpl.uop2 = {}
        BY <2>1, <2>4, AnyFacts
      <3>2. "P5" \notin busy /\ "P0" \notin busy
        BY <2>2
      <3>3. CASE tpl.uop1 = PORT_P01
        BY <1>3, <2>4, <3>1, <3>2, <3>3 DEF AfterInstr, AfterUop, PortFor, PORT_P01
      <3>4. CASE tpl.uop1 \in {PORT_P05, PORT_P015}
        BY <1>3, <2>4, <3>1, <3>2, <3>4
           DEF AfterInstr, AfterUop, PortFor, PORT_P05, PORT_P015, Ports
      <3> QED BY <3>1, <3>3, <3>4
    <2> QED BY <2>3, <2>4
  <1>4. CASE sub_cycle % 3 = 2
    <2>1. /\ tpl \in AnyTemplates
          /\ tpl.group # last_instr
          /\ chain_mul => tpl \in {tpl_ror_c, tpl_xor_c, tpl_add_c}
      BY <1>4, OfferedTemplates
    <2>2. chain_mul => tpl.uop1 # PORT_P01
      BY <2>1 DEF tpl_ror_c, tpl_xor_c, tpl_add_c, WithConstant, PORT_P01,
                  PORT_P05, PORT_P015, Ports
    <2>3. /\ tpl.uop1 \in {PORT_P01, PORT_P05, PORT_P015}
          /\ tpl.uop1 = PORT_P01 => tpl.group = "ADD_RS"
          /\ tpl.uop2 = {}
      BY <2>1, AnyFacts
    <2>4. "P0" \notin busy \/ ("P5" \notin busy /\ tpl.uop1 # PORT_P01)
      BY <1>4, <2>1, <2>2, <2>3
    <2>5. "P0" \in tpl.uop1 /\ (tpl.uop1 # PORT_P01 => "P5" \in tpl.uop1)
      BY <2>3 DEF PORT_P01, PORT_P05, PORT_P015, Ports
    <2>6. tpl.uop1 \ busy # {}
      BY <2>4, <2>5
    <2>7. ASSUME busy \in {{"P1", "P0"}, {"P1", "P5"}}
          PROVE  AfterInstr(tpl, busy) = Ports
      <3>1. CASE busy = {"P1", "P0"}
        BY <2>3, <2>4, <2>5, <3>1 DEF AfterInstr, AfterUop, PortFor, Ports
      <3>2. CASE busy = {"P1", "P5"}
        BY <2>3, <2>5, <3>2 DEF AfterInstr, AfterUop, PortFor, Ports
      <3> QED BY <2>7, <3>1, <3>2
    <2> QED BY <1>4, <2>3, <2>6, <2>7
  <1> QED BY <1>1, <1>2, <1>3, <1>4

\* Filling a slot moves the closed forms of Counted by one instruction.
LEMMA FillCounts ==
    ASSUME NEW s \in Nat
    PROVE  LET t == s + SlotWidth(s)
           IN  /\ ~SecondSlot(s) => ~SecondSlot(t) /\ Issued(t) = Issued(s) + 1
               /\ Issued(t) - (IF SecondSlot(t) THEN 2 ELSE 1) >=
                    Issued(s) - (IF SecondSlot(s) THEN 2 ELSE 1) + 1
               /\ (t + 2) \div 3 =
                    ((s + 2) \div 3) + (IF s % 3 = 0 THEN 1 ELSE 0)
               /\ t > 0 /\ (t - 1) \div 3 = s \div 3
  <1>1. DoubleSlot(s) => ~SecondSlot(s)
    BY DEF DoubleSlot, SecondSlot
  <1>2. CASE DoubleSlot(s)
    <2>1. SlotWidth(s) = 2
      BY <1>2 DEF SlotWidth
    <2>2. SecondSlot(s + 1) /\ ~SecondSlot(s + 2) /\ (s % 3 = 0 \/ s % 3 = 1)
      BY <1>2 DEF DoubleSlot, SecondSlot
    <2>a. Issued(s + 1) = Issued(s) + 1
      BY <1>1, <1>2, IssuedNext
    <2>b. s + 1 \in Nat
      OBVIOUS
    <2>c. Issued((s + 1) + 1) = Issued(s + 1) + 0
      BY <2>2, <2>b, IssuedNext
    <2>d. (s + 1) + 1 = s + 2
      OBVIOUS
    <2>4. Issued(s + 2) = Issued(s) + 1
      BY <2>a, <2>c, <2>d, IssuedNat
    <2>5. ((s + 2) + 2) \div 3 = ((s + 2) \div 3) + (IF s % 3 = 0 THEN 1 ELSE 0)
      BY <2>2
    <2>6. ((s + 2) - 1) \div 3 = s \div 3
      BY <2>2
    <2> QED BY <1>1, <1>2, <2>1, <2>2, <2>4, <2>5, <2>6, IssuedNat
  <1>3. CASE ~DoubleSlot(s)
    <2>1. SlotWidth(s) = 1
      BY <1>3 DEF SlotWidth
    <2>2. ~SecondSlot(s + 1)
      BY <1>3 DEF DoubleSlot, SecondSlot
    <2>3. Issued(s + 1) = Issued(s) + (IF SecondSlot(s) THEN 0 ELSE 1)
      BY IssuedNext
    <2>4. ((s + 1) + 2) \div 3 = ((s + 2) \div 3) + (IF s % 3 = 0 THEN 1 ELSE 0)
      OBVIOUS
    <2>5. ((s + 1) - 1) \div 3 = s \div 3
      OBVIOUS
    <2> QED BY <2>1, <2>2, <2>3, <2>4, <2>5, IssuedNat
  <1> QED BY <1>2, <1>3

\* A multiplication at the beginning of a cycle retires last.
LEMMA FillLatency ==
    ASSUME NEW s \in Nat
    PROVE  LET before == IF s = 0 THEN 0 ELSE LastMulRetires((s - 1) \div 3)
               after == LastMulRetires(s \div 3)
           IN  /\ before \in Nat /\ after \in Nat
               /\ s % 3 = 0 =>
                    /\ after = (s \div 3) + (IF DoubleSlot(s) THEN 4 ELSE 3)
                    /\ before <= after
               /\ s % 3 # 0 => before = after /\ after > (s \div 3) + 1
  <1> DEFINE k == s \div 3
  <1>1. k \in Nat /\ s % 3 \in {0, 1, 2} /\ s = 3 * k + (s % 3)
    OBVIOUS
  <1>2. s % 3 = 0 => (DoubleSlot(s) <=> k % 12 \in {4, 8})
    BY DEF DoubleSlot
  <1>3. s % 3 = 0 /\ s # 0 => (s - 1) \div 3 = k - 1 /\ k - 1 \in Nat
    BY <1>1
  <1>4. s % 3 # 0 => (s - 1) \div 3 = k /\ s # 0
    BY <1>1
  <1> HIDE DEF k
  <1>5. \A j \in Nat : LastMulRetires(j) \in {j + 3, j + 4}
    BY DEF LastMulRetires
  <1>6. LastMulRetires(k) = k + (IF k % 12 \in {4, 8} THEN 4 ELSE 3)
    BY DEF LastMulRetires
  <1>7. CASE s % 3 = 0
    BY <1>1, <1>2, <1>3, <1>5, <1>6, <1>7 DEF k
  <1>8. CASE s % 3 # 0
    BY <1>1, <1>4, <1>5, <1>8 DEF k
  <1> QED BY <1>7, <1>8

-----------------------------------------------------------------------------
(* The inductive invariant.                                                 *)

LEMMA MapFacts ==
    /\ Cycles = 0 .. TARGET_CYCLE + 3
    /\ TARGET_CYCLE \in Nat
  BY ConstantTypes DEF Cycles, PORT_MAP_SIZE

\* In the loop, inside the map, nothing is delayed.
LEMMA NotDelayed ==
    ASSUME TypeOK, PortsFree, pc = "generate", cycle \in Cycles,
           NEW tpl \in select_template
    PROVE  /\ schedule_instr(tpl) = cycle
           /\ commit_instr(tpl) = Put(ports, cycle, AfterInstr(tpl, ports[cycle]))
           /\ AfterInstr(tpl, ports[cycle]) \in SUBSET Ports
  <1>1. /\ sub_cycle \in Nat /\ attempt \in Nat /\ cycle \in Nat
        /\ ports \in [Cycles -> SUBSET Ports]
    BY CycleType, ConstantTypes DEF TypeOK
  <1>2. ports[cycle] \in SUBSET Ports
    BY <1>1
  <1>3. /\ tpl.uop1 \ ports[cycle] # {}
        /\ tpl.uop2 # {} => tpl.uop2 \ AfterUop(tpl.uop1, ports[cycle]) # {}
    BY <1>1, <1>2, OfferedPorts DEF PortsFree
  <1>4. tpl.uop2 # {} => tpl.uop2 \ ports[cycle] # {}
    BY <1>3 DEF AfterUop
  <1>5. schedule_instr(tpl) = cycle
    BY <1>1, <1>3, <1>4, ScheduleInstr
  <1>6. commit_instr(tpl) = Put(ports, cycle, AfterInstr(tpl, ports[cycle]))
    BY <1>1, <1>3, CommitInstr
  <1>7. AfterInstr(tpl, ports[cycle]) \in SUBSET Ports
    BY <1>2, AfterUopType DEF AfterInstr
  <1> QED BY <1>5, <1>6, <1>7

\* Beyond the map there is nothing to schedule.
LEMMA BeyondMap ==
    ASSUME TypeOK, cycle \notin Cycles, NEW tpl
    PROVE  schedule_instr(tpl) = -1
  BY CycleType, ScheduleInstr DEF TypeOK

LEMMA InvInit == Init => IInv
  <1> SUFFICES ASSUME Init PROVE IInv
    OBVIOUS
  <1>1. TypeOK
    BY TypeInit
  <1>2. sub_cycle = 0 /\ cycle = 0 /\ code_size = 0 /\ mul_count = 0 /\ latency = 0
            /\ ~skipped /\ pc = "generate"
    BY DEF Init, cycle
  <1>3. PortsFree /\ PortsBusy
    BY <1>2, MapFacts DEF PortsFree, PortsBusy, Init
  <1>4. Issued(0) = 0 /\ ~SecondSlot(0)
    BY DEF Issued, SecondSlot
  <1>5. Counted
    BY <1>2, <1>4, MapFacts DEF Counted
  <1>6. Outcome
    BY <1>2 DEF Outcome
  <1> QED BY <1>1, <1>3, <1>5, <1>6 DEF IInv

\* A failed attempt: nothing is scheduled, a skip enters an untouched cycle.
LEMMA InvStall ==
    ASSUME IInv, pc = "generate", cycle \in Cycles,
           code_size < HASHX_PROGRAM_MAX_SIZE, Stall, TypeOK',
           UNCHANGED <<pc, registers, ports, code_size, mul_count, latency, accepted>>
    PROVE  IInv'
  <1>1. /\ sub_cycle \in Nat /\ attempt \in Nat /\ skipped \in BOOLEAN
        /\ code_size \in Nat /\ cycle \in Nat
    BY CycleType, ConstantTypes DEF IInv, TypeOK
  <1>2. CASE attempt < MAX_RETRIES
    <2>1. /\ UNCHANGED <<sub_cycle, skipped, cycle>>
          /\ chain_mul'
      BY <1>1, <1>2 DEF Stall, cycle, chain_mul
    <2>2. PortsFree' /\ PortsBusy' /\ Counted' /\ Outcome'
      BY <2>1 DEF IInv, PortsFree, PortsBusy, Counted, Outcome
    <2> QED BY <2>2 DEF IInv
  <1>3. CASE ~(attempt < MAX_RETRIES)
    <2>1. sub_cycle' = sub_cycle + 3 /\ skipped'
      BY <1>3 DEF Stall
    <2>2. cycle' = cycle + 1
      BY <1>1, <2>1 DEF cycle
    <2>3. PortsFree' /\ PortsBusy'
      BY <1>1, <2>1, <2>2, MapFacts DEF IInv, PortsFree, PortsBusy
    <2>4. ASSUME sub_cycle + 3 <= 3 * TARGET_CYCLE
          PROVE  code_size + (IF SecondSlot(sub_cycle + 3) THEN 2 ELSE 1)
                    <= Issued(sub_cycle + 3)
      <3>1. Issued(sub_cycle + 3) >=
                Issued(sub_cycle) + (IF SecondSlot(sub_cycle + 3) THEN 3 ELSE 2)
        BY <1>1, IssuedSkip
      <3>2. code_size <= Issued(sub_cycle)
        BY <1>1, <2>4, IssuedNat, MapFacts DEF IInv, Counted
      <3> QED BY <1>1, <3>1, <3>2, IssuedNat
    <2>5. Counted'
      BY <2>1, <2>4 DEF Counted
    <2>6. Outcome'
      BY <2>1 DEF IInv, Outcome
    <2> QED BY <2>3, <2>5, <2>6 DEF IInv
  <1> QED BY <1>2, <1>3

\* An emitted instruction.
LEMMA InvEmit ==
    ASSUME IInv, TypeOK', NEW tpl \in select_template, NEW par, NEW dst,
           Emit(tpl, par, dst)
    PROVE  IInv'
  <1> DEFINE s == sub_cycle
             w == SlotWidth(s)
             busy == AfterInstr(tpl, ports[cycle])
  <1>1. /\ s \in Nat /\ attempt \in Nat /\ skipped \in BOOLEAN
        /\ code_size \in Nat /\ mul_count \in Nat /\ latency \in Nat
        /\ cycle \in Nat /\ ports \in [Cycles -> SUBSET Ports]
        /\ s = 3 * cycle + (s % 3) /\ s % 3 \in {0, 1, 2}
    BY CycleType, ConstantTypes DEF IInv, TypeOK
  <1>2. /\ pc = "generate" /\ code_size < HASHX_PROGRAM_MAX_SIZE
        /\ pc' = pc /\ skipped' = skipped /\ accepted' = accepted
        /\ last_instr' = tpl.group
    BY DEF Emit, Iteration
  <1>3. cycle \in Cycles
    BY BeyondMap DEF Emit, IInv
  <1>4. /\ schedule_instr(tpl) = cycle
        /\ ports' = Put(ports, cycle, busy)
        /\ busy \in SUBSET Ports
    BY <1>2, <1>3, NotDelayed DEF IInv, Emit
  <1>5. cycle < TARGET_CYCLE
    BY <1>4 DEF Emit
  <1>6. s' = s + w
    BY <1>1, OfferedCounts DEF Emit, SlotWidth, PORT_NONE
  <1>7. w \in {1, 2} /\ (w = 2 => s % 3 # 2)
    BY <1>1 DEF SlotWidth, DoubleSlot
  <1>8. /\ cycle' = cycle + (IF (s % 3) + w >= 3 THEN 1 ELSE 0)
        /\ s' % 3 = IF (s % 3) + w >= 3 THEN 0 ELSE (s % 3) + w
    <2>1. ASSUME NEW n \in Nat, NEW v \in {1, 2}, v = 2 => n % 3 # 2
          PROVE  /\ (n + v) \div 3 = (n \div 3) + (IF (n % 3) + v >= 3 THEN 1 ELSE 0)
                 /\ (n + v) % 3 = IF (n % 3) + v >= 3 THEN 0 ELSE (n % 3) + v
      BY <2>1
    <2> HIDE DEF w
    <2> QED BY <1>1, <1>6, <1>7, <2>1 DEF cycle
  <1>9. /\ ports' \in [Cycles -> SUBSET Ports]
        /\ ports'[cycle] = busy
        /\ \A c \in Cycles : c # cycle => ports'[c] = ports[c]
    BY <1>1, <1>3, <1>4, PutFacts
  <1>10. /\ s % 3 = 0 => busy = IF w = 2 THEN {"P1", "P5"} ELSE {"P1"}
         /\ s % 3 = 1 /\ w = 2 => busy = ports[cycle] \cup {"P5", "P0"}
         /\ s % 3 = 1 /\ w = 1 =>
                \/ busy = ports[cycle] \cup {"P5"}
                \/ busy = ports[cycle] \cup {"P0"} /\ tpl.group = "ADD_RS"
         /\ s % 3 = 2 /\ ports[cycle] \in {{"P1", "P0"}, {"P1", "P5"}} => busy = Ports
         /\ s % 3 = 1 => ports[cycle] \subseteq {"P1"}
    <2>1. ports[cycle] \in SUBSET Ports
      BY <1>1, <1>3
    <2>2. w = 2 <=> DoubleSlot(s)
      BY DEF SlotWidth
    <2>3. /\ s % 3 = 0 => ports[cycle] = {}
          /\ s % 3 = 1 => ports[cycle] \subseteq {"P1"}
          /\ s % 3 = 2 =>
                \/ "P0" \notin ports[cycle]
                \/ "P5" \notin ports[cycle] /\ (last_instr = "ADD_RS" \/ chain_mul)
      BY <1>2, <1>3 DEF IInv, PortsFree
    <2> HIDE DEF w
    <2> QED BY <1>1, <1>7, <2>1, <2>2, <2>3, OfferedPorts
  <1>11. \A c \in Cycles : c \in Nat
    BY MapFacts
  <1> HIDE DEF w, busy
  <1>12. PortsFree'
    <2>1. \A c \in Cycles : c > cycle => ports'[c] = {}
      BY <1>1, <1>9, <1>11 DEF IInv, PortsFree
    <2>2. CASE (s % 3) + w >= 3
      BY <1>1, <1>8, <1>11, <2>1, <2>2 DEF PortsFree
    <2>3. CASE ~((s % 3) + w >= 3)
      <3>1. cycle' = cycle /\ s' % 3 = (s % 3) + w
        BY <1>1, <1>8, <2>3
      <3>2. CASE s % 3 = 0
        BY <1>7, <1>9, <1>10, <2>1, <3>1, <3>2 DEF PortsFree
      <3>3. CASE s % 3 = 1
        BY <1>2, <1>7, <1>9, <1>10, <2>1, <2>3, <3>1, <3>3 DEF PortsFree
      <3>4. CASE s % 3 = 2
        BY <1>7, <2>3, <3>4
      <3> QED BY <1>1, <3>2, <3>3, <3>4
    <2> QED BY <2>2, <2>3
  <1>13. PortsBusy'
    <2> SUFFICES ASSUME ~skipped
                 PROVE  PortsBusy'
      BY <1>2 DEF PortsBusy
    <2>1. \A c \in Cycles : c < cycle => ports'[c] = Ports
      BY <1>1, <1>9, <1>11 DEF IInv, PortsBusy
    <2>2. /\ s % 3 = 1 => ports[cycle] = {"P1"}
          /\ s % 3 = 2 => ports[cycle] \in {{"P1", "P0"}, {"P1", "P5"}}
      BY <1>3 DEF IInv, PortsBusy
    <2>3. CASE (s % 3) + w >= 3
      <3>1. busy = Ports
        BY <1>1, <1>7, <1>10, <2>2, <2>3 DEF Ports
      <3> QED BY <1>1, <1>8, <1>9, <1>11, <2>1, <2>3, <3>1 DEF PortsBusy
    <2>4. CASE ~((s % 3) + w >= 3)
      <3>1. cycle' = cycle /\ s' % 3 = (s % 3) + w
        BY <1>1, <1>8, <2>4
      <3>2. CASE s % 3 = 0
        BY <1>7, <1>9, <1>10, <2>1, <3>1, <3>2 DEF PortsBusy
      <3>3. CASE s % 3 = 1
        <4>1. w = 1 /\ s' % 3 = 2
          BY <1>7, <2>4, <3>1, <3>3
        <4>2. busy \in {{"P1", "P0"}, {"P1", "P5"}}
          BY <1>10, <2>2, <3>3, <4>1
        <4> QED BY <1>9, <2>1, <3>1, <4>1, <4>2 DEF PortsBusy
      <3>4. CASE s % 3 = 2
        BY <1>7, <2>4, <3>4
      <3> QED BY <1>1, <3>2, <3>3, <3>4
    <2> QED BY <2>3, <2>4
  <1>14. /\ code_size' = code_size + 1
         /\ mul_count' = mul_count + (IF s % 3 = 0 THEN 1 ELSE 0)
    BY <1>1, OfferedCounts DEF Emit
  <1>15. s' <= 3 * TARGET_CYCLE /\ s <= 3 * TARGET_CYCLE - 1 /\ s' \in Nat
    BY <1>1, <1>5, <1>6, <1>7, MapFacts
  <1>16. /\ Issued(s) \in Nat /\ Issued(s') \in Nat
         /\ Issued(s') <= HASHX_PROGRAM_MAX_SIZE
    <2>1. 3 * TARGET_CYCLE \in Nat
      BY MapFacts
    <2> QED BY <1>1, <1>15, <2>1, IssuedNat, IssuedMonotone, ConstantTypes
  <1>17. /\ ~SecondSlot(s) => ~SecondSlot(s') /\ Issued(s') = Issued(s) + 1
         /\ Issued(s') - (IF SecondSlot(s') THEN 2 ELSE 1) >=
                Issued(s) - (IF SecondSlot(s) THEN 2 ELSE 1) + 1
         /\ (s' + 2) \div 3 = ((s + 2) \div 3) + (IF s % 3 = 0 THEN 1 ELSE 0)
         /\ s' > 0 /\ (s' - 1) \div 3 = cycle
    BY <1>1, <1>6, FillCounts DEF w, cycle
  <1>18. ASSUME ~skipped
         PROVE  latency' = LastMulRetires((s' - 1) \div 3)
    <2> DEFINE before == IF s = 0 THEN 0 ELSE LastMulRetires((s - 1) \div 3)
               after == LastMulRetires(cycle)
    <2>1. latency = before
      BY <1>18 DEF IInv, Counted
    <2>2. /\ before \in Nat /\ after \in Nat
          /\ s % 3 = 0 =>
                /\ after = cycle + (IF DoubleSlot(s) THEN 4 ELSE 3)
                /\ before <= after
          /\ s % 3 # 0 => before = after /\ after > cycle + 1
      BY <1>1, FillLatency DEF cycle
    <2> HIDE DEF before, after
    <2>3. latency' = IF ~tpl.has_dst THEN latency
                     ELSE IF cycle + tpl.latency > latency
                     THEN cycle + tpl.latency ELSE latency
      BY <1>4 DEF Emit, Retire
    <2>4. /\ s % 3 = 0 =>
                tpl.has_dst /\ tpl.latency = IF DoubleSlot(s) THEN 4 ELSE 3
          /\ s % 3 # 0 => ~tpl.has_dst \/ tpl.latency = 1
      BY <1>1, OfferedCounts
    <2>5. latency' = after
      <3>1. CASE s % 3 = 0
        BY <1>1, <2>1, <2>2, <2>3, <2>4, <3>1
      <3>2. CASE s % 3 # 0
        BY <1>1, <2>1, <2>2, <2>3, <2>4, <3>2
      <3> QED BY <3>1, <3>2
    <2> QED BY <1>17, <2>5 DEF after
  <1>19. Counted'
    <2>1. CASE ~skipped
      <3>1. /\ ~SecondSlot(s)
            /\ code_size = Issued(s)
            /\ mul_count = (s + 2) \div 3
        BY <2>1 DEF IInv, Counted
      <3> QED BY <1>2, <1>14, <1>15, <1>17, <1>18, <2>1, <3>1 DEF Counted
    <2>2. CASE skipped
      <3>1. code_size + (IF SecondSlot(s) THEN 2 ELSE 1) <= Issued(s)
        BY <1>1, <1>15, <2>2, MapFacts DEF IInv, Counted
      <3>2. code_size' + (IF SecondSlot(s') THEN 2 ELSE 1) <= Issued(s')
        BY <1>1, <1>14, <1>16, <1>17, <3>1
      <3>3. code_size' < HASHX_PROGRAM_MAX_SIZE
        BY <1>1, <1>14, <1>16, <3>2, ConstantTypes
      <3> QED BY <1>2, <2>2, <3>2, <3>3 DEF Counted
    <2> QED BY <2>1, <2>2
  <1>20. Outcome'
    BY <1>2 DEF Outcome
  <1> QED BY <1>12, <1>13, <1>19, <1>20 DEF IInv

\* The other ways out of an iteration, and the verdict.
LEMMA InvUnschedulable ==
    ASSUME IInv, TypeOK', NEW tpl \in select_template, Unschedulable(tpl)
    PROVE  IInv'
  <1>1. /\ cycle \in Nat /\ sub_cycle \in Nat /\ skipped \in BOOLEAN
        /\ sub_cycle = 3 * cycle + (sub_cycle % 3) /\ sub_cycle % 3 \in {0, 1, 2}
    BY CycleType DEF IInv, TypeOK
  <1>2. /\ pc = "generate" /\ pc' = "break"
        /\ UNCHANGED <<sub_cycle, cycle, registers, ports, code_size, mul_count,
                       latency, accepted, skipped>>
    BY DEF Unschedulable, Iteration, ctx, cycle
  <1>3. cycle \notin Cycles
    <2>1. ~(schedule_instr(tpl) = cycle)
      BY <1>1 DEF Unschedulable
    <2> QED BY <1>2, <2>1, NotDelayed DEF IInv
  <1>4. skipped /\ sub_cycle >= 3 * TARGET_CYCLE
    BY <1>1, <1>3, MapFacts DEF IInv, Counted
  <1> QED BY <1>2, <1>3, <1>4 DEF IInv, PortsFree, PortsBusy, Counted, Outcome

LEMMA InvOverrun ==
    ASSUME IInv, TypeOK', NEW tpl \in select_template, Overrun(tpl)
    PROVE  IInv'
  <1>1. /\ cycle \in Nat /\ sub_cycle \in Nat /\ skipped \in BOOLEAN
        /\ ports \in [Cycles -> SUBSET Ports]
        /\ sub_cycle = 3 * cycle + (sub_cycle % 3) /\ sub_cycle % 3 \in {0, 1, 2}
    BY CycleType DEF IInv, TypeOK
  <1>2. /\ pc = "generate" /\ pc' = "break" /\ code_size < HASHX_PROGRAM_MAX_SIZE
        /\ UNCHANGED <<sub_cycle, cycle, registers, code_size, mul_count,
                       latency, accepted, skipped>>
    BY DEF Overrun, Iteration, cycle
  <1>3. cycle \in Cycles
    BY BeyondMap, MapFacts DEF Overrun, IInv
  <1>4. /\ schedule_instr(tpl) = cycle
        /\ ports' = Put(ports, cycle, AfterInstr(tpl, ports[cycle]))
        /\ AfterInstr(tpl, ports[cycle]) \in SUBSET Ports
    BY <1>2, <1>3, NotDelayed DEF IInv, Overrun
  <1>5. cycle >= TARGET_CYCLE
    BY <1>4 DEF Overrun
  <1>6. skipped
    <2> SUFFICES ASSUME ~skipped
                 PROVE  FALSE
      BY <1>1
    <2>1. sub_cycle <= 3 * TARGET_CYCLE /\ code_size = Issued(sub_cycle)
      BY DEF IInv, Counted
    <2>2. sub_cycle = 3 * TARGET_CYCLE
      BY <1>1, <1>5, <2>1, MapFacts
    <2> QED BY <1>2, <2>1, <2>2, ConstantTypes
  <1>7. \A c \in Cycles : c # cycle => ports'[c] = ports[c]
    BY <1>1, <1>3, <1>4, PutFacts
  <1>8. PortsFree'
    BY <1>1, <1>2, <1>7, MapFacts DEF IInv, PortsFree
  <1>a. sub_cycle >= 3 * TARGET_CYCLE
    BY <1>1, <1>5, MapFacts
  <1>9. PortsBusy' /\ Counted' /\ Outcome'
    BY <1>2, <1>6, <1>a DEF IInv, PortsBusy, Counted, Outcome
  <1> QED BY <1>8, <1>9 DEF IInv

\* A generator at the capacity of the array without a skip is at the end.
LEMMA FullAtTheEnd ==
    ASSUME IInv, ~skipped, code_size >= HASHX_PROGRAM_MAX_SIZE
    PROVE  sub_cycle = 3 * TARGET_CYCLE
  <1>1. /\ sub_cycle \in Nat /\ sub_cycle <= 3 * TARGET_CYCLE
        /\ ~SecondSlot(sub_cycle) /\ code_size = Issued(sub_cycle)
    BY DEF IInv, TypeOK, Counted
  <1> SUFFICES ASSUME sub_cycle < 3 * TARGET_CYCLE
               PROVE  FALSE
    BY <1>1, MapFacts
  <1>2. Issued(sub_cycle + 1) = Issued(sub_cycle) + 1
    BY <1>1, IssuedNext
  <1>3. Issued(sub_cycle + 1) <= Issued(3 * TARGET_CYCLE)
    BY <1>1, MapFacts, IssuedMonotone
  <1> QED BY <1>1, <1>2, <1>3, IssuedNat, ConstantTypes

LEMMA InvReturn ==
    ASSUME IInv, TypeOK', Return
    PROVE  IInv'
  <1>1. /\ pc' = "returned"
        /\ accepted' = Meets(code_size, mul_count, latency)
        /\ UNCHANGED <<sub_cycle, cycle, attempt, last_instr, registers, ports,
                       code_size, mul_count, latency, skipped>>
    BY DEF Return, ctx, cycle
  <1>2. ASSUME ~skipped
        PROVE  accepted' /\ sub_cycle = 3 * TARGET_CYCLE
    <2>1. code_size >= HASHX_PROGRAM_MAX_SIZE
      BY <1>2 DEF Return, IInv, Outcome
    <2>2. sub_cycle = 3 * TARGET_CYCLE
      BY <1>2, <2>1, FullAtTheEnd
    <2>3. /\ code_size = Issued(sub_cycle)
          /\ mul_count = (sub_cycle + 2) \div 3
          /\ latency = IF sub_cycle = 0 THEN 0
                       ELSE LastMulRetires((sub_cycle - 1) \div 3)
      BY <1>2 DEF IInv, Counted
    <2>4. /\ (3 * TARGET_CYCLE + 2) \div 3 = TARGET_CYCLE
          /\ (3 * TARGET_CYCLE - 1) \div 3 = TARGET_CYCLE - 1
          /\ 3 * TARGET_CYCLE # 0
      BY ConstantTypes
    <2>5. LastMulRetires(TARGET_CYCLE - 1) = TARGET_CYCLE + 2
      BY CalibrationAssumption, ConstantTypes DEF LastMulRetires
    <2> QED BY <1>1, <2>2, <2>3, <2>4, <2>5, CalibrationAssumption, ConstantTypes
            DEF Meets
  <1>3. ASSUME skipped
        PROVE  ~accepted'
    <2>1. code_size < HASHX_PROGRAM_MAX_SIZE /\ code_size \in Nat
      BY <1>3, ConstantTypes DEF IInv, Counted, TypeOK
    <2> QED BY <1>1, <2>1, CalibrationAssumption, ConstantTypes DEF Meets
  <1>4. Outcome'
    BY <1>1, <1>2, <1>3 DEF Outcome
  <1>5. PortsFree' /\ PortsBusy' /\ Counted'
    BY <1>1 DEF IInv, PortsFree, PortsBusy, Counted
  <1> QED BY <1>4, <1>5 DEF IInv

LEMMA InvNext == IInv /\ [Next]_vars => IInv'
  <1> SUFFICES ASSUME IInv, [Next]_vars
               PROVE  IInv'
    OBVIOUS
  <1>0. TypeOK'
    BY TypeNext DEF IInv
  <1>1. ASSUME NEW tpl \in select_template, schedule_instr(tpl) >= 0
        PROVE  cycle \in Cycles
    BY <1>1, BeyondMap DEF IInv
  <1>2. ASSUME NEW tpl \in select_template, SourceStall(tpl)
        PROVE  IInv'
    BY <1>0, <1>1, <1>2, InvStall DEF SourceStall, Iteration
  <1>3. ASSUME NEW tpl \in select_template, NEW src, NEW par,
               DestinationStall(tpl, src, par)
        PROVE  IInv'
    BY <1>0, <1>1, <1>3, InvStall DEF DestinationStall, Iteration
  <1>4. CASE Generate
    BY <1>0, <1>2, <1>3, <1>4, InvUnschedulable, InvOverrun, InvEmit DEF Generate, TryTemplate
  <1>5. CASE Return
    BY <1>0, <1>5, InvReturn
  <1>6. CASE Terminated \/ UNCHANGED vars
    <2>1. UNCHANGED <<pc, attempt, last_instr, sub_cycle, registers, ports,
                      code_size, mul_count, latency, accepted, skipped>>
      BY <1>6 DEF Terminated, vars, ctx
    <2>2. UNCHANGED <<cycle, chain_mul>>
      BY <2>1 DEF cycle, chain_mul
    <2> QED BY <1>0, <2>1, <2>2 DEF IInv, PortsFree, PortsBusy, Counted, Outcome
  <1> QED BY <1>4, <1>5, <1>6 DEF Next

\* The ports, the counters and the verdict are tied to the sub-cycle.
THEOREM Invariant == Spec => []IInv
  <1>1. Init => IInv
    BY InvInit
  <1>2. IInv /\ [Next]_vars => IInv'
    BY InvNext
  <1> QED BY <1>1, <1>2, PTL DEF Spec

-----------------------------------------------------------------------------
(* The properties.                                                          *)

\* No instruction of a program is ever delayed by a busy port.
THEOREM NeverDelayed == Spec => []NoPortDelay
  <1>1. IInv => NoPortDelay
    BY CycleType, NotDelayed, MapFacts DEF IInv, TypeOK, NoPortDelay, PORT_MAP_SIZE
  <1> QED BY <1>1, Invariant, PTL

\* Until a sub-cycle is given up, all ports are busy in every past cycle.
THEOREM PortsSaturated == Spec => []Saturated
  <1>1. IInv => Saturated
    BY DEF IInv, PortsBusy, Saturated
  <1> QED BY <1>1, Invariant, PTL

\* Retries alone change neither the length nor the mix of a program.
THEOREM ShapeIsUniform == Spec => []UniformShape
  <1>1. IInv => UniformShape
    BY DEF IInv, Counted, UniformShape
  <1> QED BY <1>1, Invariant, PTL

\* A program is accepted if and only if no sub-cycle was given up, and its size
\* alone would decide it.
THEOREM VerdictIsExact == Spec => []AcceptedIffNeverSkipped
  <1>1. ASSUME IInv, pc = "returned"
        PROVE  (accepted <=> ~skipped) /\ (accepted <=> code_size = REQUIREMENT_SIZE)
    <2>1. accepted <=> ~skipped
      BY <1>1 DEF IInv, Outcome
    <2>2. ~skipped => code_size = HASHX_PROGRAM_MAX_SIZE
      BY <1>1, ConstantTypes DEF IInv, Outcome, Counted
    <2>3. skipped => code_size # HASHX_PROGRAM_MAX_SIZE
      BY <1>1, ConstantTypes DEF IInv, Counted, TypeOK
    <2>4. skipped \in BOOLEAN /\ accepted \in BOOLEAN
      BY <1>1 DEF IInv, TypeOK
    <2> QED BY <2>1, <2>2, <2>3, <2>4, CalibrationAssumption
  <1>2. IInv => AcceptedIffNeverSkipped
    BY <1>1 DEF AcceptedIffNeverSkipped
  <1> QED BY <1>2, Invariant, PTL

LEMMA PairCardinality ==
    ASSUME NEW x, NEW y, x # y
    PROVE  Cardinality({x} \cup {y}) = 2
  <1>1. IsFiniteSet({x}) /\ Cardinality({x}) = 1
    BY FS_Singleton
  <1>2. y \notin {x}
    OBVIOUS
  <1>3. Cardinality({x} \cup {y}) = Cardinality({x}) + 1
    BY <1>1, <1>2, FS_AddElement
  <1> QED BY <1>1, <1>3

\* The ports an instruction adds to those that were busy.
LEMMA AddedPorts ==
    ASSUME NEW tpl, NEW busy \in SUBSET Ports,
           tpl.uop1 \in SUBSET Ports, tpl.uop2 \in SUBSET Ports,
           tpl.uop1 \ busy # {},
           tpl.uop2 # {} => tpl.uop2 \ AfterUop(tpl.uop1, busy) # {}
    PROVE  Cardinality(AfterInstr(tpl, busy) \ busy) = IF tpl.uop2 = {} THEN 1 ELSE 2
  <1>1. \A uop \in SUBSET Ports : \A b : uop \ b # {} => PortFor(uop, b) \notin b
    BY DEF PortFor, Ports
  <1> DEFINE p == PortFor(tpl.uop1, busy)
             q == PortFor(tpl.uop2, busy \cup {p})
  <1>2. p \notin busy
    BY <1>1
  <1>3. Cardinality({p}) = 1 /\ IsFiniteSet({p})
    BY FS_Singleton
  <1>4. CASE tpl.uop2 = {}
    <2>1. AfterInstr(tpl, busy) \ busy = {p}
      BY <1>2, <1>4 DEF AfterInstr, AfterUop
    <2> QED BY <1>3, <1>4, <2>1
  <1>5. CASE tpl.uop2 # {}
    <2>1. q \notin busy /\ q # p
      BY <1>1, <1>5 DEF AfterUop
    <2>2. AfterInstr(tpl, busy) \ busy = {p} \cup {q}
      BY <1>2, <1>5, <2>1 DEF AfterInstr, AfterUop
    <2>3. Cardinality({p} \cup {q}) = 2
      <3> HIDE DEF p, q
      <3> QED BY <2>1, PairCardinality
    <2>4. Cardinality(AfterInstr(tpl, busy) \ busy) = 2
      BY <2>2, <2>3
    <2> QED BY <1>5, <2>4
  <1> QED BY <1>4, <1>5

\* The uOPs of an instruction execute in the same, the current, cycle.
THEOREM UopsTogether == Spec => UopsExecuteTogether
  <1>1. ASSUME IInv, [Next]_vars
        PROVE  [UopsInOneCycle]_vars
    <2>1. /\ cycle \in Nat /\ sub_cycle \in Nat /\ attempt \in Nat
          /\ code_size \in Nat
          /\ ports \in [Cycles -> SUBSET Ports]
      BY <1>1, CycleType, ConstantTypes DEF IInv, TypeOK
    <2>2. ASSUME NEW tpl \in select_template, cycle \in Cycles, pc = "generate",
                 ports' = commit_instr(tpl)
          PROVE  \A c \in Cycles : ports'[c] # ports[c] => c = cycle
      BY <1>1, <2>1, <2>2, NotDelayed, PutFacts DEF IInv
    <2>3. ASSUME NEW tpl \in select_template, NEW par, NEW dst, Emit(tpl, par, dst)
          PROVE  UopsInOneCycle
      <3>1. cycle \in Cycles
        BY <1>1, <2>3, BeyondMap DEF Emit, IInv
      <3>2. pc = "generate" /\ ports' = commit_instr(tpl)
        BY <2>3 DEF Emit, Iteration
      <3>3. ports'[cycle] = AfterInstr(tpl, ports[cycle])
        BY <1>1, <2>1, <3>1, <3>2, NotDelayed, PutFacts DEF IInv
      <3>4. ports[cycle] \in SUBSET Ports
        BY <2>1, <3>1
      <3>5. tpl.uop1 \in SUBSET Ports /\ tpl.uop2 \in SUBSET Ports
        BY <2>1, OfferedTemplates, TemplateFacts DEF WellFormed
      <3>6. /\ tpl.uop1 \ ports[cycle] # {}
            /\ tpl.uop2 # {} => tpl.uop2 \ AfterUop(tpl.uop1, ports[cycle]) # {}
        BY <1>1, <2>1, <3>1, <3>2, <3>4, OfferedPorts DEF IInv, PortsFree
      <3>7. Cardinality(ports'[cycle] \ ports[cycle]) = IF tpl.uop2 = {} THEN 1 ELSE 2
        BY <3>3, <3>4, <3>5, <3>6, AddedPorts
      <3>8. sub_cycle' - sub_cycle = IF tpl.uop2 = {} THEN 1 ELSE 2
        BY <2>1, <2>3 DEF Emit, PORT_NONE
      <3>9. \A c \in Cycles : ports'[c] # ports[c] => c = cycle
        BY <2>2, <3>1, <3>2
      <3> QED BY <3>7, <3>8, <3>9 DEF UopsInOneCycle
    <2>4. ASSUME NEW tpl \in select_template, Overrun(tpl)
          PROVE  UopsInOneCycle
      <3>1. cycle \in Cycles
        BY <1>1, <2>4, BeyondMap, MapFacts DEF Overrun, IInv
      <3> QED BY <2>2, <2>4, <3>1 DEF Overrun, Iteration, UopsInOneCycle
    <2>5. ASSUME UNCHANGED <<ports, code_size>>
          PROVE  UopsInOneCycle
      BY <2>5 DEF UopsInOneCycle
    <2>6. CASE Generate
      <3>1. PICK tpl \in select_template :
                \/ UNCHANGED <<ports, code_size>>
                \/ Overrun(tpl)
                \/ \E par, dst : Emit(tpl, par, dst)
        BY <2>6 DEF Generate, TryTemplate, Unschedulable, SourceStall, DestinationStall, ctx
      <3> QED BY <2>3, <2>4, <2>5, <3>1
    <2>7. CASE Return \/ Terminated \/ UNCHANGED vars
      <3>1. UNCHANGED <<ports, code_size>>
        BY <2>7 DEF Return, Terminated, vars, ctx
      <3> QED BY <2>5, <3>1
    <2> QED BY <1>1, <2>6, <2>7 DEF Next
  <1> QED BY <1>1, Invariant, PTL DEF Spec, UopsExecuteTogether

-----------------------------------------------------------------------------
(* The refinement.                                                          *)

\* The abstract walk's account of the width of a slot is the generator's.
LEMMA WidthOfSlot ==
    ASSUME NEW s \in Nat
    PROVE  Walk!Width(s) = SlotWidth(s)
  BY DEF Walk!Width, SlotWidth, DoubleSlot

\* The generator implements the walk over the layout.
THEOREM ImplementsWalk == Spec => WalksTheLayout
  <1>1. Init => Walk!Init
    BY DEF Init, Walk!Init
  <1>2. ASSUME IInv, [Next]_vars
        PROVE  [Walk!Next]_Walk!vars
    <2>1. /\ cycle \in Nat /\ sub_cycle \in Nat /\ attempt \in Nat
          /\ skipped \in BOOLEAN
          /\ sub_cycle = 3 * cycle + (sub_cycle % 3) /\ sub_cycle % 3 \in {0, 1, 2}
          /\ Walk!End = 3 * TARGET_CYCLE
      BY <1>2, CycleType, ConstantTypes DEF IInv, TypeOK, Walk!End
    <2>2. ASSUME NEW tpl \in select_template, NEW par, NEW dst, Emit(tpl, par, dst)
          PROVE  Walk!Fill
      <3>1. cycle \in Cycles
        BY <1>2, <2>2, BeyondMap DEF Emit, IInv
      <3>2. pc = "generate" /\ pc' = "generate"
        BY <2>2 DEF Emit, Iteration
      <3>3. cycle < TARGET_CYCLE
        BY <1>2, <2>2, <3>1, <3>2, NotDelayed DEF Emit, IInv
      <3>4. sub_cycle < Walk!End
        BY <2>1, <3>3, MapFacts
      <3>5. sub_cycle' = sub_cycle + Walk!Width(sub_cycle)
        BY <2>1, <2>2, OfferedCounts, WidthOfSlot DEF Emit, SlotWidth, PORT_NONE
      <3> QED BY <2>2, <3>2, <3>4, <3>5 DEF Walk!Fill, Emit
    <2>3. ASSUME pc = "generate", code_size < HASHX_PROGRAM_MAX_SIZE, Stall,
                 UNCHANGED <<pc, accepted>>
          PROVE  [Walk!Next]_Walk!vars
      <3>1. CASE attempt < MAX_RETRIES
        BY <2>3, <3>1 DEF Stall, Walk!vars
      <3>2. CASE ~(attempt < MAX_RETRIES)
        <4>1. sub_cycle' = sub_cycle + 3 /\ skipped'
          BY <2>3, <3>2 DEF Stall
        <4>a. skipped' = TRUE
          BY <2>3, <3>2 DEF Stall
        <4>2. ASSUME ~skipped
              PROVE  sub_cycle < Walk!End
          <5>1. sub_cycle <= 3 * TARGET_CYCLE /\ code_size = Issued(sub_cycle)
            BY <1>2, <4>2 DEF IInv, Counted
          <5>2. sub_cycle # 3 * TARGET_CYCLE
            BY <2>3, <5>1, ConstantTypes
          <5> QED BY <2>1, <5>1, <5>2, MapFacts
        <4>3. Walk!Skip
          BY <2>1, <2>3, <4>1, <4>2, <4>a DEF Walk!Skip
        <4> QED BY <4>3 DEF Walk!Next
      <3> QED BY <3>1, <3>2
    <2>4. ASSUME pc \in {"generate", "break"}, pc' \in {"generate", "break"},
                 UNCHANGED <<sub_cycle, skipped, accepted>>
          PROVE  UNCHANGED Walk!vars
      BY <2>4 DEF Walk!vars
    <2>5. CASE Generate
      <3>1. PICK tpl \in select_template :
                \/ Unschedulable(tpl)
                \/ SourceStall(tpl)
                \/ \E src, par : DestinationStall(tpl, src, par)
                \/ Overrun(tpl)
                \/ \E par, dst : Emit(tpl, par, dst)
        BY <2>5 DEF Generate, TryTemplate
      <3>2. CASE Unschedulable(tpl)
        BY <2>4, <3>2 DEF Unschedulable, Iteration, ctx
      <3>3. CASE SourceStall(tpl) \/ \E src, par : DestinationStall(tpl, src, par)
        BY <2>3, <3>3 DEF SourceStall, DestinationStall, Iteration
      <3>4. CASE Overrun(tpl)
        BY <2>4, <3>4 DEF Overrun, Iteration
      <3>5. CASE \E par, dst : Emit(tpl, par, dst)
        BY <2>2, <3>5 DEF Walk!Next
      <3> QED BY <3>1, <3>2, <3>3, <3>4, <3>5
    <2>6. CASE Return
      <3>1. sub_cycle >= Walk!End
        BY <1>2, <2>1, <2>6, FullAtTheEnd, ConstantTypes
           DEF Return, IInv, Outcome, Counted, TypeOK
      <3>2. IInv'
        BY <1>2, InvNext
      <3>3. accepted' <=> ~skipped
        BY <2>6, <3>2 DEF Return, IInv, Outcome
      <3>4. Walk!Decide
        BY <2>1, <2>6, <3>1, <3>3 DEF Walk!Decide, Return, ctx
      <3> QED BY <3>4 DEF Walk!Next
    <2>7. CASE Terminated \/ UNCHANGED vars
      BY <2>7 DEF Terminated, vars, ctx, Walk!vars
    <2> QED BY <1>2, <2>5, <2>6, <2>7 DEF Next
  <1> QED BY <1>1, <1>2, Invariant, PTL DEF Spec, WalksTheLayout, Walk!Spec

-----------------------------------------------------------------------------
(* Latencies.                                                               *)

\* An instruction is emitted in the current cycle.
LEMMA EmitStep ==
    ASSUME IInv, NEW tpl \in select_template, NEW par, NEW dst, Emit(tpl, par, dst)
    PROVE  /\ sub_cycle \in Nat /\ attempt \in Nat /\ cycle \in Nat
           /\ schedule_instr(tpl) = cycle
           /\ sub_cycle' = sub_cycle + SlotWidth(sub_cycle)
           /\ skipped' = skipped
           /\ ~skipped => ~SecondSlot(sub_cycle)
  <1>1. sub_cycle \in Nat /\ attempt \in Nat /\ cycle \in Nat
    BY CycleType, ConstantTypes DEF IInv, TypeOK
  <1>2. cycle \in Cycles
    BY BeyondMap DEF Emit, IInv
  <1>3. schedule_instr(tpl) = cycle
    BY <1>2, NotDelayed DEF IInv, Emit, Iteration
  <1>4. sub_cycle' = sub_cycle + SlotWidth(sub_cycle)
    BY <1>1, OfferedCounts DEF Emit, SlotWidth, PORT_NONE
  <1>5. skipped' = skipped
    BY DEF Emit
  <1>6. ~skipped => ~SecondSlot(sub_cycle)
    BY DEF IInv, Counted
  <1> QED BY <1>1, <1>3, <1>4, <1>5, <1>6


\* What a step does to the registers: it retires one that was ready, by four
\* cycles at most, or leaves all of them alone.
LEMMA RegistersStep ==
    ASSUME IInv, [Next]_vars
    PROVE  \/ /\ registers' = registers /\ latency' = latency
              /\ \/ sub_cycle' = sub_cycle
                 \/ sub_cycle' = sub_cycle + 3
           \/ \E tpl \in select_template : \E par, dst :
                /\ Emit(tpl, par, dst)
                /\ tpl.has_dst =>
                    /\ dst \in Registers
                    /\ registers[dst].latency <= cycle
  <1>1. CASE Generate
    <2>1. PICK tpl \in select_template :
            \/ Unschedulable(tpl)
            \/ SourceStall(tpl)
            \/ \E src, par : DestinationStall(tpl, src, par)
            \/ Overrun(tpl)
            \/ \E src, par :
                \E dst \in select_destination(tpl, src, par, schedule_instr(tpl)) :
                    Emit(tpl, par, dst)
      BY <1>1 DEF Generate, TryTemplate
    <2>2. CASE Unschedulable(tpl) \/ Overrun(tpl)
      BY <2>2 DEF Unschedulable, Overrun, ctx
    <2>3. CASE SourceStall(tpl) \/ \E src, par : DestinationStall(tpl, src, par)
      BY <2>3 DEF SourceStall, DestinationStall, Stall
    <2>4. ASSUME NEW src, NEW par,
                 NEW dst \in select_destination(tpl, src, par, schedule_instr(tpl)),
                 Emit(tpl, par, dst), tpl.has_dst
          PROVE  dst \in Registers /\ registers[dst].latency <= cycle
      <3>1. schedule_instr(tpl) = cycle
        BY <2>4, EmitStep
      <3> QED BY <2>4, <3>1 DEF select_destination, Ready
    <2> QED BY <2>1, <2>2, <2>3, <2>4
  <1>2. CASE Return \/ Terminated \/ UNCHANGED vars
    BY <1>2 DEF Return, Terminated, vars, ctx
  <1> QED BY <1>1, <1>2 DEF Next

LEMMA Retired ==
    ASSUME IInv, NEW tpl \in select_template, NEW par, NEW dst,
           Emit(tpl, par, dst), tpl.has_dst => dst \in Registers
    PROVE  /\ ~tpl.has_dst => registers' = registers /\ latency' = latency
           /\ tpl.has_dst =>
                /\ tpl.latency \in 1 .. 4
                /\ registers'[dst].latency = cycle + tpl.latency
                /\ \A r \in Registers : r # dst => registers'[r] = registers[r]
                /\ latency' = IF cycle + tpl.latency > latency
                              THEN cycle + tpl.latency ELSE latency
  <1>1. sub_cycle \in Nat /\ attempt \in Nat /\ schedule_instr(tpl) = cycle
    BY EmitStep
  <1>2. registers \in [Registers -> [latency : Nat, last_op : Groups \cup {NoInstr},
                                     last_op_par : OpPars]]
    BY DEF IInv, TypeOK
  <1>3. tpl.has_dst => tpl.latency \in {1, 3, 4}
    BY <1>1, OfferedCounts
  <1>4. tpl.has_dst =>
            /\ registers' = [registers EXCEPT ![dst] =
                    [latency |-> cycle + tpl.latency, last_op |-> tpl.group,
                     last_op_par |-> par]]
            /\ latency' = IF cycle + tpl.latency > latency
                          THEN cycle + tpl.latency ELSE latency
    BY <1>1 DEF Emit, Retire
  <1>5. ~tpl.has_dst => registers' = registers /\ latency' = latency
    BY DEF Emit, Retire
  <1> QED BY <1>2, <1>3, <1>4, <1>5

\* ctx.latency bounds the registers, and one of them has it.
Latest ==
    /\ \A r \in Registers : registers[r].latency <= latency
    /\ \E r \in Registers : registers[r].latency = latency

LEMMA LatestNext == IInv /\ Latest /\ [Next]_vars => Latest'
  <1> SUFFICES ASSUME IInv, Latest, [Next]_vars
               PROVE  Latest'
    OBVIOUS
  <1>1. CASE registers' = registers /\ latency' = latency
    BY <1>1 DEF Latest
  <1>2. ASSUME NEW tpl \in select_template, NEW par, NEW dst, Emit(tpl, par, dst),
               tpl.has_dst, dst \in Registers, registers[dst].latency <= cycle
        PROVE  Latest'
    <2> DEFINE retires == cycle + tpl.latency
    <2>1. /\ registers'[dst].latency = retires
          /\ \A r \in Registers : r # dst => registers'[r] = registers[r]
          /\ latency' = IF retires > latency THEN retires ELSE latency
      BY <1>2, Retired
    <2>2. /\ cycle \in Nat /\ latency \in Nat /\ retires \in Nat
          /\ retires > cycle
          /\ \A r \in Registers : registers[r].latency \in Nat
      BY <1>2, EmitStep, Retired DEF IInv, TypeOK
    <2>3. PICK last \in Registers : registers[last].latency = latency
      BY DEF Latest
    <2>4. \A r \in Registers : registers[r].latency <= latency
      BY DEF Latest
    <2> HIDE DEF retires
    <2>5. \A r \in Registers : registers'[r].latency <= latency'
      BY <2>1, <2>2, <2>4
    <2>6. \E r \in Registers : registers'[r].latency = latency'
      <3>1. CASE retires > latency
        BY <1>2, <2>1, <3>1
      <3>2. CASE ~(retires > latency)
        <4>1. last # dst
          BY <1>2, <2>2, <2>3, <3>2
        <4> QED BY <2>1, <2>3, <3>2, <4>1
      <3> QED BY <3>1, <3>2
    <2> QED BY <2>5, <2>6 DEF Latest
  <1>3. ASSUME NEW tpl \in select_template, NEW par, NEW dst, Emit(tpl, par, dst),
               ~tpl.has_dst
        PROVE  Latest'
    BY <1>1, <1>3, Retired
  <1> QED BY <1>1, <1>2, <1>3, RegistersStep

\* ctx.latency is the cycle in which the last register retires.
THEOREM LatencyIsExact == Spec => []LatencyIsLastRetirement
  <1>1. Init => Latest
    BY ConstantsAssumption DEF Init, Latest
  <1>2. ASSUME IInv, Latest
        PROVE  LatencyIsLastRetirement
    <2> DEFINE S == {registers[r].latency : r \in Registers}
    <2>1. latency \in S /\ \A x \in S : latency >= x
      BY <1>2 DEF Latest, IInv, TypeOK
    <2>2. S \subseteq Nat /\ latency \in Nat
      BY <1>2 DEF IInv, TypeOK
    <2> HIDE DEF S
    <2>3. \A x \in S : (\A y \in S : x >= y) => x = latency
      BY <2>1, <2>2
    <2>4. Max(S) = latency
      BY <2>1, <2>3 DEF Max
    <2> QED BY <2>4 DEF LatencyIsLastRetirement, S
  <1>3. Init => IInv
    BY InvInit
  <1>4. IInv /\ Latest /\ [Next]_vars => IInv' /\ Latest'
    BY InvNext, LatestNext
  <1>5. IInv /\ Latest => LatencyIsLastRetirement
    BY <1>2
  <1> QED BY <1>1, <1>3, <1>4, <1>5, PTL DEF Spec

\* Every register in flight is that of one of the last four multiplications,
\* or of the instruction that followed the multiplication of this cycle.
InFlight(m0, m1, m2, m3, other) ==
    \A r \in Registers : registers[r].latency > cycle =>
        \/ r = m0 /\ sub_cycle % 3 # 0 /\ registers[r].latency <= cycle + 4
        \/ r = m1 /\ registers[r].latency <= cycle + 3
        \/ r = m2 /\ registers[r].latency <= cycle + 2
        \/ r = m3 /\ registers[r].latency <= cycle + 1
        \/ r = other /\ sub_cycle % 3 = 2 /\ registers[r].latency <= cycle + 1

FlightKnown == \E m0, m1, m2, m3, other : InFlight(m0, m1, m2, m3, other)

\* A new cycle begins: the instructions issued before are one cycle older.
LEMMA FlightAges ==
    ASSUME IInv, TypeOK', NEW m0, NEW m1, NEW m2, NEW m3, NEW other,
           InFlight(m0, m1, m2, m3, other), cycle' = cycle + 1,
           \A r \in Registers :
                registers'[r] = registers[r] \/ registers'[r].latency <= cycle + 1
    PROVE  FlightKnown'
  <1>1. /\ cycle \in Nat
        /\ \A r \in Registers :
            registers[r].latency \in Nat /\ registers'[r].latency \in Nat
    BY CycleType DEF IInv, TypeOK
  <1>2. ASSUME NEW r \in Registers, registers'[r].latency > cycle'
        PROVE  \/ r = m0 /\ registers'[r].latency <= cycle' + 3
               \/ r = m1 /\ registers'[r].latency <= cycle' + 2
               \/ r = m2 /\ registers'[r].latency <= cycle' + 1
    <2>1. registers'[r] = registers[r] /\ registers[r].latency > cycle + 1
      BY <1>1, <1>2
    <2> QED BY <1>1, <2>1 DEF InFlight
  <1>3. InFlight(m0, m0, m1, m2, other)'
    BY <1>2 DEF InFlight
  <1> QED BY <1>3 DEF FlightKnown

LEMMA FlightIssue ==
    ASSUME IInv, TypeOK', NEW m0, NEW m1, NEW m2, NEW m3, NEW other,
           InFlight(m0, m1, m2, m3, other),
           NEW tpl \in select_template, NEW par, NEW dst, Emit(tpl, par, dst),
           tpl.has_dst => dst \in Registers
    PROVE  FlightKnown'
  <1> DEFINE s == sub_cycle
             w == SlotWidth(s)
  <1>1. /\ s \in Nat /\ attempt \in Nat /\ cycle \in Nat
        /\ s' = s + w
        /\ s % 3 \in {0, 1, 2}
    BY EmitStep, CycleType
  <1>2. w \in {1, 2} /\ (w = 2 => s % 3 # 2)
    BY <1>1 DEF SlotWidth, DoubleSlot
  <1>3. /\ cycle' = cycle + (IF (s % 3) + w >= 3 THEN 1 ELSE 0)
        /\ s' % 3 = IF (s % 3) + w >= 3 THEN 0 ELSE (s % 3) + w
    <2>1. ASSUME NEW n \in Nat, NEW v \in {1, 2}, v = 2 => n % 3 # 2
          PROVE  /\ (n + v) \div 3 = (n \div 3) + (IF (n % 3) + v >= 3 THEN 1 ELSE 0)
                 /\ (n + v) % 3 = IF (n % 3) + v >= 3 THEN 0 ELSE (n % 3) + v
      BY <2>1
    <2> HIDE DEF w
    <2> QED BY <1>1, <1>2, <2>1 DEF cycle
  <1>4. \A r \in Registers :
            registers[r].latency \in Nat /\ registers'[r].latency \in Nat
    BY DEF IInv, TypeOK
  <1>5. /\ \A r \in Registers :
                registers'[r] = registers[r] \/ (tpl.has_dst /\ r = dst)
        /\ tpl.has_dst =>
            /\ registers'[dst].latency <= cycle + 4
            /\ s % 3 # 0 => registers'[dst].latency <= cycle + 1
    <2>1. s % 3 # 0 => ~tpl.has_dst \/ tpl.latency = 1
      BY <1>1, OfferedCounts
    <2> QED BY <1>1, <2>1, Retired
  <1> HIDE DEF w
  <1>6. CASE s % 3 = 0
    <2>1. cycle' = cycle /\ s' % 3 # 0
      BY <1>1, <1>2, <1>3, <1>6
    <2>2. InFlight(dst, m1, m2, m3, dst)'
      BY <1>1, <1>4, <1>5, <1>6, <2>1 DEF InFlight
    <2> QED BY <2>2 DEF FlightKnown
  <1>7. CASE s % 3 # 0 /\ (s % 3) + w < 3
    <2>1. cycle' = cycle /\ s % 3 = 1 /\ s' % 3 = 2
      BY <1>1, <1>2, <1>3, <1>7
    <2>2. InFlight(m0, m1, m2, m3, dst)'
      BY <1>1, <1>4, <1>5, <2>1 DEF InFlight
    <2> QED BY <2>2 DEF FlightKnown
  <1>8. CASE s % 3 # 0 /\ (s % 3) + w >= 3
    <2>1. cycle' = cycle + 1
      BY <1>3, <1>8
    <2> QED BY <1>5, <1>8, <2>1, FlightAges
  <1> QED BY <1>1, <1>2, <1>6, <1>7, <1>8

LEMMA FlightNext == IInv /\ FlightKnown /\ [Next]_vars => FlightKnown'
  <1> SUFFICES ASSUME IInv, FlightKnown, [Next]_vars
               PROVE  FlightKnown'
    OBVIOUS
  <1>1. TypeOK'
    BY TypeNext DEF IInv
  <1>2. PICK m0, m1, m2, m3, other : InFlight(m0, m1, m2, m3, other)
    BY DEF FlightKnown
  <1>3. CASE registers' = registers /\ sub_cycle' = sub_cycle
    <2>1. InFlight(m0, m1, m2, m3, other)'
      BY <1>2, <1>3 DEF InFlight, cycle
    <2> QED BY <2>1 DEF FlightKnown
  <1>4. CASE registers' = registers /\ sub_cycle' = sub_cycle + 3
    <2>1. cycle' = cycle + 1
      BY <1>4 DEF IInv, TypeOK, cycle
    <2> QED BY <1>1, <1>2, <1>4, <2>1, FlightAges
  <1>5. ASSUME NEW tpl \in select_template, NEW par, NEW dst, Emit(tpl, par, dst),
               tpl.has_dst => dst \in Registers
        PROVE  FlightKnown'
    BY <1>1, <1>2, <1>5, FlightIssue
  <1> QED BY <1>3, <1>4, <1>5, RegistersStep

LEMMA SmallSubset ==
    ASSUME NEW T, IsFiniteSet(T), NEW n \in Nat, Cardinality(T) <= n, NEW S \in SUBSET T
    PROVE  Cardinality(S) <= n
  <1>1. IsFiniteSet(S) /\ Cardinality(S) <= Cardinality(T)
    BY FS_Subset
  <1>2. Cardinality(S) \in Nat /\ Cardinality(T) \in Nat
    BY <1>1, FS_CardinalityType
  <1> QED BY <1>1, <1>2

LEMMA ThreeElements ==
    ASSUME NEW a, NEW b, NEW c
    PROVE  IsFiniteSet({a, b, c}) /\ Cardinality({a, b, c}) \in 1 .. 3
  <1>1. IsFiniteSet({a}) /\ Cardinality({a}) = 1
    BY FS_Singleton
  <1>2. IsFiniteSet({a, b}) /\ Cardinality({a, b}) \in 1 .. 2
    <2>1. {a, b} = {a} \cup {b}
      OBVIOUS
    <2> QED BY <1>1, <2>1, FS_AddElement
  <1>3. {a, b, c} = {a, b} \cup {c}
    OBVIOUS
  <1> QED BY <1>2, <1>3, FS_AddElement

LEMMA FourElements ==
    ASSUME NEW a, NEW b, NEW c, NEW d
    PROVE  IsFiniteSet({a, b, c, d}) /\ Cardinality({a, b, c, d}) \in 1 .. 4
  <1>1. {a, b, c, d} = {a, b, c} \cup {d}
    OBVIOUS
  <1>2. IsFiniteSet({a, b, c}) /\ Cardinality({a, b, c}) \in 1 .. 3
    BY ThreeElements
  <1> QED BY <1>1, <1>2, FS_AddElement

LEMMA FiveElements ==
    ASSUME NEW a, NEW b, NEW c, NEW d, NEW e
    PROVE  IsFiniteSet({a, b, c, d, e}) /\ Cardinality({a, b, c, d, e}) \in 1 .. 5
  <1>1. {a, b, c, d, e} = {a, b, c, d} \cup {e}
    OBVIOUS
  <1>2. IsFiniteSet({a, b, c, d}) /\ Cardinality({a, b, c, d}) \in 1 .. 4
    BY FourElements
  <1> QED BY <1>1, <1>2, FS_AddElement

LEMMA ThreeAtMost ==
    ASSUME NEW a, NEW b, NEW c, NEW S \in SUBSET {a, b, c}
    PROVE  Cardinality(S) <= 3
  <1> DEFINE T == {a, b, c}
  <1>1. IsFiniteSet(T) /\ Cardinality(T) \in 1 .. 3
    BY ThreeElements
  <1> HIDE DEF T
  <1>2. Cardinality(T) <= 3
    BY <1>1
  <1>3. S \in SUBSET T
    BY DEF T
  <1> QED BY <1>1, <1>2, <1>3, SmallSubset

LEMMA FourAtMost ==
    ASSUME NEW a, NEW b, NEW c, NEW d, NEW S \in SUBSET {a, b, c, d}
    PROVE  Cardinality(S) <= 4
  <1> DEFINE T == {a, b, c, d}
  <1>1. IsFiniteSet(T) /\ Cardinality(T) \in 1 .. 4
    BY FourElements
  <1> HIDE DEF T
  <1>2. Cardinality(T) <= 4
    BY <1>1
  <1>3. S \in SUBSET T
    BY DEF T
  <1> QED BY <1>1, <1>2, <1>3, SmallSubset

LEMMA FiveAtMost ==
    ASSUME NEW a, NEW b, NEW c, NEW d, NEW e, NEW S \in SUBSET {a, b, c, d, e}
    PROVE  Cardinality(S) <= 5
  <1> DEFINE T == {a, b, c, d, e}
  <1>1. IsFiniteSet(T) /\ Cardinality(T) \in 1 .. 5
    BY FiveElements
  <1> HIDE DEF T
  <1>2. Cardinality(T) <= 5
    BY <1>1
  <1>3. S \in SUBSET T
    BY DEF T
  <1> QED BY <1>1, <1>2, <1>3, SmallSubset

\* A cycle begins with at most three registers in flight and each of its slots
\* adds at most one, however many registers there are.
THEOREM AlwaysEnoughReady == Spec => []EnoughReadyRegisters
  <1>1. Init => FlightKnown
    <2> SUFFICES ASSUME Init PROVE FlightKnown
      OBVIOUS
    <2>1. \A r \in Registers : ~(registers[r].latency > cycle)
      BY DEF Init, cycle
    <2>2. InFlight(0, 0, 0, 0, 0)
      BY <2>1 DEF InFlight
    <2> QED BY <2>2 DEF FlightKnown
  <1>2. ASSUME IInv, FlightKnown
        PROVE  EnoughReadyRegisters
    <2>1. PICK m0, m1, m2, m3, other : InFlight(m0, m1, m2, m3, other)
      BY <1>2 DEF FlightKnown
    <2>2. cycle \in Nat /\ \A r \in Registers : registers[r].latency \in Nat
      BY <1>2, CycleType DEF IInv, TypeOK
    <2>3. sub_cycle % 3 \in {0, 1, 2}
      BY <1>2 DEF IInv, TypeOK
    <2>4. CASE sub_cycle % 3 = 0
      <3>1. Unready \in SUBSET {m1, m2, m3}
        BY <2>1, <2>2, <2>4 DEF InFlight, Unready
      <3>2. Cardinality(Unready) <= 3
        BY <3>1, ThreeAtMost
      <3> QED BY <2>4, <3>2 DEF EnoughReadyRegisters
    <2>5. CASE sub_cycle % 3 = 1
      <3>1. Unready \in SUBSET {m0, m1, m2, m3}
        BY <2>1, <2>2, <2>5 DEF InFlight, Unready
      <3>2. Cardinality(Unready) <= 4
        BY <3>1, FourAtMost
      <3> QED BY <2>5, <3>2 DEF EnoughReadyRegisters
    <2>6. CASE sub_cycle % 3 = 2
      <3>1. Unready \in SUBSET {m0, m1, m2, m3, other}
        BY <2>1, <2>2 DEF InFlight, Unready
      <3>2. Cardinality(Unready) <= 5
        BY <3>1, FiveAtMost
      <3> QED BY <2>6, <3>2 DEF EnoughReadyRegisters
    <2> QED BY <2>3, <2>4, <2>5, <2>6
  <1>3. Init => IInv
    BY InvInit
  <1>4. IInv /\ FlightKnown /\ [Next]_vars => IInv' /\ FlightKnown'
    BY InvNext, FlightNext
  <1>5. IInv /\ FlightKnown => EnoughReadyRegisters
    BY <1>2
  <1> QED BY <1>1, <1>3, <1>4, <1>5, PTL DEF Spec

-----------------------------------------------------------------------------
(* The instruction in each slot, and the size of its code.                  *)

\* The opcode a slot of the layout holds, or may hold.
OpcodesAt(slot) ==
    IF slot \in {12, 24} THEN {"UMULH_R", "SMULH_R"}
    ELSE IF slot % 3 = 0 THEN {"MUL_R"}
    ELSE IF slot = 1 THEN {"TARGET"}
    ELSE IF slot = 19 THEN {"BRANCH"}
    ELSE {"SUB_R", "XOR_R", "ADD_RS", "ROR_C", "ADD_C", "XOR_C"}

LEMMA TemplateTypes ==
    /\ \A tpl \in WideTemplates : tpl.type \in {"UMULH_R", "SMULH_R"} /\ tpl.has_dst
    /\ \A tpl \in AnyTemplates :
        /\ tpl.type \in {"SUB_R", "XOR_R", "ADD_RS", "ROR_C", "ADD_C", "XOR_C"}
        /\ tpl.has_dst
    /\ tpl_mul_r.type = "MUL_R" /\ tpl_mul_r.has_dst
    /\ tpl_target.type = "TARGET" /\ ~tpl_target.has_dst
    /\ tpl_branch.type = "BRANCH" /\ ~tpl_branch.has_dst
  BY DEF WideTemplates, AnyTemplates, tpl_umulh_r, tpl_smulh_r, tpl_mul_r,
         tpl_ror_c, tpl_xor_c, tpl_add_c, tpl_sub_r, tpl_xor_r, tpl_add_rs,
         tpl_target, tpl_branch, WideMul, TwoOperand, WithConstant, Control

LEMMA OfferedOpcode ==
    ASSUME sub_cycle \in Nat, attempt \in Nat, NEW tpl \in select_template
    PROVE  /\ tpl.type \in OpcodesAt(sub_cycle % 36)
           /\ tpl.has_dst <=> sub_cycle % 36 \notin {1, 19}
  <1> DEFINE pos == sub_cycle % 36
             item == program_layout(pos)
  <1>1. pos \in Nat
    OBVIOUS
  <1>2. PICK b \in U8Draws : tpl = item.templates[TemplateIndex(item, b) + 1]
    BY DEF select_template, LayoutSize
  <1> HIDE DEF pos
  <1>3. item \in {item_mul, item_target, item_branch, item_wide_mul, item_any}
    BY DEF program_layout
  <1>4. /\ item = item_mul => tpl = tpl_mul_r
        /\ item = item_target => tpl = tpl_target
        /\ item = item_branch => tpl = tpl_branch
        /\ item = item_wide_mul => tpl \in WideTemplates
        /\ item = item_any => tpl \in AnyTemplates
    BY <1>2, <1>3, DrawnTemplate
  <1>5. /\ pos \in {12, 24} => item = item_wide_mul
        /\ pos % 3 = 0 /\ pos \notin {12, 24} => item = item_mul
        /\ pos = 1 => item = item_target
        /\ pos = 19 => item = item_branch
        /\ pos % 3 # 0 /\ pos \notin {1, 19} => item = item_any
    BY <1>1 DEF program_layout
  <1> HIDE DEF item
  <1>6. /\ tpl.type \in OpcodesAt(pos)
        /\ tpl.has_dst <=> pos \notin {1, 19}
    <2>1. CASE pos \in {12, 24}
      BY <1>4, <1>5, <2>1, TemplateTypes DEF OpcodesAt
    <2>2. CASE pos % 3 = 0 /\ pos \notin {12, 24}
      BY <1>4, <1>5, <2>2, TemplateTypes DEF OpcodesAt
    <2>3. CASE pos = 1
      BY <1>4, <1>5, <2>3, TemplateTypes DEF OpcodesAt
    <2>4. CASE pos = 19
      BY <1>4, <1>5, <2>4, TemplateTypes DEF OpcodesAt
    <2>5. CASE pos % 3 # 0 /\ pos \notin {1, 19}
      BY <1>4, <1>5, <2>5, TemplateTypes DEF OpcodesAt
    <2> QED BY <2>1, <2>2, <2>3, <2>4, <2>5
  <1> QED BY <1>6 DEF pos

LEMMA CodeSizes ==
    /\ \A op \in {"UMULH_R", "SMULH_R"} : E!x86_size(op) = 9
    /\ E!x86_size("MUL_R") = 4
    /\ E!x86_size("TARGET") = 5
    /\ E!x86_size("BRANCH") = 10
    /\ \A op \in {"SUB_R", "XOR_R", "ADD_RS", "ROR_C", "ADD_C", "XOR_C"} :
            E!x86_size(op) \in 3 .. 7
  BY DEF E!x86_size, E!Opcodes, E!MultiplyHigh, E!Arithmetic

\* The code of an instruction, against the six bytes a slot has.
LEMMA SlotSize ==
    ASSUME NEW s \in Nat, NEW op \in OpcodesAt(s % 36)
    PROVE  LET size == E!x86_size(op)
               t == s + SlotWidth(s)
           IN  /\ size \in Nat
               /\ t \in Nat
               /\ size - Slack(s) <= 6 * (t - s) - Slack(t)
               /\ s % 36 = 1 => size = 5
  <1> DEFINE size == E!x86_size(op)
             t == s + SlotWidth(s)
  <1>1. /\ s % 36 \in {12, 24} => size = 9
        /\ s % 36 \notin {12, 24} /\ (s % 36) % 3 = 0 => size = 4
        /\ s % 36 = 1 => size = 5
        /\ s % 36 = 19 => size = 10
        /\ (s % 36) % 3 # 0 /\ s % 36 \notin {1, 19} => size \in 3 .. 7
    BY CodeSizes DEF OpcodesAt
  <1> HIDE DEF size
  <1>2. /\ s % 36 \in {1, 12, 19, 24} => t = s + 2
        /\ s % 36 \notin {1, 12, 19, 24} => t = s + 1
    BY DEF SlotWidth, DoubleSlot
  <1> HIDE DEF t
  <1>3. (s % 36) % 3 = s % 3
    OBVIOUS
  <1>4. s % 36 = 1 => s % 3 = 1 /\ size = 5
    BY <1>1, <1>3
  <1>5. /\ size \in Nat
        /\ t \in Nat
        /\ size - Slack(s) <= 6 * (t - s) - Slack(t)
    <2>1. CASE s % 36 \in {12, 24}
      BY <1>1, <1>2, <1>3, <2>1 DEF Slack
    <2>2. CASE s % 36 \notin {12, 24} /\ s % 3 = 0
      BY <1>1, <1>2, <1>3, <2>2 DEF Slack
    <2>3. CASE s % 36 \in {1, 19}
      BY <1>1, <1>2, <1>3, <2>3 DEF Slack
    <2>4. CASE s % 36 \notin {1, 19} /\ s % 3 = 1
      BY <1>1, <1>2, <1>3, <2>4 DEF Slack
    <2>5. CASE s % 3 = 2
      BY <1>1, <1>2, <1>3, <2>5 DEF Slack
    <2> QED BY <2>1, <2>2, <2>3, <2>4, <2>5
  <1> QED BY <1>4, <1>5 DEF size, t

-----------------------------------------------------------------------------
(* Steps.                                                                   *)

\* The generator takes its own steps.
LEMMA GeneratorSteps == CodegenNext => Next
  BY DEF CodegenNext, EmitNothing, EmitAndCompile, Next, Generate, TryTemplate

LEMMA IdleStep ==
    ASSUME EmitNothing
    PROVE  /\ registers' = registers /\ code_size' = code_size
           /\ UNCHANGED compilers
           /\ \/ sub_cycle' = sub_cycle /\ skipped' = skipped
              \/ sub_cycle' = sub_cycle + 3 /\ skipped'
  <1>1. CASE Return \/ Terminated
    BY <1>1 DEF Return, Terminated, vars, ctx, EmitNothing
  <1>2. CASE \E tpl : Unschedulable(tpl) \/ Overrun(tpl)
    BY <1>2 DEF Unschedulable, Overrun, ctx, EmitNothing
  <1>3. CASE \E tpl : SourceStall(tpl) \/ \E src, par : DestinationStall(tpl, src, par)
    BY <1>3 DEF SourceStall, DestinationStall, Stall, EmitNothing
  <1> QED BY <1>1, <1>2, <1>3 DEF EmitNothing

\* Where a slot that is not skipped leads, around the target and the branch.
LEMMA SlotSteps ==
    ASSUME NEW s \in Nat, ~SecondSlot(s)
    PROVE  LET p == s % 36
               t == s + SlotWidth(s)
               q == t % 36
           IN  /\ q \in 3 .. 19 <=> p = 1 \/ p \in 3 .. 18
               /\ q \in 14 .. 19 <=> p = 12 \/ p \in 14 .. 18
               /\ p = 1 => q = 3
               /\ p \in 3 .. 18 => q - p = t - s
               /\ p \in 12 .. 18 => t \div 36 = s \div 36
  BY DEF SecondSlot, SlotWidth, DoubleSlot

-----------------------------------------------------------------------------
(* The invariant.                                                           *)

LEMMA CompilersInvInit == CodegenInit => CompilersIInv
  <1> SUFFICES ASSUME CodegenInit PROVE CompilersIInv
    OBVIOUS
  <1>1. /\ sub_cycle = 0 /\ x86_pos = E!x86_prologue(WINABI)
        /\ ~a64_target /\ creg = NoRegister /\ ~aborted
    BY DEF CodegenInit, Init, CompilersInit
  <1>2. CodeGrows
    BY <1>1 DEF CodeGrows, Slack, E!x86_prologue
  <1>3. TargetNear /\ WideInFlight
    BY <1>1 DEF TargetNear, WideInFlight
  <1> QED BY <1>2, <1>3 DEF CompilersIInv

LEMMA CompilersInvIdle ==
    ASSUME IInv, CompilersIInv, EmitNothing
    PROVE  CompilersIInv'
  <1>1. /\ registers' = registers
        /\ UNCHANGED <<x86_pos, x86_target, a64_target, creg, aborted>>
        /\ \/ sub_cycle' = sub_cycle /\ skipped' = skipped
           \/ sub_cycle' = sub_cycle + 3 /\ skipped'
    BY IdleStep DEF compilers
  <1>2. sub_cycle \in Nat /\ E!x86_prologue(WINABI) \in Nat
    BY DEF IInv, TypeOK, E!x86_prologue
  <1>3. CASE sub_cycle' = sub_cycle /\ skipped' = skipped
    BY <1>1, <1>3 DEF CompilersIInv, CodeGrows, TargetNear, WideInFlight
  <1>4. CASE sub_cycle' = sub_cycle + 3 /\ skipped'
    <2>1. Slack(sub_cycle') = Slack(sub_cycle) /\ Slack(sub_cycle) \in 0 .. 2
      BY <1>2, <1>4 DEF Slack
    <2>2. CodeGrows'
      BY <1>1, <1>2, <1>4, <2>1 DEF CompilersIInv, CodeGrows
    <2> QED BY <1>4, <2>2 DEF CompilersIInv, TargetNear, WideInFlight
  <1> QED BY <1>1, <1>3, <1>4

LEMMA CodeGrowsStep ==
    ASSUME IInv, CodeGrows, NEW tpl \in select_template, NEW par, NEW dst,
           Emit(tpl, par, dst), CompileX86(tpl.type)
    PROVE  CodeGrows'
  <1> DEFINE size == E!x86_size(tpl.type)
             prologue == E!x86_prologue(WINABI)
  <1>1. sub_cycle \in Nat /\ sub_cycle' = sub_cycle + SlotWidth(sub_cycle)
    BY EmitStep
  <1>2. tpl.type \in OpcodesAt(sub_cycle % 36)
    BY EmitStep, OfferedOpcode
  <1>3. /\ size \in Nat /\ sub_cycle' \in Nat
        /\ size - Slack(sub_cycle) <= 6 * (sub_cycle' - sub_cycle) - Slack(sub_cycle')
    BY <1>1, <1>2, SlotSize
  <1>4. x86_pos' = x86_pos + size /\ x86_pos \in Nat
    BY DEF CompileX86, CodeGrows
  <1>5. /\ x86_pos <= prologue + 6 * sub_cycle - Slack(sub_cycle)
        /\ prologue \in Nat
    BY DEF CodeGrows, E!x86_prologue
  <1>6. Slack(sub_cycle) \in 0 .. 2 /\ Slack(sub_cycle') \in 0 .. 2
    BY DEF Slack
  <1> HIDE DEF size, prologue
  <1>7. x86_pos' \in Nat /\ x86_pos' <= prologue + 6 * sub_cycle' - Slack(sub_cycle')
    BY <1>1, <1>3, <1>4, <1>5, <1>6
  <1> QED BY <1>7 DEF CodeGrows, prologue

LEMMA TargetNearStep ==
    ASSUME IInv, CodeGrows, TargetNear, NEW tpl \in select_template, NEW par, NEW dst,
           Emit(tpl, par, dst), CompileX86(tpl.type)
    PROVE  TargetNear'
  <1> DEFINE size == E!x86_size(tpl.type)
             slot == sub_cycle % 36
             next == sub_cycle' % 36
  <1> SUFFICES ASSUME ~skipped', next \in 3 .. 19
               PROVE  /\ x86_target' \in Nat
                      /\ x86_pos' <= x86_target' + 5 + 6 * (next - 3) - Slack(sub_cycle')
    BY DEF TargetNear
  <1>1. /\ sub_cycle \in Nat /\ sub_cycle' = sub_cycle + SlotWidth(sub_cycle)
        /\ ~skipped /\ ~SecondSlot(sub_cycle)
    BY EmitStep
  <1>2. tpl.type \in OpcodesAt(slot)
    BY EmitStep, OfferedOpcode
  <1>3. /\ size \in Nat /\ sub_cycle' \in Nat
        /\ size - Slack(sub_cycle) <= 6 * (sub_cycle' - sub_cycle) - Slack(sub_cycle')
        /\ slot = 1 => size = 5
    BY <1>1, <1>2, SlotSize
  <1>4. /\ slot = 1 \/ slot \in 3 .. 18
        /\ slot = 1 => next = 3
        /\ slot \in 3 .. 18 => next - slot = sub_cycle' - sub_cycle
    BY <1>1, SlotSteps
  <1>5. /\ x86_pos' = x86_pos + size /\ x86_pos \in Nat
        /\ x86_target' = IF tpl.type = "TARGET" THEN x86_pos ELSE x86_target
    BY DEF CompileX86, CodeGrows
  <1>6. Slack(sub_cycle) \in 0 .. 2 /\ Slack(sub_cycle') \in 0 .. 2
    BY DEF Slack
  <1> HIDE DEF size
  <1>7. CASE slot = 1
    <2>1. tpl.type = "TARGET"
      BY <1>2, <1>7 DEF OpcodesAt
    <2>2. sub_cycle' % 3 = 0
      <3>1. sub_cycle' % 36 = 3
        BY <1>4, <1>7
      <3>2. \A n \in Nat : n % 36 = 3 => n % 3 = 0
        OBVIOUS
      <3> QED BY <1>3, <3>1, <3>2
    <2>3. Slack(sub_cycle') = 0
      BY <2>2 DEF Slack
    <2>4. size = 5 /\ next = 3
      BY <1>3, <1>4, <1>7
    <2>5. x86_target' = x86_pos /\ x86_pos' = x86_pos + 5 /\ x86_pos \in Nat
      BY <1>5, <2>1, <2>4
    <2> HIDE DEF slot, next
    <2> QED BY <2>3, <2>4, <2>5
  <1>8. CASE slot \in 3 .. 18
    <2>1. tpl.type # "TARGET"
      BY <1>2, <1>8 DEF OpcodesAt
    <2>2. /\ x86_target \in Nat
          /\ x86_pos <= x86_target + 5 + 6 * (slot - 3) - Slack(sub_cycle)
      BY <1>1, <1>8 DEF TargetNear
    <2> HIDE DEF slot, next
    <2> QED BY <1>1, <1>3, <1>4, <1>5, <1>6, <1>8, <2>1, <2>2
  <1> QED BY <1>4, <1>7, <1>8

LEMMA WideInFlightStep ==
    ASSUME IInv, WideInFlight, NEW tpl \in select_template, NEW src, NEW par,
           NEW dst \in select_destination(tpl, src, par, schedule_instr(tpl)),
           Emit(tpl, par, dst), CompileA64(tpl.type, dst)
    PROVE  WideInFlight'
  <1> DEFINE slot == sub_cycle % 36
             next == sub_cycle' % 36
             retires == 12 * (sub_cycle \div 36) + 8
  <1> SUFFICES ASSUME ~skipped'
               PROVE  WideInFlight'
    BY DEF WideInFlight
  <1>1. /\ sub_cycle \in Nat /\ sub_cycle' = sub_cycle + SlotWidth(sub_cycle)
        /\ ~skipped /\ ~SecondSlot(sub_cycle)
        /\ cycle \in Nat /\ schedule_instr(tpl) = cycle
    BY EmitStep
  <1>2. /\ tpl.type \in OpcodesAt(slot)
        /\ slot \notin {1, 19} => tpl.has_dst
    BY EmitStep, OfferedOpcode
  <1>3. /\ next \in 3 .. 19 <=> slot = 1 \/ slot \in 3 .. 18
        /\ next \in 14 .. 19 <=> slot = 12 \/ slot \in 14 .. 18
        /\ slot \in 12 .. 18 => sub_cycle' \div 36 = sub_cycle \div 36
    BY <1>1, SlotSteps
  <1>4. /\ ~aborted
        /\ a64_target <=> slot \in 3 .. 19
        /\ IF slot \in 14 .. 19
           THEN creg \in Registers /\ registers[creg].latency = retires
           ELSE creg = NoRegister
    BY <1>1 DEF WideInFlight
  <1>5. /\ a64_target' <=> tpl.type = "TARGET" \/ (a64_target /\ tpl.type # "BRANCH")
        /\ creg' = IF tpl.type = "BRANCH" THEN NoRegister
                   ELSE IF tpl.type \in {"UMULH_R", "SMULH_R"} /\ a64_target THEN dst
                   ELSE creg
        /\ aborted' <=> aborted \/ (tpl.type \in E!Arithmetic /\ creg = dst)
    BY DEF CompileA64, E!MultiplyHigh
  <1>6. slot \in 0 .. 35
    BY <1>1
  <1>7. tpl.has_dst => dst \in Registers /\ registers[dst].latency <= cycle
    BY <1>1 DEF select_destination, Ready
  <1>8. /\ slot \in 12 .. 19 => cycle < retires
        /\ slot = 12 => cycle + 4 = retires
        /\ retires \in Nat
    BY <1>1 DEF cycle
  <1> HIDE DEF slot, next, retires
  <1>9. tpl.has_dst => creg # dst
    <2>1. creg = NoRegister => creg \notin Registers
      BY ConstantsAssumption
    <2>2. slot \in 14 .. 19 => registers[creg].latency > cycle
      BY <1>1, <1>4, <1>8
    <2> QED BY <1>1, <1>4, <1>7, <1>8, <2>1, <2>2
  <1>10. ~aborted'
    <2>1. slot \in {1, 19} => tpl.type \notin E!Arithmetic
      BY <1>2 DEF OpcodesAt, E!Arithmetic
    <2> QED BY <1>2, <1>4, <1>5, <1>9, <2>1
  <1>11. a64_target' <=> next \in 3 .. 19
    <2>1. /\ tpl.type = "TARGET" <=> slot = 1
          /\ tpl.type = "BRANCH" <=> slot = 19
      BY <1>2, <1>6 DEF OpcodesAt
    <2>2. slot \in 3 .. 19 /\ slot # 19 <=> slot \in 3 .. 18
      BY <1>6
    <2> QED BY <1>3, <1>4, <1>5, <2>1, <2>2
  <1>r. tpl.has_dst =>
            /\ registers'[dst].latency = cycle + tpl.latency
            /\ \A r \in Registers : r # dst => registers'[r] = registers[r]
    <2>1. registers \in [Registers -> [latency : Nat,
                                      last_op : Groups \cup {NoInstr},
                                      last_op_par : OpPars]]
      BY DEF IInv, TypeOK
    <2>2. tpl.has_dst =>
            registers' = [registers EXCEPT ![dst] =
                [latency |-> cycle + tpl.latency, last_op |-> tpl.group,
                 last_op_par |-> par]]
      BY <1>1 DEF Emit, Retire
    <2> QED BY <1>7, <2>1, <2>2
  <1>12. ASSUME slot = 12
         PROVE  creg' \in Registers /\ registers'[creg'].latency = retires
    <2>1. tpl.type \in {"UMULH_R", "SMULH_R"} /\ tpl.has_dst
      BY <1>2, <1>12 DEF OpcodesAt
    <2>2. creg' = dst /\ dst \in Registers
      BY <1>4, <1>5, <1>7, <1>12, <2>1
    <2>3. tpl.latency = 4
      BY <1>1, <1>12, EmitStep, OfferedCounts DEF slot, DoubleSlot
    <2>4. registers'[dst].latency = cycle + 4
      BY <1>r, <2>1, <2>3
    <2> QED BY <1>8, <1>12, <2>2, <2>4
  <1>13. ASSUME slot \in 14 .. 18
         PROVE  creg' \in Registers /\ registers'[creg'].latency = retires
    <2>1. tpl.type \notin {"UMULH_R", "SMULH_R", "BRANCH"} /\ tpl.has_dst
      BY <1>2, <1>13 DEF OpcodesAt
    <2>2. creg' = creg /\ creg \in Registers /\ registers[creg].latency = retires
      BY <1>4, <1>5, <1>13, <2>1
    <2>3. registers'[creg] = registers[creg]
      BY <1>9, <1>r, <2>1, <2>2
    <2> QED BY <2>2, <2>3
  <1>14. ASSUME slot \notin 14 .. 18, slot # 12
         PROVE  creg' = NoRegister
    <2>1. CASE slot = 19
      BY <1>2, <1>5, <2>1 DEF OpcodesAt
    <2>2. CASE slot \notin 14 .. 19
      <3>1. creg = NoRegister
        BY <1>4, <2>2
      <3>2. tpl.type \in {"UMULH_R", "SMULH_R"} => ~a64_target
        BY <1>2, <1>4, <1>6, <1>14 DEF OpcodesAt
      <3> QED BY <1>5, <3>1, <3>2
    <2> QED BY <1>6, <1>14, <2>1, <2>2
  <1>15. IF next \in 14 .. 19
         THEN /\ creg' \in Registers
              /\ registers'[creg'].latency = 12 * (sub_cycle' \div 36) + 8
         ELSE creg' = NoRegister
    <2>1. CASE slot = 12 \/ slot \in 14 .. 18
      <3>1. creg' \in Registers /\ registers'[creg'].latency = retires
        BY <1>12, <1>13, <2>1
      <3>2. sub_cycle' \div 36 = sub_cycle \div 36
        BY <1>3, <2>1
      <3> QED BY <1>3, <2>1, <3>1, <3>2 DEF retires
    <2>2. CASE ~(slot = 12 \/ slot \in 14 .. 18)
      BY <1>3, <1>14, <2>2
    <2> QED BY <2>1, <2>2
  <1> QED BY <1>10, <1>11, <1>15 DEF WideInFlight, next

LEMMA CompilersInvNext ==
    ASSUME IInv, CompilersIInv, [CodegenNext]_<<vars, compilers>>
    PROVE  IInv' /\ CompilersIInv'
  <1>1. [Next]_vars
    BY GeneratorSteps
  <1>2. IInv'
    BY <1>1, InvNext
  <1>3. CASE EmitNothing
    BY <1>2, <1>3, CompilersInvIdle
  <1>4. CASE \E tpl \in select_template : EmitAndCompile(tpl)
    <2>1. PICK tpl \in select_template : EmitAndCompile(tpl)
      BY <1>4
    <2>2. PICK src, par :
            \E dst \in select_destination(tpl, src, par, schedule_instr(tpl)) :
                Emit(tpl, par, dst) /\ CompileX86(tpl.type) /\ CompileA64(tpl.type, dst)
      BY <2>1 DEF EmitAndCompile
    <2>3. PICK dst \in select_destination(tpl, src, par, schedule_instr(tpl)) :
            Emit(tpl, par, dst) /\ CompileX86(tpl.type) /\ CompileA64(tpl.type, dst)
      BY <2>2
    <2> QED BY <1>2, <2>3, CodeGrowsStep, TargetNearStep, WideInFlightStep
            DEF CompilersIInv
  <1>5. CASE UNCHANGED <<vars, compilers>>
    <2>1. UNCHANGED <<sub_cycle, registers, skipped, x86_pos, x86_target,
                      a64_target, creg, aborted>>
      BY <1>5 DEF vars, ctx, compilers
    <2> QED BY <1>2, <2>1 DEF CompilersIInv, CodeGrows, TargetNear, WideInFlight
  <1> QED BY <1>3, <1>4, <1>5 DEF CodegenNext

\* The generator keeps its invariant, whatever the compilers do with it, and
\* theirs: how much code there is, how far the target is behind, and which
\* register is in flight until the branch.
THEOREM CompilersInvariant == CodegenSpec => [](IInv /\ CompilersIInv)
  <1>1. CodegenInit => IInv /\ CompilersIInv
    BY InvInit, CompilersInvInit DEF CodegenInit
  <1>2. IInv /\ CompilersIInv /\ [CodegenNext]_<<vars, compilers>> =>
            (IInv /\ CompilersIInv)'
    BY CompilersInvNext
  <1> QED BY <1>1, <1>2, PTL DEF CodegenSpec

-----------------------------------------------------------------------------
(* The properties.                                                          *)

\* The x86 code takes at most six bytes per sub-cycle.
THEOREM CodeAlwaysFits == CodegenSpec => []CodeFits
  <1>1. IInv /\ CompilersIInv => CodeFits
    BY DEF IInv, TypeOK, CompilersIInv, CodeGrows, CodeFits, Slack, E!x86_prologue
  <1> QED BY <1>1, CompilersInvariant, PTL

\* With the code's target cycle an accepted program and its epilogue fit the
\* buffer of compiler.h, which hashx_compile_x86 never checks.
THEOREM BufferSuffices ==
    TARGET_CYCLE = 192 =>
        (CodegenSpec =>
            [](~skipped => x86_pos + E!x86_epilogue(WINABI) <= E!COMP_CODE_SIZE))
  <1> SUFFICES ASSUME TARGET_CYCLE = 192
               PROVE  CodegenSpec =>
                        [](~skipped => x86_pos + E!x86_epilogue(WINABI) <= E!COMP_CODE_SIZE)
    OBVIOUS
  <1>1. IInv /\ CompilersIInv =>
            (~skipped => x86_pos + E!x86_epilogue(WINABI) <= E!COMP_CODE_SIZE)
    BY DEF IInv, TypeOK, Counted, CompilersIInv, CodeGrows, Slack,
           E!x86_prologue, E!x86_epilogue, E!COMP_CODE_SIZE
  <1> QED BY <1>1, CompilersInvariant, PTL

LEMMA BranchSlot ==
    ASSUME IInv, Offered(tpl_branch)
    PROVE  sub_cycle \in Nat /\ sub_cycle % 36 = 19
  <1>1. /\ sub_cycle \in Nat /\ attempt \in Nat /\ tpl_branch \in select_template
    BY ConstantTypes DEF IInv, TypeOK, Offered
  <1>2. tpl_branch.type = "BRANCH" /\ tpl_branch.type \in OpcodesAt(sub_cycle % 36)
    BY <1>1, OfferedOpcode, TemplateTypes
  <1> QED BY <1>1, <1>2 DEF OpcodesAt

\* In the branch's slot the target is near and a register is kept.
LEMMA AtTheBranch ==
    ASSUME IInv, CompilersIInv, ~skipped, sub_cycle % 36 = 19
    PROVE  /\ x86_target # NoTarget /\ x86_pos + 8 - x86_target <= 128
           /\ creg \in Registers
  <1>1. /\ x86_target \in Nat /\ x86_pos \in Nat
        /\ x86_pos <= x86_target + 5 + 6 * ((sub_cycle % 36) - 3) - Slack(sub_cycle)
    BY DEF CompilersIInv, CodeGrows, TargetNear
  <1>2. Slack(sub_cycle) \in 0 .. 2 /\ sub_cycle \in Nat
    BY DEF Slack, IInv, TypeOK
  <1>3. creg \in Registers
    BY DEF CompilersIInv, WideInFlight
  <1> QED BY <1>1, <1>2, <1>3 DEF NoTarget

\* The register the A64 branch reads is not written before it: no assertion of
\* hashx_compile_a64 fails for an accepted program.
THEOREM TestedRegisterAlwaysKept == CodegenSpec => []TestedRegisterKept
  <1>1. ASSUME IInv, CompilersIInv, ~skipped
        PROVE  ~aborted /\ (Offered(tpl_branch) => creg \in Registers)
    BY <1>1, BranchSlot DEF CompilersIInv, WideInFlight
  <1>2. IInv /\ CompilersIInv => TestedRegisterKept
    BY <1>1 DEF TestedRegisterKept
  <1> QED BY <1>2, CompilersInvariant, PTL

-----------------------------------------------------------------------------
(* The loops that draw again.                                               *)

\* Where the iteration is, and what it has drawn so far.
InLoop ==
    /\ loop # "template" =>
        /\ pc = "generate" /\ code_size < HASHX_PROGRAM_MAX_SIZE
        /\ template \in select_template
    /\ loop = "mask" => template.type = "BRANCH" /\ popcnt < LOG2_BRANCH_PROB
    /\ loop = "immediate" => LoopFor(template) = "immediate"

\* branch_mask counts the bits of the mask.
Counting ==
    /\ IsFiniteSet(mask) /\ popcnt = Cardinality(mask)
    /\ loop \in {"template", "immediate"} => popcnt < LOG2_BRANCH_PROB
    /\ loop = "immediate" => template.type # "BRANCH"
    /\ ImmediatesAreUsable

DInv == InLoop /\ Counting

LEMMA DrawTemplateKeeps ==
    ASSUME DInv, UNCHANGED vars, NEW byte \in U8Draws, DrawTemplate(byte)
    PROVE  DInv'
  <1> DEFINE item == program_layout(sub_cycle % LayoutSize)
             t == item.templates[TemplateIndex(item, byte) + 1]
  <1>1. CASE ~MayFollow(item, t)
    <2>1. UNCHANGED drawing
      BY <1>1 DEF DrawTemplate, drawing
    <2>2. select_template' = select_template
      BY DEF select_template, vars, ctx, TemplateIndex
    <2> QED BY <2>1, <2>2 DEF DInv, InLoop, Counting, ImmediatesAreUsable, MaskHasItsBits,
                         ConstantsAreUsable, Drawn, drawing, vars, ctx, LoopFor,
                         immediate_mask
  <1>2. CASE MayFollow(item, t)
    <2>1. /\ loop = "template" /\ pc = "generate" /\ code_size < HASHX_PROGRAM_MAX_SIZE
          /\ template' = t /\ loop' = LoopFor(t)
          /\ mask' = mask /\ popcnt' = popcnt /\ imm32' = imm32
      BY <1>2 DEF DrawTemplate
    <2>2. select_template' = select_template /\ t \in select_template
          /\ pc' = pc /\ code_size' = code_size
      BY <1>2 DEF select_template, MayFollow, vars, ctx, TemplateIndex
    <2> HIDE DEF t, item
    <2>3. UINT32_MAX # 0
      BY DrawingAssumption
    <2>4. /\ LoopFor(t) \in {"mask", "immediate", "drawn"}
          /\ LoopFor(t) = "mask" <=> t.type = "BRANCH"
          /\ LoopFor(t) = "drawn" => t.type \notin {"BRANCH", "ROR_C", "ADD_C", "XOR_C"}
      BY <2>3 DEF LoopFor, immediate_mask
    <2>5. popcnt < LOG2_BRANCH_PROB
      BY <2>1 DEF DInv, Counting
    <2>6. InLoop'
      BY <2>1, <2>2, <2>4, <2>5 DEF InLoop, LoopFor, immediate_mask
    <2>7. Counting'
      BY <2>1, <2>4, <2>5 DEF DInv, Counting, ImmediatesAreUsable, MaskHasItsBits,
                              ConstantsAreUsable, Drawn
    <2> QED BY <2>6, <2>7 DEF DInv
  <1> QED BY <1>1, <1>2

LEMMA DrawBitKeeps ==
    ASSUME DInv, UNCHANGED vars, NEW byte \in U8Draws, DrawBit(byte)
    PROVE  DInv'
  <1> DEFINE bit == byte % MASK_BITS
  <1>1. /\ loop = "mask" /\ loop' \in {"mask", "drawn"}
        /\ template' = template /\ template.type = "BRANCH" /\ imm32' = imm32
        /\ mask' = mask \cup {bit}
        /\ popcnt' = popcnt + (IF bit \in mask THEN 0 ELSE 1)
        /\ loop' = IF popcnt' < LOG2_BRANCH_PROB THEN "mask" ELSE "drawn"
    BY DEF DrawBit, DInv, InLoop
  <1>2. select_template' = select_template
    BY DEF select_template, vars, ctx, TemplateIndex
  <1>3. InLoop'
    BY <1>1, <1>2 DEF DInv, InLoop, vars, ctx
  <1> HIDE DEF bit
  <1>4. IsFiniteSet(mask') /\ popcnt' = Cardinality(mask')
    <2>1. CASE bit \in mask
      <3>1. mask' = mask
        BY <1>1, <2>1
      <3>2. Cardinality(mask) \in Nat
        BY FS_CardinalityType DEF DInv, Counting
      <3> QED BY <1>1, <2>1, <3>1, <3>2 DEF DInv, Counting
    <2>2. CASE bit \notin mask
      BY <1>1, <2>2, FS_AddElement DEF DInv, Counting
    <2> QED BY <2>1, <2>2
  <1>5. popcnt' = LOG2_BRANCH_PROB \/ loop' = "mask"
    <2>1. popcnt \in Nat /\ popcnt < LOG2_BRANCH_PROB
      BY <1>1, FS_CardinalityType DEF DInv, Counting, InLoop
    <2> QED BY <1>1, <2>1, DrawingAssumption
  <1> QED BY <1>1, <1>3, <1>4, <1>5 DEF DInv, Counting, ImmediatesAreUsable,
              MaskHasItsBits, ConstantsAreUsable, Drawn

LEMMA DrawImmediateKeeps ==
    ASSUME DInv, UNCHANGED vars, NEW word \in U32Draws, DrawImmediate(word)
    PROVE  DInv'
  <1>1. /\ loop = "immediate" /\ loop' \in {"immediate", "drawn"}
        /\ template' = template /\ mask' = mask /\ popcnt' = popcnt /\ template.type # "BRANCH"
        /\ imm32' = word % (immediate_mask(template) + 1)
        /\ imm32' = 0 /\ ~imm_can_be_0(template) => loop' = "immediate"
    BY DEF DrawImmediate, DInv, Counting
  <1>2. select_template' = select_template
    BY DEF select_template, vars, ctx, TemplateIndex
  <1>3. InLoop'
    BY <1>1, <1>2 DEF DInv, InLoop, vars, ctx, LoopFor, immediate_mask
  <1>4. word \in Nat /\ UINT32_MAX \in Nat
    BY DrawingAssumption
  <1>5. ASSUME template.type \in {"ROR_C", "ADD_C", "XOR_C"}, loop' = "drawn"
        PROVE  imm32' \in 1 .. (IF template.type = "ROR_C" THEN 63 ELSE UINT32_MAX)
    <2> DEFINE m == IF template.type = "ROR_C" THEN 63 ELSE UINT32_MAX
    <2>1. imm32' = word % (m + 1) /\ imm32' # 0
      BY <1>1, <1>5 DEF immediate_mask, imm_can_be_0
    <2>2. m \in Nat
      BY <1>4
    <2> HIDE DEF m
    <2>3. word % (m + 1) \in 0 .. m
      BY <1>4, <2>2
    <2> QED BY <2>1, <2>2, <2>3 DEF m
  <1> QED BY <1>1, <1>3, <1>5 DEF DInv, Counting, ImmediatesAreUsable,
              MaskHasItsBits, ConstantsAreUsable, Drawn

LEMMA DrawingKeeps ==
    IInv /\ DInv /\ [DrawingNext]_<<vars, drawing>> => DInv' /\ [Next]_vars
  <1> SUFFICES ASSUME IInv, DInv, [DrawingNext]_<<vars, drawing>>
               PROVE  DInv' /\ [Next]_vars
    OBVIOUS
  <1>1. CASE Draw
    BY <1>1, DrawTemplateKeeps, DrawBitKeeps, DrawImmediateKeeps DEF Draw
  <1>2. CASE UseTemplate
    <2>1. Next
      BY <1>2 DEF UseTemplate, DInv, InLoop, Next, Generate
    <2>2. DInv'
      BY <1>2, FS_EmptySet, DrawingAssumption
         DEF UseTemplate, DInv, InLoop, Counting, ImmediatesAreUsable,
             MaskHasItsBits, ConstantsAreUsable, Drawn
    <2> QED BY <2>1, <2>2
  <1>3. CASE Leave \/ (Terminated /\ UNCHANGED drawing)
    <2>1. Next /\ UNCHANGED drawing
      BY <1>3 DEF Leave, Next
    <2>2. loop = "template"
      <3>1. code_size \in Nat /\ HASHX_PROGRAM_MAX_SIZE \in Nat
        BY ConstantTypes DEF IInv, TypeOK
      <3> QED BY <1>3, <3>1 DEF Leave, Return, Terminated, DInv, InLoop
    <2> QED BY <2>1, <2>2 DEF drawing, DInv, InLoop, Counting,
                ImmediatesAreUsable, MaskHasItsBits, ConstantsAreUsable, Drawn
  <1>4. CASE UNCHANGED <<vars, drawing>>
    <2>1. select_template' = select_template
      BY <1>4 DEF select_template, vars, ctx, TemplateIndex
    <2> QED BY <1>4, <2>1 DEF drawing, vars, ctx, DInv, InLoop, Counting, LoopFor,
                immediate_mask,
                ImmediatesAreUsable, MaskHasItsBits, ConstantsAreUsable, Drawn
  <1> QED BY <1>1, <1>2, <1>3, <1>4 DEF DrawingNext

LEMMA DrawingInvariant == DrawingSpec => [](IInv /\ DInv)
  <1>1. DrawingInit => IInv /\ DInv
    BY FS_EmptySet, DrawingAssumption, InvInit
       DEF DrawingInit, DInv, InLoop, Counting, ImmediatesAreUsable,
           MaskHasItsBits, ConstantsAreUsable, Drawn
  <1>2. IInv /\ DInv /\ [DrawingNext]_<<vars, drawing>> => IInv' /\ DInv'
    BY DrawingKeeps, InvNext
  <1> QED BY <1>1, <1>2, PTL DEF DrawingSpec

\* Every branch mask that is used has LOG2_BRANCH_PROB bits, whichever of them
\* are drawn twice, and every constant is one its instruction does something with.
THEOREM ImmediatesAlwaysUsable == DrawingSpec => []ImmediatesAreUsable
  <1>1. DInv => ImmediatesAreUsable
    BY DEF DInv, Counting
  <1> QED BY <1>1, DrawingInvariant, PTL

\* The loops that draw again end with just what Program chooses from: no sequence
\* of draws makes an iteration Program does not have.
THEOREM DrawingImplementsProgram == DrawingSpec => DrawsAreChoices
  <1>1. DrawingInit => Init
    BY DEF DrawingInit
  <1> QED BY <1>1, DrawingKeeps, DrawingInvariant, PTL DEF DrawingSpec, DrawsAreChoices

\* So what is proved of Program holds of the loops: no template they draw is
\* ever delayed by a busy port.
THEOREM DrawnIsNeverDelayed == DrawingSpec => []NoPortDelay
  <1>1. IInv => NoPortDelay
    BY CycleType, NotDelayed, MapFacts DEF IInv, TypeOK, NoPortDelay, PORT_MAP_SIZE
  <1> QED BY <1>1, DrawingInvariant, PTL

-----------------------------------------------------------------------------
(* The program that is handed over.                                         *)

\* Where the x86 code of each instruction starts.
Placed(prog, p) ==
    /\ p \in [1 .. Len(prog) + 1 -> Nat]
    /\ \A n \in 1 .. Len(prog) : p[n + 1] = p[n] + E!x86_size(prog[n].opcode)

TargetAt(prog, j) ==
    /\ j \in 1 .. Len(prog) /\ prog[j].opcode = "TARGET"
    /\ \A n \in j + 1 .. Len(prog) : prog[n].opcode # "TARGET"

\* No branch has come since some target.
Open(prog) ==
    \E j \in 1 .. Len(prog) :
        /\ prog[j].opcode = "TARGET"
        /\ \A k \in j .. Len(prog) : prog[k].opcode # "BRANCH"

\* The multiplication the next branch would test.
KeptAt(prog, m) ==
    /\ m \in 1 .. Len(prog) /\ E!Watched(prog, m, Len(prog) + 1)
    /\ \A l \in m + 1 .. Len(prog) : prog[l].opcode \notin E!MultiplyHigh

\* The compilers' variables are those of a pass over the program so far.
Positions ==
    \E p : /\ Placed(code, p)
           /\ x86_pos = p[Len(code) + 1]
           /\ x86_target # NoTarget => \E j : TargetAt(code, j) /\ x86_target = p[j]

Tested ==
    /\ a64_target <=> Open(code)
    /\ creg # NoRegister => \E m : KeptAt(code, m) /\ code[m].dst = creg
    /\ creg = NoRegister => \A m \in 1 .. Len(code) : ~E!Watched(code, m, Len(code) + 1)

HandedOver ==
    ~skipped =>
        /\ code \in Seq(Instructions) /\ Len(code) = code_size
        /\ E!X86Compilable(code) /\ E!A64Compilable(code)
        /\ Positions /\ Tested

LEMMA Appending ==
    ASSUME NEW prog \in Seq(Instructions), NEW instr \in Instructions
    PROVE  /\ Len(prog) \in Nat
           /\ Append(prog, instr) \in Seq(Instructions)
           /\ Len(Append(prog, instr)) = Len(prog) + 1
           /\ DOMAIN Append(prog, instr) = 1 .. Len(prog) + 1
           /\ \A k \in 1 .. Len(prog) : Append(prog, instr)[k] = prog[k]
           /\ Append(prog, instr)[Len(prog) + 1] = instr
  OBVIOUS

LEMMA InstructionSizes ==
    ASSUME NEW instr \in Instructions
    PROVE  E!x86_size(instr.opcode) \in Nat
  <1>1. instr.opcode \in E!Opcodes
    BY DEF Instructions, E!Opcodes, E!MultiplyHigh, E!Arithmetic
  <1> QED BY <1>1 DEF E!x86_size

LEMMA BranchMask ==
    ASSUME NEW instr \in Instructions, instr.opcode = "BRANCH"
    PROVE  instr.imm32 # {}
  <1>1. instr \notin [opcode : E!MultiplyHigh \cup E!Arithmetic, dst : Registers, imm32 : {{}}]
    BY DEF E!MultiplyHigh, E!Arithmetic
  <1>2. instr \notin [opcode : {"TARGET"}, dst : {NoRegister}, imm32 : {{}}]
    OBVIOUS
  <1>3. instr \in [opcode : {"BRANCH"}, dst : {NoRegister}, imm32 : Masks]
    BY <1>1, <1>2 DEF Instructions
  <1>4. instr.imm32 \in Masks
    BY <1>3
  <1> QED BY <1>4, PipelineAssumption

\* The sum of the sizes is the distance of the positions.
LEMMA BetweenIs ==
    ASSUME NEW prog, NEW p, NEW j \in Nat, NEW k \in Nat, j <= k,
           \A n \in j .. k : p[n] \in Nat,
           \A n \in j .. k - 1 : /\ E!x86_size(prog[n].opcode) \in Nat
                                 /\ p[n + 1] = p[n] + E!x86_size(prog[n].opcode)
    PROVE  E!Between(prog, j, k) = p[k] - p[j]
  <1> DEFINE Is(f) == f = [n \in j .. k |->
                              IF n = j THEN 0
                              ELSE f[n - 1] + E!x86_size(prog[n - 1].opcode)]
             sum == CHOOSE f : Is(f)
             d == [n \in j .. k |-> p[n] - p[j]]
  <1>1. \A n \in j .. k : n # j =>
            /\ n - 1 \in j .. k /\ E!x86_size(prog[n - 1].opcode) \in Nat
            /\ p[n] = p[n - 1] + E!x86_size(prog[n - 1].opcode)
    <2> SUFFICES ASSUME NEW n \in j .. k, n # j
                 PROVE  /\ n - 1 \in j .. k /\ E!x86_size(prog[n - 1].opcode) \in Nat
                        /\ p[n] = p[n - 1] + E!x86_size(prog[n - 1].opcode)
      OBVIOUS
    <2>1. n - 1 \in j .. k - 1 /\ (n - 1) + 1 = n /\ n - 1 \in j .. k
      OBVIOUS
    <2> QED BY <2>1
  <1>2. Is(d)
    <2>1. ASSUME NEW n \in j .. k, n # j
          PROVE  d[n] = d[n - 1] + E!x86_size(prog[n - 1].opcode)
      <3>1. d[n] = p[n] - p[j] /\ d[n - 1] = p[n - 1] - p[j]
        BY <1>1, <2>1
      <3>2. p[n] \in Nat /\ p[n - 1] \in Nat /\ p[j] \in Nat
        BY <1>1, <2>1
      <3> HIDE DEF d
      <3> QED BY <1>1, <2>1, <3>1, <3>2
    <2>2. d[j] = 0
      OBVIOUS
    <2>3. d = [n \in j .. k |-> d[n]]
      OBVIOUS
    <2> HIDE DEF d
    <2> QED BY <2>1, <2>2, <2>3
  <1>3. Is(sum)
    <2> HIDE DEF Is, d
    <2> QED BY <1>2
  <1>4. E!Between(prog, j, k) = sum[k]
    BY DEF E!Between
  <1> HIDE DEF sum
  <1>5. /\ sum[j] = 0
        /\ \A n \in j .. k : n # j =>
                sum[n] = sum[n - 1] + E!x86_size(prog[n - 1].opcode)
    <2>1. \A n \in j .. k : sum[n] = IF n = j THEN 0
                                ELSE sum[n - 1] + E!x86_size(prog[n - 1].opcode)
      BY <1>3
    <2>2. j \in j .. k
      OBVIOUS
    <2> QED BY <2>1, <2>2
  <1> HIDE DEF d
  <1> DEFINE T == {n \in Nat : j + n <= k => sum[j + n] = p[j + n] - p[j]}
  <1>6. 0 \in T
    BY <1>5
  <1>7. ASSUME NEW n \in T PROVE n + 1 \in T
    <2>1. SUFFICES ASSUME j + (n + 1) <= k PROVE sum[j + (n + 1)] = p[j + (n + 1)] - p[j]
      OBVIOUS
    <2> DEFINE i == j + (n + 1)
    <2>2. i \in j .. k /\ i # j /\ i - 1 = j + n
      BY <2>1
    <2>3. sum[i - 1] = p[i - 1] - p[j]
      BY <2>1, <2>2
    <2> HIDE DEF i
    <2>4. sum[i] = sum[i - 1] + E!x86_size(prog[i - 1].opcode)
      BY <1>5, <2>2
    <2>5. /\ E!x86_size(prog[i - 1].opcode) \in Nat /\ i - 1 \in j .. k
          /\ p[i] = p[i - 1] + E!x86_size(prog[i - 1].opcode)
      BY <1>1, <2>2
    <2>6. p[i - 1] \in Nat /\ p[j] \in Nat
      BY <2>5
    <2>7. sum[i] = p[i] - p[j]
      BY <2>3, <2>4, <2>5, <2>6
    <2> QED BY <2>7 DEF i
  <1>8. T = Nat
    <2> HIDE DEF T
    <2>1. T \subseteq Nat
      BY DEF T
    <2> QED BY <1>6, <1>7, <2>1, NumbersInduction
  <1>9. k - j \in T /\ j + (k - j) = k
    <2> HIDE DEF T
    <2> QED BY <1>8
  <1>10. sum[j + (k - j)] = p[j + (k - j)] - p[j]
    BY <1>9
  <1> QED BY <1>4, <1>9, <1>10

LEMMA BetweenPlaced ==
    ASSUME NEW prog \in Seq(Instructions), NEW p, Placed(prog, p), NEW instr \in Instructions,
           NEW j \in 1 .. Len(prog) + 1, NEW k \in j .. Len(prog) + 1
    PROVE  /\ E!Between(prog, j, k) = p[k] - p[j]
           /\ E!Between(Append(prog, instr), j, k) = p[k] - p[j]
  <1>1. Len(prog) \in Nat /\ j \in Nat /\ k \in Nat /\ j <= k
    BY Appending
  <1>2. \A n \in j .. k : p[n] \in Nat
    BY <1>1 DEF Placed
  <1>3. ASSUME NEW n \in j .. k - 1
        PROVE  /\ n \in 1 .. Len(prog) /\ Append(prog, instr)[n] = prog[n]
               /\ E!x86_size(prog[n].opcode) \in Nat
               /\ p[n + 1] = p[n] + E!x86_size(prog[n].opcode)
    <2>1. n \in 1 .. Len(prog)
      BY <1>1
    <2>2. prog[n] \in Instructions
      BY <2>1
    <2> QED BY <2>1, <2>2, Appending, InstructionSizes DEF Placed
  <1>4. E!Between(prog, j, k) = p[k] - p[j]
    <2>1. \A n \in j .. k - 1 :
            /\ E!x86_size(prog[n].opcode) \in Nat
            /\ p[n + 1] = p[n] + E!x86_size(prog[n].opcode)
      BY <1>3
    <2> QED BY <1>1, <1>2, <2>1, BetweenIs
  <1>5. E!Between(Append(prog, instr), j, k) = p[k] - p[j]
    <2>1. \A n \in j .. k - 1 :
            /\ E!x86_size(Append(prog, instr)[n].opcode) \in Nat
            /\ p[n + 1] = p[n] + E!x86_size(Append(prog, instr)[n].opcode)
      BY <1>3
    <2> QED BY <1>1, <1>2, <2>1, BetweenIs
  <1> QED BY <1>4, <1>5


\* A branch that is appended behind a wide multiplication and near its target.
LEMMA X86Appended ==
    ASSUME NEW prog \in Seq(Instructions), NEW p, Placed(prog, p), NEW instr \in Instructions,
           E!X86Compilable(prog),
           instr.opcode = "BRANCH" =>
                /\ \E m \in 1 .. Len(prog) : prog[m].opcode \in E!MultiplyHigh
                /\ \E j : TargetAt(prog, j) /\ p[Len(prog) + 1] - p[j] + 8 <= 128
    PROVE  E!X86Compilable(Append(prog, instr))
  <1> DEFINE n == Len(prog)
             new == Append(prog, instr)
  <1>1. /\ n \in Nat /\ DOMAIN new = 1 .. n + 1
        /\ \A k \in 1 .. n : new[k] = prog[k]
        /\ new[n + 1] = instr
        /\ DOMAIN prog = 1 .. n
    BY Appending
  <1>2. \A j \in 1 .. n + 1 : \A k \in j .. n + 1 :
            /\ E!Between(prog, j, k) = p[k] - p[j]
            /\ E!Between(new, j, k) = p[k] - p[j]
    BY BetweenPlaced
  <1> SUFFICES ASSUME NEW k \in 1 .. n + 1, new[k].opcode = "BRANCH"
               PROVE  /\ new[k].imm32 # {}
                      /\ \E j \in 1 .. k : new[j].opcode \in E!MultiplyHigh
                      /\ \E j \in 1 .. k :
                            /\ new[j].opcode = "TARGET"
                            /\ \A m \in j + 1 .. k : new[m].opcode # "TARGET"
                            /\ E!Between(new, j, k) + 8 <= 128
    BY <1>1 DEF E!X86Compilable
  <1> HIDE DEF n, new
  <1>3. CASE k \in 1 .. n
    <2>1. /\ prog[k].imm32 # {}
          /\ \E j \in 1 .. k : prog[j].opcode \in E!MultiplyHigh
          /\ \E j \in 1 .. k :
                /\ prog[j].opcode = "TARGET"
                /\ \A m \in j + 1 .. k : prog[m].opcode # "TARGET"
                /\ E!Between(prog, j, k) + 8 <= 128
      BY <1>1, <1>3 DEF E!X86Compilable
    <2>2. \A j \in 1 .. k : j \in 1 .. n /\ k \in j .. n + 1
      BY <1>1, <1>3
    <2>3. \E j \in 1 .. k : new[j].opcode \in E!MultiplyHigh
      BY <1>1, <2>1, <2>2
    <2>4. PICK j \in 1 .. k :
            /\ prog[j].opcode = "TARGET"
            /\ \A m \in j + 1 .. k : prog[m].opcode # "TARGET"
            /\ E!Between(prog, j, k) + 8 <= 128
      BY <2>1
    <2>5. E!Between(new, j, k) = E!Between(prog, j, k)
      BY <1>1, <1>2, <2>2
    <2>6. \A m \in j + 1 .. k : m \in 1 .. n
      BY <1>1, <1>3
    <2> QED BY <1>1, <1>3, <2>1, <2>2, <2>3, <2>4, <2>5, <2>6
  <1>4. CASE k = n + 1
    <2>1. instr.opcode = "BRANCH" /\ instr.imm32 # {}
      BY <1>1, <1>4, BranchMask
    <2>2. PICK m \in 1 .. n : prog[m].opcode \in E!MultiplyHigh
      BY <2>1 DEF n
    <2>3. PICK j : TargetAt(prog, j) /\ p[n + 1] - p[j] + 8 <= 128
      BY <2>1 DEF n
    <2>4. /\ j \in 1 .. n /\ prog[j].opcode = "TARGET"
          /\ \A l \in j + 1 .. n : prog[l].opcode # "TARGET"
      BY <2>3 DEF TargetAt, n
    <2>5. \A l \in j + 1 .. k : new[l].opcode # "TARGET"
      BY <1>1, <1>4, <2>1, <2>4
    <2>6. E!Between(new, j, k) = p[n + 1] - p[j]
      BY <1>1, <1>2, <1>4, <2>4
    <2> QED BY <1>1, <1>4, <2>1, <2>2, <2>3, <2>4, <2>5, <2>6
  <1> QED BY <1>1, <1>3, <1>4

\* An instruction more, and what is watched.
LEMMA WatchedAppended ==
    ASSUME NEW prog \in Seq(Instructions), NEW instr \in Instructions
    PROVE  LET new == Append(prog, instr)
               n == Len(prog)
           IN  /\ \A k \in 1 .. n + 1 : \A m \in 1 .. k - 1 :
                    E!Watched(new, m, k) <=> E!Watched(prog, m, k)
               /\ instr.opcode = "BRANCH" =>
                    ~Open(new) /\ \A m \in 1 .. n + 1 : ~E!Watched(new, m, n + 2)
               /\ instr.opcode # "BRANCH" =>
                    /\ Open(new) <=> instr.opcode = "TARGET" \/ Open(prog)
                    /\ E!Watched(new, n + 1, n + 2) <=>
                            instr.opcode \in E!MultiplyHigh /\ Open(prog)
                    /\ \A m \in 1 .. n :
                            E!Watched(new, m, n + 2) <=> E!Watched(prog, m, n + 1)
  <1> DEFINE new == Append(prog, instr)
             n == Len(prog)
  <1>1. /\ n \in Nat /\ Len(new) = n + 1
        /\ \A k \in 1 .. n : new[k] = prog[k]
        /\ new[n + 1] = instr
    BY Appending
  <1> HIDE DEF new
  <1>2. ASSUME NEW k \in 1 .. n + 1, NEW m \in 1 .. k - 1
        PROVE  E!Watched(new, m, k) <=> E!Watched(prog, m, k)
    <2>1. \A l \in 1 .. k - 1 : new[l] = prog[l]
      BY <1>1
    <2>2. \A j \in 1 .. m - 1 : j \in 1 .. k - 1 /\ \A l \in j .. k - 1 : l \in 1 .. k - 1
      BY <1>1
    <2> HIDE DEF n
    <2> QED BY <2>1, <2>2 DEF E!Watched
  <1>3. ASSUME instr.opcode = "BRANCH"
        PROVE  ~Open(new) /\ \A m \in 1 .. n + 1 : ~E!Watched(new, m, n + 2)
    <2>1. \A j \in 1 .. n + 1 : n + 1 \in j .. n + 1
      BY <1>1
    <2>2. (n + 2) - 1 = n + 1 /\ \A m \in 1 .. n + 1 : \A j \in 1 .. m - 1 : j \in 1 .. n + 1
      BY <1>1
    <2> HIDE DEF n
    <2>3. ~Open(new)
      BY <1>1, <1>3, <2>1 DEF Open
    <2>4. ASSUME NEW m \in 1 .. n + 1 PROVE ~E!Watched(new, m, n + 2)
      BY <1>1, <1>3, <2>1, <2>2 DEF E!Watched
    <2> QED BY <2>3, <2>4
  <1>4. ASSUME instr.opcode # "BRANCH"
        PROVE  /\ Open(new) <=> instr.opcode = "TARGET" \/ Open(prog)
               /\ E!Watched(new, n + 1, n + 2) <=>
                        instr.opcode \in E!MultiplyHigh /\ Open(prog)
               /\ \A m \in 1 .. n : E!Watched(new, m, n + 2) <=> E!Watched(prog, m, n + 1)
    <2>1. /\ (n + 2) - 1 = n + 1 /\ (n + 1) - 1 = n /\ n + 1 \in 1 .. n + 1
          /\ \A j \in 1 .. n + 1 : j \in 1 .. n \/ j = n + 1
          /\ \A j \in 1 .. n : j \in 1 .. n + 1
          /\ \A j \in 1 .. n : \A l \in j .. n + 1 : l \in j .. n \/ l = n + 1
          /\ \A j \in 1 .. n : \A l \in j .. n : l \in j .. n + 1 /\ l \in 1 .. n
          /\ \A l \in n + 1 .. n + 1 : l = n + 1
      BY <1>1
    <2>2. \A m \in 1 .. n : \A j \in 1 .. m - 1 : j \in 1 .. n
      BY <1>1
    <2> HIDE DEF n
    <2>3. \A j \in 1 .. n :
            (\A l \in j .. n + 1 : new[l].opcode # "BRANCH")
                <=> (\A l \in j .. n : prog[l].opcode # "BRANCH")
      BY <1>1, <1>4, <2>1
    <2>4. Open(prog) <=> \E j \in 1 .. n :
                            /\ prog[j].opcode = "TARGET"
                            /\ \A l \in j .. n : prog[l].opcode # "BRANCH"
      BY DEF Open, n
    <2>5. Open(new) <=> \E j \in 1 .. n + 1 :
                            /\ new[j].opcode = "TARGET"
                            /\ \A l \in j .. n + 1 : new[l].opcode # "BRANCH"
      BY <1>1 DEF Open
    <2>6. Open(new) <=> instr.opcode = "TARGET" \/ Open(prog)
      BY <1>1, <1>4, <2>1, <2>3, <2>4, <2>5
    <2>7. E!Watched(new, n + 1, n + 2) <=> instr.opcode \in E!MultiplyHigh /\ Open(prog)
      <3>1. E!Watched(new, n + 1, n + 2) <=>
                /\ instr.opcode \in E!MultiplyHigh
                /\ \E j \in 1 .. n :
                    /\ new[j].opcode = "TARGET"
                    /\ \A l \in j .. n + 1 : new[l].opcode # "BRANCH"
        BY <1>1, <2>1 DEF E!Watched
      <3> QED BY <1>1, <2>3, <2>4, <3>1
    <2>8. ASSUME NEW m \in 1 .. n
          PROVE  E!Watched(new, m, n + 2) <=> E!Watched(prog, m, n + 1)
      <3>1. E!Watched(new, m, n + 2) <=>
                /\ prog[m].opcode \in E!MultiplyHigh
                /\ \E j \in 1 .. m - 1 :
                    /\ prog[j].opcode = "TARGET"
                    /\ \A l \in j .. n + 1 : new[l].opcode # "BRANCH"
        BY <1>1, <2>1, <2>2 DEF E!Watched
      <3>2. E!Watched(prog, m, n + 1) <=>
                /\ prog[m].opcode \in E!MultiplyHigh
                /\ \E j \in 1 .. m - 1 :
                    /\ prog[j].opcode = "TARGET"
                    /\ \A l \in j .. n : prog[l].opcode # "BRANCH"
        BY <2>1 DEF E!Watched
      <3> QED BY <2>2, <2>3, <3>1, <3>2
    <2> QED BY <2>6, <2>7, <2>8
  <1> QED BY <1>2, <1>3, <1>4 DEF new

\* An instruction appended that keeps the register the next branch tests, or a
\* branch that has one to test.
LEMMA A64Appended ==
    ASSUME NEW prog \in Seq(Instructions), NEW instr \in Instructions,
           E!A64Compilable(prog), Len(prog) < E!MAX_INSTRUCTIONS,
           instr.opcode \in E!Arithmetic =>
                \A m : KeptAt(prog, m) => prog[m].dst # instr.dst,
           instr.opcode = "BRANCH" => \E m : KeptAt(prog, m)
    PROVE  E!A64Compilable(Append(prog, instr))
  <1> DEFINE n == Len(prog)
             new == Append(prog, instr)
  <1>1. /\ n \in Nat /\ Len(new) = n + 1 /\ DOMAIN new = 1 .. n + 1
        /\ \A k \in 1 .. n : new[k] = prog[k]
        /\ new[n + 1] = instr
        /\ DOMAIN prog = 1 .. n
    BY Appending
  <1>2. \A k \in 1 .. n + 1 : \A m \in 1 .. k - 1 :
            E!Watched(new, m, k) <=> E!Watched(prog, m, k)
    BY WatchedAppended
  <1>3. Len(new) <= E!MAX_INSTRUCTIONS
    BY <1>1 DEF E!MAX_INSTRUCTIONS
  <1> SUFFICES ASSUME NEW k \in 1 .. n + 1
               PROVE  /\ new[k].opcode \in E!Arithmetic =>
                            \A m \in 1 .. k - 1 : E!Watched(new, m, k) =>
                                \/ new[m].dst # new[k].dst
                                \/ \E l \in m + 1 .. k - 1 : new[l].opcode \in E!MultiplyHigh
                      /\ new[k].opcode = "BRANCH" =>
                            /\ new[k].imm32 # {}
                            /\ \E m \in 1 .. k - 1 : E!Watched(new, m, k)
    BY <1>1, <1>3 DEF E!A64Compilable
  <1> HIDE DEF new
  <1>4. \A m \in 1 .. k - 1 : m \in 1 .. n /\ new[m] = prog[m]
    BY <1>1
  <1>5. CASE k \in 1 .. n
    <2>1. /\ prog[k].opcode \in E!Arithmetic =>
            \A m \in 1 .. k - 1 : E!Watched(prog, m, k) =>
                \/ prog[m].dst # prog[k].dst
                \/ \E l \in m + 1 .. k - 1 : prog[l].opcode \in E!MultiplyHigh
          /\ prog[k].opcode = "BRANCH" =>
                /\ prog[k].imm32 # {}
                /\ \E m \in 1 .. k - 1 : E!Watched(prog, m, k)
      BY <1>1, <1>5 DEF E!A64Compilable
    <2>2. \A m \in 1 .. k - 1 : \A l \in m + 1 .. k - 1 : l \in 1 .. k - 1
      OBVIOUS
    <2>3. new[k] = prog[k]
      BY <1>1, <1>5
    <2> HIDE DEF n
    <2> QED BY <1>2, <1>4, <2>1, <2>2, <2>3
  <1>6. CASE k = n + 1
    <2>1. k - 1 = n /\ new[k] = instr
      BY <1>1, <1>6
    <2>2. ASSUME instr.opcode \in E!Arithmetic, NEW m \in 1 .. n, E!Watched(new, m, k)
          PROVE  \/ new[m].dst # instr.dst
                 \/ \E l \in m + 1 .. n : new[l].opcode \in E!MultiplyHigh
      <3>1. E!Watched(prog, m, n + 1)
        BY <1>2, <1>6, <2>1, <2>2
      <3>2. \A l \in m + 1 .. n : l \in 1 .. n /\ new[l] = prog[l]
        BY <1>1
      <3>3. ASSUME \A l \in m + 1 .. n : new[l].opcode \notin E!MultiplyHigh
            PROVE  KeptAt(prog, m)
        BY <3>1, <3>2, <3>3 DEF KeptAt
      <3> QED BY <1>1, <2>2, <3>3
    <2>3. ASSUME instr.opcode = "BRANCH"
          PROVE  instr.imm32 # {} /\ \E m \in 1 .. n : E!Watched(new, m, k)
      <3>1. instr.imm32 # {}
        BY <2>3, BranchMask
      <3>2. PICK m : KeptAt(prog, m)
        BY <2>3
      <3> QED BY <1>2, <1>6, <2>1, <3>1, <3>2 DEF KeptAt
    <2> HIDE DEF n
    <2> QED BY <2>1, <2>2, <2>3
  <1> QED BY <1>1, <1>5, <1>6


\* The compilers' variables move on with the program.
LEMMA PositionsAppended ==
    ASSUME NEW instr \in Instructions, code \in Seq(Instructions), Positions,
           code' = Append(code, instr), CompileX86(instr.opcode)
    PROVE  Positions'
  <1> DEFINE n == Len(code)
             size == E!x86_size(instr.opcode)
  <1>1. /\ n \in Nat /\ Len(code') = n + 1
        /\ \A k \in 1 .. n : code'[k] = code[k]
        /\ code'[n + 1] = instr
    BY Appending
  <1>2. PICK p : /\ Placed(code, p) /\ x86_pos = p[n + 1]
                 /\ x86_target # NoTarget => \E j : TargetAt(code, j) /\ x86_target = p[j]
    BY DEF Positions
  <1> DEFINE q == [k \in 1 .. n + 2 |-> IF k = n + 2 THEN p[n + 1] + size ELSE p[k]]
  <1>3. size \in Nat
    BY InstructionSizes
  <1>4. /\ p \in [1 .. n + 1 -> Nat]
        /\ \A k \in 1 .. n : p[k + 1] = p[k] + E!x86_size(code[k].opcode)
    BY <1>2 DEF Placed
  <1>5. x86_pos' = x86_pos + size
        /\ x86_target' = IF instr.opcode = "TARGET" THEN x86_pos ELSE x86_target
    BY DEF CompileX86
  <1> HIDE DEF size
  <1>6. q \in [1 .. n + 2 -> Nat] /\ q[n + 2] = p[n + 1] + size
        /\ \A k \in 1 .. n + 1 : q[k] = p[k]
    BY <1>1, <1>3, <1>4
  <1> HIDE DEF q
  <1>7. Placed(code', q)
    <2>1. ASSUME NEW k \in 1 .. n + 1
          PROVE  q[k + 1] = q[k] + E!x86_size(code'[k].opcode)
      <3>1. CASE k \in 1 .. n
        BY <1>1, <1>4, <1>6, <3>1
      <3>2. CASE k = n + 1
        BY <1>1, <1>6, <3>2 DEF size
      <3> QED BY <1>1, <3>1, <3>2
    <2>2. (n + 1) + 1 = n + 2
      BY <1>1
    <2> QED BY <1>1, <1>6, <2>1, <2>2 DEF Placed
  <1>8. x86_pos' = q[Len(code') + 1]
    <2>1. (n + 1) + 1 = n + 2
      BY <1>1
    <2> QED BY <1>1, <1>2, <1>5, <1>6, <2>1
  <1>9. ASSUME x86_target' # NoTarget
        PROVE  \E j : TargetAt(code', j) /\ x86_target' = q[j]
    <2>1. CASE instr.opcode = "TARGET"
      <3>1. TargetAt(code', n + 1)
        BY <1>1, <2>1 DEF TargetAt
      <3>2. x86_target' = q[n + 1]
        BY <1>1, <1>2, <1>5, <1>6, <2>1
      <3> QED BY <3>1, <3>2
    <2>2. CASE instr.opcode # "TARGET"
      <3>1. PICK j : TargetAt(code, j) /\ x86_target = p[j]
        BY <1>2, <1>5, <1>9, <2>2
      <3>2. /\ j \in 1 .. n /\ code[j].opcode = "TARGET"
            /\ \A k \in j + 1 .. n : code[k].opcode # "TARGET"
        BY <3>1 DEF TargetAt
      <3>3. \A k \in j + 1 .. n + 1 : k \in j + 1 .. n \/ k = n + 1
        BY <1>1
      <3>4. TargetAt(code', j)
        BY <1>1, <2>2, <3>2, <3>3 DEF TargetAt
      <3>5. x86_target' = q[j]
        BY <1>1, <1>5, <1>6, <2>2, <3>1, <3>2
      <3> QED BY <3>4, <3>5
    <2> QED BY <2>1, <2>2
  <1> QED BY <1>7, <1>8, <1>9 DEF Positions

LEMMA TestedAppended ==
    ASSUME NEW instr \in Instructions, code \in Seq(Instructions), Tested,
           code' = Append(code, instr), CompileA64(instr.opcode, instr.dst)
    PROVE  Tested'
  <1> DEFINE n == Len(code)
             mul == instr.opcode \in E!MultiplyHigh
  <1>1. /\ n \in Nat /\ Len(code') = n + 1
        /\ \A k \in 1 .. n : code'[k] = code[k]
        /\ code'[n + 1] = instr
    BY Appending
  <1>2. /\ instr.opcode = "BRANCH" =>
            ~Open(code') /\ \A m \in 1 .. n + 1 : ~E!Watched(code', m, n + 2)
        /\ instr.opcode # "BRANCH" =>
            /\ Open(code') <=> instr.opcode = "TARGET" \/ Open(code)
            /\ E!Watched(code', n + 1, n + 2) <=> mul /\ Open(code)
            /\ \A m \in 1 .. n : E!Watched(code', m, n + 2) <=> E!Watched(code, m, n + 1)
    BY WatchedAppended
  <1>3. /\ a64_target <=> Open(code)
        /\ creg # NoRegister => \E m : KeptAt(code, m) /\ code[m].dst = creg
        /\ creg = NoRegister => \A m \in 1 .. n : ~E!Watched(code, m, n + 1)
    BY DEF Tested
  <1>4. /\ a64_target' <=> (instr.opcode = "TARGET" \/ (a64_target /\ instr.opcode # "BRANCH"))
        /\ creg' = IF instr.opcode = "BRANCH" THEN NoRegister
                   ELSE IF mul /\ a64_target THEN instr.dst ELSE creg
    BY DEF CompileA64
  <1>5. mul => instr.dst # NoRegister /\ instr.opcode # "BRANCH"
    <2>1. mul => instr \in [opcode : E!MultiplyHigh \cup E!Arithmetic,
                            dst : Registers, imm32 : {{}}]
      BY DEF Instructions, E!MultiplyHigh
    <2> QED BY <2>1, ConstantsAssumption DEF E!MultiplyHigh
  <1>6. (n + 1) + 1 = n + 2 /\ n + 1 \in 1 .. n + 1
        /\ \A m \in 1 .. n + 1 : m \in 1 .. n \/ m = n + 1
    BY <1>1
  <1>7. a64_target' <=> Open(code')
    BY <1>2, <1>3, <1>4 DEF E!MultiplyHigh
  <1>8. ~Open(code) => \A m \in 1 .. n : ~E!Watched(code, m, n + 1)
    <2>1. (n + 1) - 1 = n /\ \A m \in 1 .. n : \A j \in 1 .. m - 1 : j \in 1 .. n
      BY <1>1
    <2> QED BY <2>1 DEF Open, E!Watched
  <1>9. ASSUME creg' # NoRegister
        PROVE  \E m : KeptAt(code', m) /\ code'[m].dst = creg'
    <2>1. CASE mul /\ a64_target
      <3>1. E!Watched(code', n + 1, n + 2)
        BY <1>2, <1>3, <1>5, <2>1
      <3>2. \A l \in (n + 1) + 1 .. n + 1 : FALSE
        BY <1>1
      <3>3. KeptAt(code', n + 1)
        BY <1>1, <1>6, <3>1, <3>2 DEF KeptAt
      <3>4. code'[n + 1].dst = creg'
        BY <1>1, <1>4, <1>5, <2>1
      <3> QED BY <3>3, <3>4
    <2>2. CASE ~(mul /\ a64_target)
      <3>1. instr.opcode # "BRANCH" /\ creg' = creg
        BY <1>4, <1>9, <2>2
      <3>2. PICK m : KeptAt(code, m) /\ code[m].dst = creg
        BY <1>3, <1>9, <3>1
      <3>3. /\ m \in 1 .. n /\ E!Watched(code, m, n + 1)
            /\ \A l \in m + 1 .. n : code[l].opcode \notin E!MultiplyHigh
        BY <3>2 DEF KeptAt
      <3>4. ~mul
        BY <1>3, <1>8, <2>2, <3>3
      <3>5. \A l \in m + 1 .. n + 1 : l = n + 1 \/ (l \in m + 1 .. n /\ l \in 1 .. n)
        BY <1>1, <3>3
      <3>6. KeptAt(code', m)
        <4>1. E!Watched(code', m, n + 2) /\ m \in 1 .. n + 1
          BY <1>1, <1>2, <3>1, <3>3
        <4>2. \A l \in m + 1 .. n + 1 : code'[l].opcode \notin E!MultiplyHigh
          BY <1>1, <3>3, <3>4, <3>5
        <4> QED BY <1>1, <1>6, <4>1, <4>2 DEF KeptAt
      <3> QED BY <1>1, <3>1, <3>2, <3>3, <3>6
    <2> QED BY <2>1, <2>2
  <1>10. ASSUME creg' = NoRegister, NEW m \in 1 .. n + 1
         PROVE  ~E!Watched(code', m, n + 2)
    <2>1. CASE instr.opcode = "BRANCH"
      BY <1>2, <2>1
    <2>2. CASE instr.opcode # "BRANCH"
      <3>1. ~(mul /\ a64_target) /\ creg = NoRegister
        BY <1>4, <1>5, <1>10, <2>2
      <3> QED BY <1>2, <1>3, <1>6, <2>2, <3>1
    <2> QED BY <2>1, <2>2
  <1> QED BY <1>1, <1>6, <1>7, <1>9, <1>10 DEF Tested

LEMMA PipelineSteps == PipelineNext => CodegenNext
  BY DEF PipelineNext, CodegenNext, EmitNothingIntoCode, EmitIntoCode, EmitAndCompile

\* What is appended is an instruction as the compilers see them.
LEMMA EmittedInstruction ==
    ASSUME sub_cycle \in Nat, attempt \in Nat, NEW tpl \in select_template,
           NEW src, NEW par, NEW dst \in select_destination(tpl, src, par, schedule_instr(tpl)),
           NEW instr \in instr_from_template(tpl, dst)
    PROVE  instr \in Instructions /\ instr.opcode = tpl.type /\ instr.dst = dst
  <1>1. /\ tpl.type \in OpcodesAt(sub_cycle % 36)
        /\ tpl.has_dst <=> sub_cycle % 36 \notin {1, 19}
    BY OfferedOpcode
  <1>2. IF tpl.has_dst THEN dst \in Registers ELSE dst = NoRegister
    BY DEF select_destination, Ready
  <1>3. instr \in [opcode : {tpl.type}, dst : {dst},
                   imm32 : IF tpl.type = "BRANCH" THEN Masks ELSE {{}}]
    BY DEF instr_from_template
  <1>4. CASE sub_cycle % 36 = 1
    BY <1>1, <1>2, <1>3, <1>4 DEF OpcodesAt, Instructions
  <1>5. CASE sub_cycle % 36 = 19
    BY <1>1, <1>2, <1>3, <1>5 DEF OpcodesAt, Instructions
  <1>6. CASE sub_cycle % 36 \notin {1, 19}
    <2>1. tpl.type \in E!MultiplyHigh \cup E!Arithmetic /\ tpl.type # "BRANCH"
      BY <1>1, <1>6 DEF OpcodesAt, E!MultiplyHigh, E!Arithmetic
    <2>2. dst \in Registers
      BY <1>1, <1>2, <1>6
    <2> QED BY <1>3, <2>1, <2>2 DEF Instructions
  <1> QED BY <1>4, <1>5, <1>6

\* Before it returns the generator accepts nothing.
Verdict == accepted => pc = "returned"

LEMMA VerdictNext ==
    ASSUME Verdict, [Next]_vars
    PROVE  Verdict'
  <1>1. CASE Generate
    BY <1>1 DEF Generate, TryTemplate, Unschedulable, SourceStall, DestinationStall,
                Overrun, Emit, Iteration, Verdict
  <1>2. CASE Return \/ Terminated \/ UNCHANGED vars
    BY <1>2 DEF Return, Terminated, vars, Verdict
  <1> QED BY <1>1, <1>2 DEF Next

LEMMA HandedOverInit == PipelineInit => HandedOver /\ Verdict
  <1> SUFFICES ASSUME PipelineInit PROVE HandedOver /\ Verdict
    OBVIOUS
  <1>1. /\ code = << >> /\ code_size = 0 /\ ~accepted
        /\ x86_pos = E!x86_prologue(WINABI) /\ x86_target = NoTarget
        /\ a64_target = FALSE /\ creg = NoRegister
    BY DEF PipelineInit, CodegenInit, Init, CompilersInit
  <1>2. /\ code \in Seq(Instructions) /\ Len(code) = 0 /\ \A n \in DOMAIN code : FALSE
    BY <1>1
  <1>3. E!X86Compilable(code) /\ E!A64Compilable(code)
    BY <1>2 DEF E!X86Compilable, E!A64Compilable, E!MAX_INSTRUCTIONS
  <1>4. Positions
    <2> DEFINE p == [n \in 1 .. 1 |-> x86_pos]
    <2>1. Placed(code, p) /\ x86_pos = p[Len(code) + 1]
      BY <1>1, <1>2 DEF Placed, E!x86_prologue
    <2> HIDE DEF p
    <2> QED BY <1>1, <2>1 DEF Positions
  <1>5. Tested
    BY <1>1, <1>2 DEF Tested, Open
  <1> QED BY <1>1, <1>2, <1>3, <1>4, <1>5 DEF HandedOver, Verdict

LEMMA HandedOverIdle ==
    ASSUME HandedOver, EmitNothingIntoCode
    PROVE  HandedOver'
  <1> SUFFICES ASSUME ~skipped' PROVE HandedOver'
    BY DEF HandedOver
  <1>1. ~skipped /\ code_size' = code_size /\ UNCHANGED compilers /\ code' = code
    BY IdleStep DEF EmitNothingIntoCode
  <1> QED BY <1>1 DEF HandedOver, Positions, Tested, compilers

\* In the branch's slot there are the target and the register the compilers
\* need; elsewhere the register in flight is not written.
LEMMA HandedOverEmit ==
    ASSUME IInv, CompilersIInv, IInv', CompilersIInv', HandedOver,
           NEW tpl \in select_template, EmitIntoCode(tpl)
    PROVE  HandedOver'
  <1> SUFFICES ASSUME ~skipped' PROVE HandedOver'
    BY DEF HandedOver
  <1>1. PICK src, par :
            \E dst \in select_destination(tpl, src, par, schedule_instr(tpl)) :
                /\ Emit(tpl, par, dst) /\ CompileX86(tpl.type) /\ CompileA64(tpl.type, dst)
                /\ \E instr \in instr_from_template(tpl, dst) :
                    code' = IF skipped THEN << >> ELSE Append(code, instr)
    BY DEF EmitIntoCode
  <1>2. PICK dst \in select_destination(tpl, src, par, schedule_instr(tpl)) :
            /\ Emit(tpl, par, dst) /\ CompileX86(tpl.type) /\ CompileA64(tpl.type, dst)
            /\ \E instr \in instr_from_template(tpl, dst) :
                code' = IF skipped THEN << >> ELSE Append(code, instr)
    BY <1>1
  <1>3. PICK instr \in instr_from_template(tpl, dst) :
            code' = IF skipped THEN << >> ELSE Append(code, instr)
    BY <1>2
  <1>4. /\ ~skipped /\ code_size' = code_size + 1
        /\ code_size < HASHX_PROGRAM_MAX_SIZE
    BY <1>2 DEF Emit, Iteration
  <1>5. /\ code' = Append(code, instr)
        /\ code \in Seq(Instructions) /\ Len(code) = code_size
        /\ E!X86Compilable(code) /\ E!A64Compilable(code)
        /\ Positions /\ Tested
    BY <1>3, <1>4 DEF HandedOver
  <1>6. instr \in Instructions /\ instr.opcode = tpl.type /\ instr.dst = dst
    BY ConstantTypes, EmittedInstruction DEF IInv, TypeOK
  <1>7. instr.opcode = "BRANCH" => sub_cycle % 36 = 19
    <2>1. tpl.type \in OpcodesAt(sub_cycle % 36) /\ sub_cycle \in Nat
      BY ConstantTypes, OfferedOpcode DEF IInv, TypeOK
    <2> QED BY <1>6, <2>1 DEF OpcodesAt
  <1>8. Positions' /\ Tested'
    BY <1>2, <1>5, <1>6, PositionsAppended, TestedAppended
  <1>9. /\ creg # NoRegister => \E m : KeptAt(code, m) /\ code[m].dst = creg
        /\ creg = NoRegister => \A m : ~KeptAt(code, m)
    BY <1>5 DEF Tested, KeptAt
  <1>10. E!X86Compilable(code')
    <2>1. PICK p : /\ Placed(code, p) /\ x86_pos = p[Len(code) + 1]
                   /\ x86_target # NoTarget => \E j : TargetAt(code, j) /\ x86_target = p[j]
      BY <1>5 DEF Positions
    <2>2. ASSUME instr.opcode = "BRANCH"
          PROVE  /\ \E m \in 1 .. Len(code) : code[m].opcode \in E!MultiplyHigh
                 /\ \E j : TargetAt(code, j) /\ p[Len(code) + 1] - p[j] + 8 <= 128
      <3>1. /\ x86_target # NoTarget /\ x86_pos + 8 - x86_target <= 128
            /\ creg \in Registers
        BY <1>4, <1>7, <2>2, AtTheBranch
      <3>2. PICK m : KeptAt(code, m)
        BY <1>9, <3>1, ConstantsAssumption
      <3>3. m \in 1 .. Len(code) /\ code[m].opcode \in E!MultiplyHigh
        BY <3>2 DEF KeptAt, E!Watched
      <3>4. PICK j : TargetAt(code, j) /\ x86_target = p[j]
        BY <2>1, <3>1
      <3>5. x86_pos \in Nat /\ x86_target \in Nat
        <4>1. Len(code) \in Nat /\ j \in 1 .. Len(code)
          BY <1>5, <3>4 DEF TargetAt
        <4> QED BY <2>1, <3>4, <4>1 DEF Placed
      <3>6. p[Len(code) + 1] - p[j] + 8 <= 128
        BY <2>1, <3>1, <3>4, <3>5
      <3> QED BY <3>3, <3>4, <3>6
    <2> QED BY <1>5, <1>6, <2>1, <2>2, X86Appended
  <1>11. E!A64Compilable(code')
    <2>1. Len(code) < E!MAX_INSTRUCTIONS
      <3>1. HASHX_PROGRAM_MAX_SIZE \in Nat /\ code_size \in Nat
        BY ConstantTypes DEF IInv, TypeOK
      <3> QED BY <1>4, <1>5, <3>1, PipelineAssumption DEF E!MAX_INSTRUCTIONS
    <2>2. instr.opcode = "BRANCH" => \E m : KeptAt(code, m)
      BY <1>4, <1>7, <1>9, AtTheBranch, ConstantsAssumption
    <2>3. ASSUME instr.opcode \in E!Arithmetic, NEW m, KeptAt(code, m)
          PROVE  code[m].dst # instr.dst
      <3>1. PICK k : KeptAt(code, k) /\ code[k].dst = creg
        BY <1>9, <2>3
      <3>2. k = m
        <4>1. Len(code) \in Nat /\ k \in 1 .. Len(code) /\ m \in 1 .. Len(code)
          BY <1>5, <2>3, <3>1 DEF KeptAt
        <4>2. code[k].opcode \in E!MultiplyHigh /\ code[m].opcode \in E!MultiplyHigh
          BY <2>3, <3>1 DEF KeptAt, E!Watched
        <4>3. /\ \A l \in k + 1 .. Len(code) : code[l].opcode \notin E!MultiplyHigh
              /\ \A l \in m + 1 .. Len(code) : code[l].opcode \notin E!MultiplyHigh
          BY <2>3, <3>1 DEF KeptAt
        <4> QED BY <4>1, <4>2, <4>3
      <3>3. ~aborted'
        BY DEF CompilersIInv, WideInFlight
      <3>4. creg # dst
        BY <1>2, <1>6, <2>3, <3>3 DEF CompileA64
      <3> QED BY <1>6, <3>1, <3>2, <3>4
    <2> QED BY <1>5, <1>6, <2>1, <2>2, <2>3, A64Appended
  <1>12. code' \in Seq(Instructions) /\ Len(code') = code_size'
    BY <1>4, <1>5, <1>6, Appending
  <1> QED BY <1>8, <1>10, <1>11, <1>12 DEF HandedOver

LEMMA HandedOverNext ==
    ASSUME IInv, CompilersIInv, HandedOver, Verdict,
           [PipelineNext]_<<vars, compilers, code>>
    PROVE  IInv' /\ CompilersIInv' /\ HandedOver' /\ Verdict'
  <1>1. [CodegenNext]_<<vars, compilers>>
    BY PipelineSteps
  <1>2. IInv' /\ CompilersIInv'
    BY <1>1, CompilersInvNext
  <1>3. Verdict'
    <2>1. [Next]_vars
      BY <1>1, GeneratorSteps
    <2> QED BY <2>1, VerdictNext
  <1>4. HandedOver'
    <2>1. CASE EmitNothingIntoCode
      BY <2>1, HandedOverIdle
    <2>2. CASE \E tpl \in select_template : EmitIntoCode(tpl)
      BY <1>2, <2>2, HandedOverEmit
    <2>3. CASE UNCHANGED <<vars, compilers, code>>
      <3>1. /\ skipped' = skipped /\ code_size' = code_size
            /\ UNCHANGED compilers /\ code' = code
        BY <2>3 DEF vars, ctx
      <3> QED BY <3>1 DEF HandedOver, Positions, Tested, compilers
    <2> QED BY <2>1, <2>2, <2>3 DEF PipelineNext
  <1> QED BY <1>2, <1>3, <1>4

\* Whatever the generator accepts, both compilers can compile: the assumption of
\* their modules is no assumption about the code, but a consequence of it.
THEOREM GeneratedIsCompilable == PipelineSpec => []AcceptedIsCompilable
  <1> DEFINE PInv == IInv /\ CompilersIInv /\ HandedOver /\ Verdict
  <1>1. PipelineInit => PInv
    BY InvInit, CompilersInvInit, HandedOverInit DEF PipelineInit, CodegenInit
  <1>2. PInv /\ [PipelineNext]_<<vars, compilers, code>> => PInv'
    BY HandedOverNext
  <1>3. PInv => AcceptedIsCompilable
    <2> SUFFICES ASSUME PInv, accepted
                 PROVE  /\ code \in Seq(Instructions) /\ Len(code) = REQUIREMENT_SIZE
                        /\ E!X86Compilable(code) /\ E!A64Compilable(code)
      BY DEF AcceptedIsCompilable
    <2>1. pc = "returned" /\ ~skipped /\ sub_cycle = 3 * TARGET_CYCLE
      BY DEF Verdict, IInv, Outcome
    <2>2. code_size = REQUIREMENT_SIZE
      BY <2>1, CalibrationAssumption DEF IInv, Counted
    <2> QED BY <2>1, <2>2 DEF HandedOver
  <1> HIDE DEF PInv
  <1> QED BY <1>1, <1>2, <1>3, PTL DEF PipelineSpec
=============================================================================
