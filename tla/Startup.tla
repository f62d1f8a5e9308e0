------------------------------ MODULE Startup ------------------------------
(***************************************************************************)
(* A run of the program from its command line to its end: main.c and       *)
(* opts.c around the processor, with the ROM of module Dispatch and the    *)
(* debugger of module Debugger.                                            *)
(*                                                                         *)
(* main creates the machine, loads the image and the ROM, sets the         *)
(* registers, and starts the CPU's thread; when that ends it reports the   *)
(* state.  A file is the sequence of its whole words: a rest of fewer      *)
(* bytes than a word is not loaded.  The threads of the devices and their  *)
(* end are in module Vm.                                                   *)
(***************************************************************************)
EXTENDS Dispatch, Debugger

CONSTANTS
    CommandLines,   \* what the user may ask for
    ROM_SIZE,       \* bytes of the ROM
    HALT_WORD,      \* the word loaded when no image is given
    Lists,          \* texts on which parse_register_values is compared
    INTERRUPT_MASK_ADDRESS, VIDEO_META_ADDRESS, \* of words vm_create sets
    Unset,          \* the addresses of words that nothing initialises
    Garbage         \* what such a word may hold

\* No file is given, and a file that cannot be opened: neither is a word.
NoFile == <<-1>>
Unreadable == <<-2>>

Options ==
    [help : BOOLEAN, image : Seq(Word) \union {NoFile, Unreadable},
     rom : Seq(Word) \union {NoFile, Unreadable}, pc : Word, values : Seq(STRING),
     print_state : BOOLEAN, print_steps : BOOLEAN]

\* The interrupts of the timer, 3, of the vertical sync, 4, and of the keyboard, 5.
INTERRUPTS_MASKED == 8 + 16 + 32
VIDEO_BIT_ENABLED == 2

\* The ROM, which no program writes, ends the address space; a word of an image
\* starts where the ROM does, if the image is long enough (vmarch.h).
ASSUME StartupAssumption ==
    /\ CommandLines \subseteq Options /\ Lists \subseteq Seq(STRING) /\ HALT_WORD \in Word
    /\ ROM_SIZE \in Nat \ {0} /\ ROM_ADDRESS + ROM_SIZE = Modulus
    /\ ROM_ADDRESS \notin Writable
    /\ STACK_SIZE <= ROM_ADDRESS /\ (ROM_ADDRESS - STACK_SIZE) % WORD_SIZE = 0
    /\ {INTERRUPT_MASK_ADDRESS, VIDEO_META_ADDRESS} \subseteq Readable \ Unset
    /\ INTERRUPT_MASK_ADDRESS # VIDEO_META_ADDRESS
    /\ {INTERRUPTS_MASKED, VIDEO_BIT_ENABLED} \subseteq Word
    /\ Unset \subseteq Readable /\ Garbage \subseteq Word /\ Garbage # {}

VARIABLES
    phase,          \* "command line", "running", "ended", "failed" or "aborted"
    options         \* the command line, once parsed

startupVars == <<m, thread, ins, frames, debuggerVars, phase, options>>

NoOptions == [parsed |-> FALSE]

----------------------------------------------------------------------------
(***************************************************************************)
(* opts.c.                                                                 *)
(***************************************************************************)
NoValues == [r \in 0 .. RegCount - 1 |-> 0]

\* The scan's state: parsing a register or a value, the register, the values, and
\* whether the text was refused.
scanning(mode_, reg, values) ==
    [mode |-> mode_, reg |-> reg, values |-> values, ok |-> TRUE]

refused(s) == [s EXCEPT !.ok = FALSE]

\* The mutant of scan: the register is not cleared after a comma.
slip_scan(s, c, last) ==
    CASE ~s.ok -> s
      [] s.ok /\ s.mode = "register" /\ c = ":" ->
             IF s.reg >= RegCount \/ last THEN refused(s)
             ELSE scanning("value", s.reg, s.values)
      [] s.ok /\ s.mode = "register" /\ is_digit(c) ->
             scanning("register", 10 * s.reg + DigitValue[c], s.values)
      [] s.ok /\ s.mode = "value" /\ c = "," ->
             IF last THEN refused(s) ELSE scanning("register", s.reg, s.values)
      [] s.ok /\ s.mode = "value" /\ is_digit(c) ->
             scanning("value", s.reg,
                      [s.values EXCEPT ![s.reg] = 10 * @ + DigitValue[c]])
      [] OTHER -> refused(s)

scan(s, c, last) ==
    CASE ~s.ok -> s
      [] s.ok /\ s.mode = "register" /\ c = ":" ->
             IF s.reg >= RegCount \/ last THEN refused(s)
             ELSE scanning("value", s.reg, s.values)
      [] s.ok /\ s.mode = "register" /\ is_digit(c) ->
             scanning("register", 10 * s.reg + DigitValue[c], s.values)
      [] s.ok /\ s.mode = "value" /\ c = "," ->
             IF last THEN refused(s) ELSE scanning("register", 0, s.values)
      [] s.ok /\ s.mode = "value" /\ is_digit(c) ->
             scanning("value", s.reg,
                      [s.values EXCEPT ![s.reg] = 10 * @ + DigitValue[c]])
      [] OTHER -> refused(s)

parse_register_values(text) ==
    LET s == FoldLeftDomain(LAMBDA t, i : scan(t, text[i], i = Len(text)),
                            scanning("register", 0, NoValues), text)
    IN  IF s.ok /\ s.mode = "value" THEN s.values ELSE NoValues

\* --register-values is parsed, when it is given, for --registers registers.
opts_parse(line) ==
    [line EXCEPT !.values = IF line.values = NoText THEN NoValues
                            ELSE parse_register_values(line.values)]

----------------------------------------------------------------------------
(***************************************************************************)
(* main.c.                                                                 *)
(***************************************************************************)
\* A word of a new memory: memory_create clears all but a last word of which only
\* some bytes were asked for; pic_create masks the interrupts of the devices, and
\* video_create enables the video.
initial_word(a, garbage) ==
    CASE a \in Unset -> garbage[a]
      [] a = INTERRUPT_MASK_ADDRESS -> INTERRUPTS_MASKED
      [] a = VIDEO_META_ADDRESS -> VIDEO_BIT_ENABLED
      [] OTHER -> 0

\* vm_create: its memories, and cpu_reset.
cpu_reset(ir, garbage) ==
    [reg |-> [r \in Registers |-> CASE r \in {PC, CS, SP, BP} -> STACK_SIZE
                                    [] r = IR -> ir
                                    [] OTHER -> 0],
     mem |-> [a \in Readable |-> initial_word(a, garbage)], ie |-> FALSE, z |-> FALSE, n |-> FALSE,
     print_op |-> FALSE, trap |-> FALSE, running |-> FALSE,
     panic |-> "OK", fault |-> FALSE]

RomArea == Readable \intersect ROM_ADDRESS .. ROM_ADDRESS + ROM_SIZE - 1

\* The address of the k-th word of a file, an addr_t.
word_address(from, k) == (from + (k - 1) * WORD_SIZE) % Modulus

\* load_file stops at the first word the bus refuses; without a file it writes one
\* word.
loadable(file, from, writable) ==
    \A k \in DOMAIN file : word_address(from, k) \in writable

load_file(mem, file, from) ==
    FoldLeftDomain(LAMBDA t, k : [t EXCEPT ![word_address(from, k)] = file[k]], mem, file)

image_words(o) == IF o.image = NoFile THEN <<HALT_WORD>> ELSE o.image
rom_words(o) == IF o.rom = NoFile THEN <<>> ELSE o.rom

\* The mutant of files_loaded: the ROM's file is loaded before the image.
slip_files_loaded(mem, o) ==
    load_file(load_file(mem, rom_words(o), ROM_ADDRESS), image_words(o), STACK_SIZE)

\* The image's file, then the ROM's.
files_loaded(mem, o) ==
    load_file(load_file(mem, image_words(o), STACK_SIZE), rom_words(o), ROM_ADDRESS)

\* The registers, after the files: --pc, the descriptor table, then every register
\* below --registers, which wins over what was set before; the last one sets the
\* flags.
assigned(s, o, first) ==
    LET reg == [r \in Registers |->
                  IF r < RegCount THEN o.values[r] % Modulus
                  ELSE IF r \in DOMAIN first THEN first[r] ELSE s.reg[r]]
        t == [s EXCEPT !.reg = reg, !.print_op = o.print_steps]
    IN  cpu_flags_update(t, reg[RegCount - 1])

set_registers(s, o) ==
    assigned(s, o, [r \in {PC, CS, IDT} |-> IF r = IDT THEN IDT_ADDRESS ELSE o.pc])

\* The command line asks for help or for the header: nothing is created.
Helps(line) ==
    /\ phase = "command line" /\ line.help
    /\ phase' = "ended" /\ options' = opts_parse(line)
    /\ UNCHANGED <<vars, frames, debuggerVars>>

\* The ROM's file, where one is given, is loaded while the ROM is writable.
Loads(line) ==
    /\ Unreadable \notin {line.image, line.rom}
    /\ loadable(image_words(line), STACK_SIZE, Writable)
    /\ loadable(rom_words(line), ROM_ADDRESS, Writable \union RomArea)

\* A file the bus refuses, or that cannot be opened: exit with 1.
Fails(line) ==
    /\ phase = "command line" /\ ~line.help /\ ~Loads(line)
    /\ phase' = "failed" /\ options' = opts_parse(line)
    /\ UNCHANGED <<vars, frames, debuggerVars>>

\* main up to vm_start, which starts the CPU's thread.
Starts(line) ==
    /\ phase = "command line" /\ ~line.help /\ Loads(line)
    /\ options' = opts_parse(line)
    /\ m' = set_registers([m EXCEPT !.mem = files_loaded(@, line)], options')
    /\ phase' = "running"
    /\ UNCHANGED <<thread, ins, frames, debuggerVars>>

\* The mutant of main_ends: one more panic has no name.
slip_main_ends ==
    /\ phase = "running" /\ thread = "done"
    /\ phase' = IF options.print_state
                   /\ m.panic \in {"UNIMPLEMENTED_OPCODE", "CANNOT_WRITE_MEMORY"}
                THEN "aborted" ELSE "ended"
    /\ UNCHANGED <<vars, frames, debuggerVars, options>>

\* main from the end of the CPU's thread: cpu_state_print aborts at a panic that it
\* has no name for.
main_ends ==
    /\ phase = "running" /\ thread = "done"
    /\ phase' = IF options.print_state /\ m.panic = "UNIMPLEMENTED_OPCODE"
                THEN "aborted" ELSE "ended"
    /\ UNCHANGED <<vars, frames, debuggerVars, options>>

----------------------------------------------------------------------------
StartupInit ==
    /\ \E ir \in {IDT_ADDRESS} \union Lines, garbage \in [Unset -> Garbage] :
         m = cpu_reset(ir, garbage)
    /\ thread = "idle" /\ ins = Nop /\ frames = <<>>
    /\ DebuggerInit
    /\ phase = "command line" /\ options = NoOptions

\* A step of the processor: in the debugger, with the line that made it.
Running ==
    \/ /\ \/ \E line \in arriving : Iteration(line)
          \/ (StartLoop \/ LeaveLoop \/ cpu_stop) /\ UNCHANGED frames
       /\ UNCHANGED debuggerVars
    \/ \E line \in Typed :
         \/ \E c \in Commands : Resumes(line, c) /\ Debugged(c)
         \/ Answers(line) /\ UNCHANGED frames
    \/ InputEnds /\ UNCHANGED frames

StartupNext ==
    \/ \E line \in CommandLines : Helps(line) \/ Fails(line) \/ Starts(line)
    \/ phase = "running" /\ Running /\ UNCHANGED <<phase, options>>
    \/ main_ends

StartupSpec == StartupInit /\ [][StartupNext]_startupVars

----------------------------------------------------------------------------
(***************************************************************************)
(* Properties.                                                             *)
(***************************************************************************)
\* The items of a list: what stands between its commas, as first and last position.
Items(text) ==
    {p \in (1 .. Len(text) + 1) \X (0 .. Len(text)) :
        /\ p[1] <= p[2] + 1
        /\ p[1] = 1 \/ text[p[1] - 1] = ","
        /\ p[2] = Len(text) \/ text[p[2] + 1] = ","
        /\ \A i \in p[1] .. p[2] : text[i] # ","}

Colons(text, p) == {i \in p[1] .. p[2] : text[i] = ":"}
Colon(text, p) == CHOOSE i \in Colons(text, p) : TRUE
RegisterOf(text, p) == number(10, SubSeq(text, p[1], Colon(text, p) - 1))
ValueOf(text, p) == number(10, SubSeq(text, Colon(text, p) + 1, p[2]))

ListedItem(text, p) ==
    /\ Cardinality(Colons(text, p)) = 1
    /\ \A i \in p[1] .. p[2] : text[i] = ":" \/ is_digit(text[i])
    /\ RegisterOf(text, p) < RegCount

Listed(text) ==
    /\ text # <<>> /\ is_digit(Last(text))
    /\ \A p \in Items(text) : ListedItem(text, p)

\* A register that one item names gets the value of that item and one that none names
\* 0; a text that is no list, or names a register the CPU has not, sets none at all.
SetsAsListed(text, values) ==
    LET Naming(r) == {p \in Items(text) : RegisterOf(text, p) = r}
    IN  IF ~Listed(text) THEN values = NoValues
        ELSE \A r \in 0 .. RegCount - 1 :
               /\ Naming(r) = {} => values[r] = 0
               /\ \A p \in Naming(r) : Naming(r) = {p} => values[r] = ValueOf(text, p)

\* opts.c gives --register-values the format reg:val[,...], and every text sets what
\* it lists.  (An item may lack its digits, and two items for one register are not
\* told apart.)
ParsesAsDocumented ==
    phase = "command line" =>
      \A text \in Lists : SetsAsListed(text, parse_register_values(text))

\* When the CPU's thread starts, the machine is the one the command line asks for:
\* the registers, and every word of the memory.  A word holds what the ROM's file
\* has there, or else what the image has; where neither reaches it holds what
\* vm_create left, 0 except for the interrupts masked and the video enabled, and
\* nothing is known of a word that nothing initialised.  Each file goes on at
\* address 0 after the last one, so that a file longer than the ROM covers the RAM
\* and the image; one that is not leaves both unharmed, each word where the file
\* has it.
StartsAsAsked ==
    phase = "running" /\ thread = "idle" =>
    LET image == image_words(options)
        words == rom_words(options)
        Reached(file, from) == {word_address(from, k) : k \in DOMAIN file}
        Stands(file, from, k) == m.mem[word_address(from, k)] = file[k]
        Placed(file, from) ==
            \A k \in DOMAIN file : m.mem[from + (k - 1) * WORD_SIZE] = file[k]
        Over == Reached(words, ROM_ADDRESS)
    IN  /\ m.reg[PC] = options.pc /\ m.reg[CS] = options.pc
        /\ m.reg[SP] = STACK_SIZE /\ m.reg[BP] = STACK_SIZE
        /\ m.reg[IDT] = IDT_ADDRESS /\ ~m.ie
        /\ \A r \in 0 .. RegCount - 1 : m.reg[r] = options.values[r] % Modulus
        /\ \A k \in DOMAIN words :
             \/ Stands(words, ROM_ADDRESS, k)
             \/ \E j \in DOMAIN words :
                  j > k /\ word_address(ROM_ADDRESS, j) = word_address(ROM_ADDRESS, k)
        /\ \A k \in DOMAIN image :
             Stands(image, STACK_SIZE, k) \/ word_address(STACK_SIZE, k) \in Over
        /\ \A a \in Readable \ (Over \union Reached(image, STACK_SIZE) \union Unset) :
             m.mem[a] = CASE a = INTERRUPT_MASK_ADDRESS -> INTERRUPTS_MASKED
                          [] a = VIDEO_META_ADDRESS -> VIDEO_BIT_ENABLED
                          [] OTHER -> 0
        /\ Len(words) * WORD_SIZE <= ROM_SIZE =>
             Placed(image, STACK_SIZE) /\ Placed(words, ROM_ADDRESS)

\* The process aborts only after a program that ran into a word that is no
\* instruction, the word before its program counter: one that halts, is refused an
\* access, names no register or is left by the debugger lets the process end.
AbortsAtBadWord ==
    phase = "aborted" => Code[m.mem[(m.reg[PC] - WORD_SIZE) % Modulus]] = {}

\* opts.c:186 calls --pc the initial address of PC, and opts.c:181 allows up to 255
\* registers: the program starts there however many registers the machine has.
PcIsInitial ==
    phase = "running" /\ thread = "idle" => m.reg[PC] = options.pc
=============================================================================
