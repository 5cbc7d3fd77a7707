------------------------------ MODULE CmdLine ------------------------------
(***************************************************************************)
(* The command line: CmdLineParser (getopt tokens, the state machine),     *)
(* CmdLineCommand (Compile), and the DeviceCommand that RitexDevice makes  *)
(* of it. A client does all of this, and sends the line to the daemon,     *)
(* which does it again (CommandPath models that exchange).                 *)
(*                                                                         *)
(* A word has no blank; an argument is the sequence of words between its   *)
(* blanks, so <<"">> is the empty argument and <<"a", "b">> is "a b". A    *)
(* line is what goes through the socket: one sequence of words. Options    *)
(* are words of the set Options, every other word is plain text.           *)
(***************************************************************************)
EXTENDS Integers, Sequences, SequencesExt

CONSTANTS
  Number,    \* what strtol makes of the texts that start with a number
  ZeroFirst, \* the texts whose first character is 0
  Parts,     \* the arguments with a '~', and the parts that split makes of them
  Devices,   \* m_commDevices
  Rates      \* m_commSpeed

Options == {"-cmd", "-sp", "-exit", "-p", "-a", "-d", "-r", "-t"}

-----------------------------------------------------------------------------
(* From the client to the daemon: one string, split at the blanks.         *)

\* The arguments joined with one blank between them.
GetCmdLine(argv) == FlattenSeq(argv)

\* Mutant of SetCmdLine: a split that drops every empty word.
SetCmdLineTrimmed(line) ==
  LET words == SelectSeq(line, LAMBDA w : w # "")
  IN  [i \in DOMAIN words |-> <<words[i]>>]

\* istringstream and getline: an empty word at the end is not delivered.
SetCmdLine(line) ==
  LET words == IF line # <<>> /\ Last(line) = "" THEN Front(line) ELSE line
  IN  [i \in DOMAIN words |-> <<words[i]>>]

-----------------------------------------------------------------------------
(* The parser.                                                             *)

\* What getopt_long_only returns for an argument; the string of short
\* options starts with '-', so plain text comes back in order as "arg".
Token(arg) == IF Len(arg) = 1 /\ arg[1] \in Options THEN arg[1] ELSE "arg"

\* The first option decides.
FirstStates(state, token) ==
  CASE state = "first" /\ token = "-cmd"           -> "cmd"
    [] state = "first" /\ token = "-exit"          -> "exit"
    [] state = "first" /\ token = "-p"             -> "p"
    [] state = "first" /\ token = "-a"             -> "aFirst"
    [] state = "first" /\ token = "-d"             -> "d"
    [] state = "first" /\ token = "-r"             -> "r"
    [] state = "first" /\ token = "-t"             -> "t"
    [] state \in {"aFirst", "p", "cmd"} /\ token = "end" -> "accept"
    [] state = "cmd" /\ token = "arg"              -> "devId"
    [] state = "cmd" /\ token \in Options          -> "cmd"     \* no default: it stays
    [] OTHER                                       -> "reject"

\* Mutant of CommandStates: more texts may follow the command's id.
CommandStatesLoose(state, token) ==
  CASE state = "devId" /\ token = "arg" -> "type"
    [] state = "type"  /\ token = "arg" -> "msg"
    [] state = "msg"   /\ token = "arg" -> "src"
    [] state = "src"   /\ token = "arg" -> "id"
    [] state = "id"    /\ token = "-sp" -> "sp"
    [] state = "id"    /\ token = "arg" -> "id"
    [] OTHER                            -> "reject"

\* -cmd device type message source id -sp path -a name value ...
CommandStates(state, token) ==
  CASE state = "devId" /\ token = "arg" -> "type"
    [] state = "type"  /\ token = "arg" -> "msg"
    [] state = "msg"   /\ token = "arg" -> "src"
    [] state = "src"   /\ token = "arg" -> "id"
    [] state = "id"    /\ token = "-sp" -> "sp"
    [] OTHER                            -> "reject"

ListStates(state, token) ==
  CASE state \in {"t", "d", "aList"} /\ token = "-a" -> "aName"
    [] state \in {"d", "aList"} /\ token = "end"     -> "accept"
    [] state = "aList"                               -> "aList"  \* no default: it stays
    [] state = "aName"  /\ token = "arg"             -> "aValue"
    [] state = "aValue" /\ token = "arg"             -> "aList"
    [] OTHER                                         -> "reject"

PathStates(state, token) ==
  CASE state = "r"      /\ token = "arg" -> "rDevId"
    [] state = "rDevId" /\ token = "-sp" -> "sp"
    [] state = "sp"     /\ token = "arg" -> "spPath"
    [] state = "spPath" /\ token = "-a"  -> "aName"
    [] state = "exit"   /\ token = "end" -> "accept"
    [] OTHER                             -> "reject"

NextState(state, token) ==
  CASE state \in {"first", "aFirst", "p", "cmd"}            -> FirstStates(state, token)
    [] state \in {"devId", "type", "msg", "src", "id"}      -> CommandStates(state, token)
    [] state \in {"t", "d", "aList", "aName", "aValue"}     -> ListStates(state, token)
    [] state \in {"r", "rDevId", "sp", "spPath", "exit"}    -> PathStates(state, token)
    [] OTHER                                                -> "reject"  \* once wrong, always

\* Where the text of each state goes.
Field(state) ==
  CASE state = "cmd"   -> "deviceId" [] state = "devId" -> "cmdType" [] state = "type"  -> "message"
    [] state = "msg"   -> "source"   [] state = "src"   -> "cmdId"   [] state = "r"     -> "deviceId"
    [] state = "sp"    -> "script"   [] state = "aName" -> "name"    [] OTHER           -> "none"

\* The type that a state gives; no other state changes it.
CommandType(state, token, type) ==
  CASE state = "aFirst" -> "CMD_GET_ADDITIONAL_PARAMETER_LIST"
    [] state = "p"      -> "CMD_SHOW_INFO"
    [] state = "cmd"    -> IF token = "arg" THEN "CMD_COMMAND" ELSE "CMD_LIST_COMMANDS"
    [] state = "t"      -> "CMD_TEST_DEVICE"
    [] state = "d"      -> "CMD_GET_CONNECTED_DEVICE_INFO"
    [] state = "r"      -> "CMD_GET_MESUREMENTS"
    [] state = "exit"   -> "CMD_EXIT"
    [] OTHER            -> type

Texts == {"deviceId", "cmdType", "message", "source", "cmdId", "script", "name"}

\* The empty argument.
Blank == <<"">>

Untyped == [state |-> "first", type |-> "none",
            field |-> [text \in Texts |-> Blank], parameters |-> <<>>]

\* A parameter given twice keeps the last value.
AddParameter(parameters, name, value) == (name :> value) @@ parameters

\* One turn of Parse, in the state and for the token that it meets.
Turn(parsed, token, arg) ==
  LET state == parsed.state
      takes == token = "arg"
  IN  [state |-> NextState(state, token),
       type  |-> CommandType(state, token, parsed.type),
       field |-> [text \in Texts |-> IF takes /\ Field(state) = text THEN arg ELSE parsed.field[text]],
       parameters |-> IF takes /\ state = "aValue"
                      THEN AddParameter(parsed.parameters, parsed.field["name"], arg)
                      ELSE parsed.parameters]

\* argv[0] is the program: optind starts at 1.
Parse(argv) ==
  LET parsed[n \in 0 .. Len(argv)] ==
        IF n <= 1 THEN Untyped ELSE Turn(parsed[n - 1], Token(argv[n]), argv[n])
  IN  Turn(parsed[Len(argv)], "end", Blank)

-----------------------------------------------------------------------------
(* Compile.                                                                *)

\* The parameters RitexAdapter declares; ranges and defaults are never used.
Parameters == "comdevice" :> "list of strings" @@ "baudrate" :> "list of integers"
           @@ "debug" :> "integer" @@ "address" :> "string" @@ "sync_time" :> "integer"

\* strtol skips blanks in front, and stops at the first other character.
Strtol(arg) ==
  LET texts == SelectSeq(arg, LAMBDA w : w # "")
  IN  IF texts # <<>> /\ Head(texts) \in DOMAIN Number THEN Number[Head(texts)] ELSE 0

\* A text that is no number is told from 0 by its first character only.
CompileInt(arg) == Strtol(arg) # 0 \/ arg[1] \in ZeroFirst

ParameterCompiles(name, value) ==
  /\ Len(name) = 1 /\ name[1] \in DOMAIN Parameters
  /\ CASE Parameters[name[1]] = "integer"          -> CompileInt(value)
       [] Parameters[name[1]] = "string"           -> TRUE
       [] Parameters[name[1]] = "list of strings"  -> Len(value) = 1 /\ value[1] \in Devices
       [] Parameters[name[1]] = "list of integers" -> /\ Len(value) = 1 /\ value[1] \in Rates
                                                      /\ CompileInt(value)

NeedsPort == {"CMD_GET_MESUREMENTS", "CMD_TEST_DEVICE"}

HasRequiredParameters(cmd) ==
  cmd.type \in NeedsPort => {<<"comdevice">>, <<"baudrate">>} \subseteq DOMAIN cmd.parameters

IntegerFields == "CMD_GET_MESUREMENTS" :> {"deviceId"}
              @@ "CMD_COMMAND" :> {"deviceId", "cmdId", "cmdType"}

\* CMD_EXIT falls to the default: it never compiles. The id of CMD_TEST_DEVICE
\* is rand(), drawn by the client and again by the daemon.
Compile(cmd) ==
  /\ cmd.state = "accept"
  /\ cmd.type # "CMD_EXIT"
  /\ \A name \in DOMAIN cmd.parameters : ParameterCompiles(name, cmd.parameters[name])
  /\ cmd.type \in DOMAIN IntegerFields =>
       \A f \in IntegerFields[cmd.type] : CompileInt(cmd.field[f])
  /\ HasRequiredParameters(cmd)

-----------------------------------------------------------------------------
(* The DeviceCommand.                                                      *)

Settings == (31 .. 66) \cup {152} \cup (155 .. 161)

\* The commands that -cmd takes, by type: how many arguments the message has,
\* and for each choice of the first the request and its parameter.
ExternalCommands ==
     24 :> [arguments |-> 2, choices |-> [id \in Settings |-> <<"REQ_SETTING_SET", id>>]]
  @@ 2  :> [arguments |-> 1, choices |->
              1 :> <<"REQ_VD_ON", 0>> @@ 2 :> <<"REQ_VD_OFF", 0>> @@ 3 :> <<"REQ_VD_ON", 22>>
           @@ 4 :> <<"REQ_VD_ON", 1>> @@ 5 :> <<"REQ_VD_ROTATION", 0>> @@ 6 :> <<"REQ_VD_ROTATION", 4>>]

\* split drops an empty part at the end; an empty argument has no part.
Split(arg) == IF arg = Blank THEN <<>> ELSE IF arg \in DOMAIN Parts THEN Parts[arg] ELSE <<arg[1]>>

\* What becomes of a command's type and the parts of its message. "assert": one of
\* the three assertions fails; "crash": tm stays NULL.
ExternalCommand(type, params) ==
  LET id == Strtol(<<params[1]>>)
  IN  IF type \notin DOMAIN ExternalCommands \/ Len(params) # ExternalCommands[type].arguments
      THEN <<"assert">>
      ELSE IF id \notin DOMAIN ExternalCommands[type].choices THEN <<"crash">>
      ELSE <<"external", ExternalCommands[type].choices[id],
             IF Len(params) > 1 THEN Strtol(<<params[2]>>) % 65536 ELSE 0>>

CreateExternalCommand(cmd) ==
  ExternalCommand(Strtol(cmd.field["cmdType"]), Split(cmd.field["message"]))

\* GetParameter: the value that was compiled; without one the caller's variable
\* keeps what it had (for the rate of a -cmd nothing: it is not initialised).
Given(cmd, name) == IF <<name>> \in DOMAIN cmd.parameters THEN cmd.parameters[<<name>>] ELSE <<"unset">>

\* OpenCommPort knows fewer rates than -a takes; any other is 9600.
OpenCommPort(rate) ==
  IF rate \in {1200, 2400, 4800, 19200, 38400, 57600, 115200} THEN rate ELSE 9600

\* Where the command is to go: a port, and the speed it is opened with.
Port(cmd) ==
  [device |-> Given(cmd, "comdevice"),
   speed  |-> IF Given(cmd, "baudrate") = <<"unset">> THEN -1
              ELSE OpenCommPort(Strtol(Given(cmd, "baudrate")))]

\* Device::CreateCommand, for what RitexDevice leaves to it.
CommonCommand(cmd) ==
  IF cmd.type \in {"CMD_SHOW_INFO", "CMD_GET_CONNECTED_DEVICE_INFO",
                   "CMD_GET_ADDITIONAL_PARAMETER_LIST", "CMD_LIST_COMMANDS"}
  THEN <<cmd.type>> ELSE <<"none">>

CreateCommand(cmd) ==
  CASE cmd.type = "CMD_GET_MESUREMENTS" -> <<"measure", Strtol(cmd.field["deviceId"]), Port(cmd)>>
    [] cmd.type = "CMD_TEST_DEVICE"     -> <<"test", Port(cmd)>>
    [] cmd.type = "CMD_COMMAND"         -> CreateExternalCommand(cmd) \o <<Port(cmd)>>
    [] OTHER                            -> CommonCommand(cmd)

\* Everything a process does with a line, up to the execution.
Understand(argv) == IF Compile(Parse(argv)) THEN CreateCommand(Parse(argv)) ELSE <<"refused">>
=============================================================================
