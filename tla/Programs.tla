------------------------------ MODULE Programs ------------------------------
(***************************************************************************)
(* The shell (sh.c) and the small programs it runs.  A line is a sequence  *)
(* of the tokens of gettoken(); parsecmd() makes a tree of it and runcmd() *)
(* the calls of the process that runs the tree.  An argument is one unit.  *)
(***************************************************************************)
EXTENDS UserTests

CONSTANTS MAXARGS   \* of sh.c

Symbols == {"<", ">", ">>", "|", "(", ")", ";", "&"}
Starts(s, toks) == s # <<>> /\ Head(s) \in toks

\* The nodes of the tree.
execcmd == [type |-> "exec", argv |-> <<>>]
redircmd(t, file, mode, fd) == [type |-> "redir", cmd |-> t, file |-> file, mode |-> mode, fd |-> fd]
pipecmd(l, r) == [type |-> "pipe", left |-> l, right |-> r]
listcmd(l, r) == [type |-> "list", left |-> l, right |-> r]
backcmd(t) == [type |-> "back", cmd |-> t]

\* What a parsing function returns: the tree, the rest of the line.
Parsed(t, s) == [t |-> t, rest |-> s, ok |-> TRUE]
SyntaxError == [t |-> [type |-> "none"], rest |-> <<>>, ok |-> FALSE]

RECURSIVE parseredirs(_, _)
parseredirs(t, s) ==
    IF ~Starts(s, {"<", ">", ">>"}) THEN Parsed(t, s)
    ELSE IF Len(s) < 2 \/ s[2] \in Symbols THEN SyntaxError
    ELSE parseredirs(IF Head(s) = "<" THEN redircmd(t, s[2], {}, 0)
                     ELSE redircmd(t, s[2], {"WRONLY", "CREATE"}, 1), Tail(Tail(s)))

\* An argument is added to the command that the redirections are around.
RECURSIVE AddArg(_, _), Argc(_)
AddArg(t, a) == IF t.type = "exec" THEN [t EXCEPT !.argv = Append(@, a)]
                ELSE [t EXCEPT !.cmd = AddArg(@, a)]
Argc(t) == IF t.type = "exec" THEN Len(t.argv) ELSE Argc(t.cmd)

RECURSIVE Arguments(_), parsepipe(_), parseline(_), Background(_)
Arguments(r) ==
    IF ~r.ok \/ r.rest = <<>> \/ Starts(r.rest, {"|", ")", "&", ";"}) THEN r
    ELSE IF Head(r.rest) \in Symbols \/ Argc(r.t) + 1 >= MAXARGS THEN SyntaxError
    ELSE Arguments(parseredirs(AddArg(r.t, Head(r.rest)), Tail(r.rest)))

parseblock(s) ==
    LET Closed(r) == IF r.ok /\ Starts(r.rest, {")"}) THEN parseredirs(r.t, Tail(r.rest))
                     ELSE SyntaxError
    IN  Closed(parseline(Tail(s)))

parseexec(s) == IF Starts(s, {"("}) THEN parseblock(s)
                ELSE Arguments(parseredirs(execcmd, s))

parsepipe(s) ==
    LET Rest(l) == IF Starts(l.rest, {"|"})
                   THEN LET r == parsepipe(Tail(l.rest)) IN [r EXCEPT !.t = pipecmd(l.t, @)]
                   ELSE l
    IN  Rest(parseexec(s))

Background(r) == IF Starts(r.rest, {"&"})
                 THEN Background(Parsed(backcmd(r.t), Tail(r.rest)))
                 ELSE r

parseline(s) ==
    LET Rest(l) == IF Starts(l.rest, {";"})
                   THEN LET r == parseline(Tail(l.rest)) IN [r EXCEPT !.t = listcmd(l.t, @)]
                   ELSE l
    IN  Rest(Background(parsepipe(s)))

\* parsecmd(): what is left over is an error too.
parsecmd(s) == LET Whole(r) == IF r.rest = <<>> THEN r ELSE SyntaxError IN Whole(parseline(s))
-----------------------------------------------------------------------------
(* Programs.  A program has the arguments a, without its name.             *)

Say(fd, words) == any(write(fd, [i \in DOMAIN words |-> <<0, words[i]>>]))
Complain(fd) == <<Say(fd, <<"error">>), exit>>
Or(call, calls) == [any(call) EXCEPT !.alt = calls]
Each(a, Body(_)) == FlattenSeq([i \in DOMAIN a |-> Body(a[i])])

echomain(a) == [i \in DOMAIN a |-> Say(1, <<a[i]>>)] \o <<exit>>

cat(fd) == [Or(read(fd, 4, <<>>), Complain(1)) EXCEPT !.loop = TRUE, !.copy = 1]
wc(fd) == <<[Or(read(fd, 4, <<>>), Complain(1)) EXCEPT !.loop = TRUE], Say(1, <<"count">>)>>

OnFiles(a, Body(_)) ==
    IF a = <<>> THEN Body(0) \o <<exit>>
    ELSE Each(a, LAMBDA f : <<Or(open(<<f>>, {}), Complain(1))>> \o Body(3) \o <<any(close(3))>>)
         \o <<exit>>

catmain(a) == OnFiles(a, LAMBDA fd : <<cat(fd)>>)
wcmain(a) == OnFiles(a, wc)

\* The first failure is the last attempt.
rmmain(a) == IF a = <<>> THEN Complain(2)
             ELSE Each(a, LAMBDA f : <<Or(unlink(<<f>>), Complain(2))>>) \o <<exit>>
mkdirmain(a) == IF a = <<>> THEN Complain(2)
                ELSE Each(a, LAMBDA f : <<Or(mkdir(<<f>>), Complain(2))>>) \o <<exit>>
lnmain(a) == IF Len(a) # 2 THEN Complain(2)
             ELSE <<Or(link(<<a[1]>>, <<a[2]>>), Complain(2)), exit>>
killmain(a) == IF a = <<>> THEN Complain(2) ELSE <<any(kill(2)), exit>>

\* ls of the working directory reads its entries and calls stat() for each;
\* then there are an empty one and the end.
lsmain(a) ==
    LET names == <<".", "..", "README", "cat", "echo", "console", "ls">>
        entry == any(read(3, 1, <<>>))
        stat(f) == <<open(<<f>>, {}), any(fstat(4, 0, "file", 0)), close(4)>>
    IN  <<Or(open(<<".">>, {}), Complain(2)), any(fstat(3, 0, "dir", 0))>>
        \o Each(names, LAMBDA f : <<entry>> \o stat(f) \o <<Say(1, <<f>>)>>)
        \o <<entry, read(3, 1, <<>>), any(close(3)), exit>>

\* The child dies first and nobody waits for it.
zombiemain(a) == <<fork(<<exit>>), any(sleep), exit>>

forktestmain(a) == <<Say(1, <<"fork test">>), any(fork(<<exit>>)), any(fork(<<exit>>)),
                     any(fork(<<exit>>)), any(wait), any(wait), any(wait), fails(wait),
                     Say(1, <<"OK">>), exit>>

\* Every process forks the next one until there is no room; each has a file.
stressfsmain(a) ==
    LET Work(i) == <<any(open(Name("stressfs", i), FRESH)), any(write(3, Numbered(i, 3))),
                     any(close(3)), any(open(Name("stressfs", i), {})),
                     any(read(3, 3, <<>>)), any(close(3)), any(wait), exit>>
    IN  <<Or(fork(Work(1)), Work(4))>> \o Work(0)

\* The name it opens starts with the 0 of the child's id: it is empty, which
\* names the working directory, and no call of the program does any I/O.
io_intensivemain(a) ==
    <<fork(<<any(sbrk(1, 0)), fails(open(<<>>, {"WRONLY"})), fails(write(-1, Units(2, "1"))),
             fails(close(-1)), exit>>), wait, exit>>
cpu_intensivemain(a) == <<fork(<<exit>>), wait, any(getpid(0)), exit>>

Main(name, a) ==
    CASE name = "echo" -> echomain(a) [] name = "cat" -> catmain(a) [] name = "wc" -> wcmain(a)
      [] name = "rm" -> rmmain(a) [] name = "mkdir" -> mkdirmain(a) [] name = "ln" -> lnmain(a)
      [] name = "kill" -> killmain(a) [] name = "ls" -> lsmain(a)
      [] name = "zombie" -> zombiemain(a) [] name = "forktest" -> forktestmain(a)
      [] name = "stressfs" -> stressfsmain(a) [] name = "cpu" -> cpu_intensivemain(a)
      [] name = "io" -> io_intensivemain(a) [] OTHER -> <<exit>>
-----------------------------------------------------------------------------
(* Running a tree.  Descriptors 0, 1 and 2 are open, others are not.       *)
fork1(calls) == [fork(calls) EXCEPT !.alt = Complain(2), !.want = Procs \cup {-1}]

RECURSIVE runcmd(_)
runcmd(t) ==
    CASE t.type = "exec" ->
           IF t.argv = <<>> THEN <<exit>>
           ELSE <<any(exec(<<Head(t.argv)>>, [i \in DOMAIN t.argv |-> 1],
                           Main(Head(t.argv), Tail(t.argv))))>> \o Complain(2)
      [] t.type = "redir" ->
           <<close(t.fd), Or(open(<<t.file>>, t.mode), Complain(2))>> \o runcmd(t.cmd)
      [] t.type = "list" -> <<fork1(runcmd(t.left)), any(wait)>> \o runcmd(t.right)
      [] t.type = "pipe" ->
           LET side(fd, end, child) == <<close(fd), dup(end, fd), close(3), close(4)>>
                                       \o runcmd(child)
           IN  <<Or(pipe, Complain(2)), fork1(side(1, 4, t.left)), fork1(side(0, 3, t.right)),
                 close(3), close(4), any(wait), any(wait), exit>>
      [] t.type = "back" -> <<fork1(runcmd(t.cmd)), exit>>

\* main(): a line is cd or is run by a child; the shell waits for one child.
shline(s) ==
    LET Child(r) == IF r.ok THEN runcmd(r.t) ELSE Complain(2) IN
    IF Len(s) = 2 /\ Head(s) = "cd" THEN <<Or(chdir(<<s[2]>>), <<Say(2, <<"cannot cd">>)>>)>>
    ELSE <<fork1(Child(parsecmd(s))), any(wait)>>

\* init and the shell have opened the console; one program has many names.
Boot(names) == <<mknod(<<"console">>, CONSOLE), open(<<"console">>, RDWR), dup(0, 1), dup(0, 2),
                 open(<<"console">>, RDWR), close(3)>>
               \o Each(names, LAMBDA n : <<link(<<"echo">>, <<n>>)>>)

\* The contents of a file after the lines before.
Holds(f, words) == <<open(<<f>>, {}), read(3, 8, [i \in DOMAIN words |-> <<0, words[i]>>]),
                     close(3)>>

\* What the shell is told to do, and what the files hold in the end.
Session(names, lines, ending) == Boot(names) \o Each(lines, shline) \o ending

Shell ==
    {Session(<<>>, << <<"echo", "a", "b", ">", "f">>, <<"cat", "<", "f">>,
                      <<"echo", "c", ">>", "f">> >>, Holds("f", <<"c", "b">>)),
     Session(<<>>, << <<"echo", "a", "b", "c", "|", "cat", ">", "g">> >>,
             Holds("g", <<"a", "b", "c">>)),
     Session(<<>>, << <<"(", "echo", "a", ";", "echo", "b", ")", ">", "h">> >>,
             Holds("h", <<"a", "b">>)),
     Session(<<"wc", "rm">>, << <<"echo", "a", "|", "wc">>, <<"wc", "README">>,
                                <<"rm", "wc", "wc">>, <<"wc", "README">> >>,
             <<fails(open(<<"wc">>, {}))>>),
     Session(<<"mkdir", "ln">>, << <<"mkdir", "d", ";", "ln", "README", "r">>, <<"ln", "d", "e">>,
                                   <<"cd", "d">>, <<"cd", "x">> >>, <<fails(open(<<"e">>, {}))>>),
     Session(<<"ls">>, << <<"ls">>, <<"echo", "a", "&">> >>, <<>>),
     Session(<<>>, << <<"echo", ")">>, <<"(", "echo">>, <<"echo", ">">>,
                      [i \in 1 .. MAXARGS |-> "echo"], <<"nosuchfile">>,
                      <<"cat", "<", "nosuchfile">>, <<>>, <<"echo", "(">>,
                      <<"echo", "&", "echo">> >>, <<>>)}
    \cup {Session(<<n>>, << <<n, "x">> >>, <<>>) :
            n \in {"zombie", "forktest", "stressfs", "cpu", "io", "kill"}}
=============================================================================
