------------------------------ MODULE UserTests ------------------------------
(***************************************************************************)
(* The programs that make the calls of Calls: usertests.c, init.c and some *)
(* races that usertests.c does not try.  A test is the sequence of its     *)
(* calls with what it expects of each; its loops run as often as it takes  *)
(* to fill a block, a pipe, a table or a cache of the small instance, and  *)
(* a printf() is left out.  The first free descriptor is 0.                *)
(***************************************************************************)
EXTENDS Calls

\* The stubs of usys.S, as user.h declares them.
Stub(op) == [NoCall EXCEPT !.op = op]
On(op, path) == [Stub(op) EXCEPT !.path = path]
Fd(op, fd) == [Stub(op) EXCEPT !.fd = fd]

mkdir(path) == On("mkdir", path)
chdir(path) == On("chdir", path)
unlink(path) == On("unlink", path)
mknod(path, major) == [On("mknod", path) EXCEPT !.n = major]
link(old, new) == [On("link", old) EXCEPT !.path2 = new]
open(path, mode) == [On("open", path) EXCEPT !.mode = mode, !.want = Fds]
exec(path, args, prog) == [On("exec", path) EXCEPT !.args = args, !.prog = prog]
close(fd) == Fd("close", fd)
dup(fd, new) == [Fd("dup", fd) EXCEPT !.want = {new}]
fstat(fd, nlink, type, size) == [Fd("fstat", fd) EXCEPT !.see = << <<nlink, type>>, <<size, "">> >>]
write(fd, data) == [Fd("write", fd) EXCEPT !.n = Len(data), !.data = data, !.want = {Len(data)}]
\* A read of n units, which is to get the data.
read(fd, n, data) == [Fd("read", fd) EXCEPT !.n = n, !.want = {Len(data)},
                                            !.see = IF data = <<>> THEN AnyData ELSE data]
pipe == Stub("pipe")
fork(child) == [Stub("fork") EXCEPT !.prog = child, !.want = Procs]
wait == [Stub("wait") EXCEPT !.want = Procs]
exit == Stub("exit")
kill(pid) == [Stub("kill") EXCEPT !.n = pid]
getpid(pid) == [Stub("getpid") EXCEPT !.want = {pid}]
sleep == Stub("sleep")
spin == Stub("spin")
sbrk(n, old) == [Stub("sbrk") EXCEPT !.n = n, !.want = {old}]
touch(addr) == [Stub("touch") EXCEPT !.addr = addr]

\* What is expected of a call: a failure, anything, or not to return.
fails(call) == [call EXCEPT !.want = {-1}]
any(call) == [call EXCEPT !.want = Results, !.see = AnyData]
never(call) == [call EXCEPT !.want = {}]

CREATE == {"CREATE"}
RDWR == {"RDWR"}
FRESH == CREATE \cup RDWR

\* n units of data, and the i-th block of a file of numbered blocks.
Units(n, v) == [i \in 1 .. n |-> <<0, v>>]
Numbered(i, n) == [j \in 1 .. n |-> <<i, "int">>]
Loop(n, Body(_)) == FlattenSeq([i \in 1 .. n |-> Body(i)])
Name(letter, i) == <<letter \o ToString(i)>>

\* The image: a text and two programs of one segment, up to its third page.
Program == << <<1, "elf">>, <<2 * PGSIZE + 1, "load">> >>
TestFiles == << [name |-> "README", data |-> Units(1, "r")],
                [name |-> "cat", data |-> Program \o Units(3, "c")],
                [name |-> "echo", data |-> Program] >>

\* echo.c writes its arguments to descriptor 1.
echo == <<any(write(1, Units(1, "e"))), exit>>
-----------------------------------------------------------------------------
(* Working directories that are removed, and opens that race with it.      *)

iputtest == <<mkdir(<<"iputdir">>), chdir(<<"iputdir">>), unlink(<<"..", "iputdir">>),
              chdir(<<"/">>)>>

exitiputtest == <<fork(<<mkdir(<<"iputdir">>), chdir(<<"iputdir">>),
                         unlink(<<"..", "iputdir">>), exit>>), wait>>

openiputtest == <<mkdir(<<"oidir">>), fork(<<fails(open(<<"oidir">>, RDWR)), exit>>),
                  sleep, unlink(<<"oidir">>), wait>>
-----------------------------------------------------------------------------
(* Files.                                                                  *)

opentest == <<open(<<"echo">>, {}), close(0), fails(open(<<"doesnotexist">>, {}))>>

writetest ==
    LET two == Units(2, "a") \o Units(2, "b")
        Put(i) == <<write(0, Units(2, "a")), write(0, Units(2, "b"))>>
    IN  <<open(<<"small">>, FRESH)>> \o Loop(2, Put)
        \o <<close(0), open(<<"small">>, {}), read(0, 8, two \o two), close(0),
             unlink(<<"small">>)>>

writetest1 ==
    LET Put(i) == <<write(0, Numbered(i, BSIZE))>>
        Take(i) == <<read(0, BSIZE, Numbered(i, BSIZE))>>
    IN  <<open(<<"big">>, FRESH)>> \o Loop(MAXFILE, Put) \o <<close(0), open(<<"big">>, {})>>
        \o Loop(MAXFILE, Take) \o <<read(0, BSIZE, <<>>), close(0), unlink(<<"big">>)>>

createtest ==
    LET Make(i) == <<open(Name("a", i), FRESH), close(0)>>
        Drop(i) == <<unlink(Name("a", i))>>
    IN  Loop(4, Make) \o Loop(4, Drop)

dirtest == <<mkdir(<<"dir0">>), chdir(<<"dir0">>), chdir(<<"..">>), unlink(<<"dir0">>)>>

exectest == <<exec(<<"echo">>, <<1, 1>>, echo)>>

\* Writes larger than a transaction.
bigwrite ==
    LET Once(sz) == <<open(<<"bigwrite">>, FRESH), write(0, Units(sz, "w")),
                      write(0, Units(sz, "w")), close(0), unlink(<<"bigwrite">>)>>
    IN  Once(WMAX - 1) \o Once(WMAX + 1) \o Once(2 * WMAX + 1)

bigfile ==
    LET Put(i) == <<write(0, Numbered(i, 5))>>
        Take(i) == <<read(0, 2, Numbered(i, 2)), read(0, 3, Numbered(i, 3))>>
    IN  <<open(<<"bigfile">>, FRESH)>> \o Loop(4, Put) \o <<close(0), open(<<"bigfile">>, {})>>
        \o Loop(4, Take) \o <<read(0, 2, <<>>), close(0), unlink(<<"bigfile">>)>>

unlinkread ==
    LET f == <<"unlinkread">> IN
    <<open(f, FRESH), write(0, Units(3, "h")), close(0), open(f, RDWR), unlink(f),
      open(f, FRESH), write(1, Units(2, "y")), close(1), read(0, 9, Units(3, "h")),
      write(0, Units(4, "h")), close(0), unlink(f)>>

linktest ==
    <<any(unlink(<<"lf1">>)), any(unlink(<<"lf2">>)), open(<<"lf1">>, FRESH),
      write(0, Units(2, "l")), close(0), link(<<"lf1">>, <<"lf2">>), unlink(<<"lf1">>),
      fails(open(<<"lf1">>, {})), open(<<"lf2">>, {}), read(0, 4, Units(2, "l")), close(0),
      fails(link(<<"lf2">>, <<"lf2">>)), unlink(<<"lf2">>),
      fails(link(<<"lf2">>, <<"lf1">>)), fails(link(<<".">>, <<"lf1">>))>>

\* The names of a directory that needs its indirect block.
bigdir ==
    LET Make(i) == <<link(<<"bd">>, Name("x", i))>>
        Drop(i) == <<unlink(Name("x", i))>>
    IN  <<any(unlink(<<"bd">>)), open(<<"bd">>, CREATE), close(0)>> \o Loop(4, Make)
        \o <<unlink(<<"bd">>)>> \o Loop(4, Drop)

subdir ==
    LET ff == <<"dd", "ff">>
        fff == <<"dd", "dd", "ff">>
        ffff == <<"dd", "dd", "ffff">>
        nodir == <<"dd", "ff", "ff">>
        nowhere == <<"dd", "xx", "ff">>
    IN  <<any(unlink(<<"ff">>)), mkdir(<<"dd">>), open(ff, FRESH), write(0, Units(2, "f")),
          close(0), fails(unlink(<<"dd">>)), mkdir(<<"/", "dd", "dd">>), open(fff, FRESH),
          write(0, Units(2, "F")), close(0), open(<<"dd", "dd", "..", "ff">>, {}),
          read(0, 4, Units(2, "f")), close(0), link(fff, ffff), unlink(fff),
          fails(open(fff, {})), chdir(<<"dd">>), chdir(<<"dd", "..", "..", "dd">>),
          chdir(<<"dd", "..", "..", "..", "dd">>), chdir(<<".", "..">>),
          open(ffff, {}), read(0, 4, Units(2, "F")), close(0), fails(open(fff, {})),
          fails(open(nodir, FRESH)), fails(open(nowhere, FRESH)), fails(open(<<"dd">>, CREATE)),
          fails(open(<<"dd">>, RDWR)), fails(open(<<"dd">>, {"WRONLY"})),
          fails(link(nodir, <<"dd", "dd", "xx">>)), fails(link(nowhere, <<"dd", "dd", "xx">>)),
          fails(link(ff, ffff)), fails(mkdir(nodir)), fails(mkdir(nowhere)),
          fails(mkdir(ffff)), fails(unlink(nowhere)), fails(unlink(nodir)),
          fails(chdir(ff)), fails(chdir(<<"dd", "xx">>)), unlink(ffff), unlink(ff),
          fails(unlink(<<"dd">>)), unlink(<<"dd", "dd">>), unlink(<<"dd">>)>>

\* Names of DIRSIZ characters and more, which are the same name.
fourteen ==
    LET n == "12345678901234" IN
    <<mkdir(<<n>>), mkdir(<<n, n>>), open(<<n, n, n>>, CREATE), close(0),
      open(<<n, n, n>>, {}), close(0), fails(mkdir(<<n, n>>)), fails(mkdir(<<n, n>>))>>

rmdot == <<mkdir(<<"dots">>), chdir(<<"dots">>), fails(unlink(<<".">>)),
           fails(unlink(<<"..">>)), chdir(<<"/">>), fails(unlink(<<"dots", ".">>)),
           fails(unlink(<<"dots", "..">>)), unlink(<<"dots">>)>>

dirfile ==
    LET xx == <<"dirfile", "xx">> IN
    <<open(<<"dirfile">>, CREATE), close(0), fails(chdir(<<"dirfile">>)), fails(open(xx, {})),
      fails(open(xx, CREATE)), fails(mkdir(xx)), fails(unlink(xx)),
      fails(link(<<"README">>, xx)), unlink(<<"dirfile">>), fails(open(<<".">>, RDWR)),
      open(<<".">>, {}), fails(write(0, Units(1, "x"))), close(0)>>

\* More directories, one in the other, than the inode cache has entries.
iref ==
    LET Once(i) == <<mkdir(<<"irefd">>), chdir(<<"irefd">>), fails(mkdir(<<>>)),
                     fails(link(<<"README">>, <<>>)), fails(open(<<>>, CREATE)),
                     open(<<"xx">>, CREATE), close(0), unlink(<<"xx">>)>>
    IN  Loop(NINODE + 1, Once) \o <<chdir(<<"/">>)>>
-----------------------------------------------------------------------------
(* Processes that share files.                                             *)

sharedfd ==
    LET Put(v) == <<write(0, Units(2, v)), write(0, Units(1, v))>> IN
    <<any(unlink(<<"sharedfd">>)), open(<<"sharedfd">>, FRESH), fork(Put("c") \o <<exit>>)>>
    \o Put("p")
    \o <<wait, close(0), open(<<"sharedfd">>, {}), [any(read(0, 9, <<>>)) EXCEPT !.want = {6}],
         close(0), unlink(<<"sharedfd">>)>>

fourfiles ==
    LET Child(i) == <<any(unlink(Name("f", i))),
                      fork(<<open(Name("f", i), FRESH), write(0, Numbered(i, BSIZE + 1)), exit>>)>>
        Check(i) == <<open(Name("f", i), {}), read(0, 9, Numbered(i, BSIZE + 1)), close(0),
                      unlink(Name("f", i))>>
    IN  Loop(2, Child) \o <<wait, wait>> \o Loop(2, Check)

createdelete ==
    LET Make(letter, i) == <<open(Name(letter, i), FRESH), close(0)>>
        Child(letter) == <<fork(Make(letter, 0) \o Make(letter, 1)
                                \o <<unlink(Name(letter, 1)), exit>>)>>
        Check(letter) == <<open(Name(letter, 0), {}), close(0), fails(open(Name(letter, 1), {})),
                           unlink(Name(letter, 0))>>
    IN  Child("p") \o Child("q") \o <<wait, wait>> \o Check("p") \o Check("q")

\* The i-th round, by what parent and child do to the file of the round.
concreate ==
    LET file == <<"C1">>
        Link == <<any(link(<<"C0">>, file))>>
        Open == <<open(file, FRESH), close(0)>>
        Opens == <<any(open(file, {})), any(close(0)), any(open(file, {})), any(close(0))>>
        Unlinks == <<any(unlink(file)), any(unlink(file))>>
        Round(parent, child) == <<fork(child \o <<exit>>)>> \o parent \o <<wait>>
    IN  {<<open(<<"C0">>, FRESH), close(0)>> \o Round(a[1], a[2]) \o Round(b[1], b[2])
           \o <<any(unlink(file)), unlink(<<"C0">>)>> :
           a \in {<<Open, Open>>, <<Link, Link>>, <<Link, Open>>, <<Open, Link>>},
           b \in {<<Unlinks, Opens>>, <<Opens, Unlinks>>, <<Unlinks, Unlinks>>}}

\* The child does any two of the three, the parent any one.
linkunlink ==
    LET x == <<"x">>
        Steps == {<<any(open(x, FRESH)), any(close(0))>>, <<any(link(<<"cat">>, x))>>,
                  <<any(unlink(x))>>}
    IN  {<<any(unlink(x)), fork(a \o b \o <<exit>>)>> \o d \o <<wait>> :
           a \in Steps, b \in Steps, d \in Steps}
-----------------------------------------------------------------------------
(* Processes, pipes and memory.                                            *)

pipe1 ==
    LET Take(i) == <<read(0, 1, Numbered(i, 1))>> IN
    <<pipe, fork(<<close(0), write(1, Numbered(1, 1) \o Numbered(2, 1) \o Numbered(3, 1)),
                   write(1, Numbered(4, 1)), exit>>), close(1)>>
    \o Loop(4, Take) \o <<read(0, 8, <<>>), close(0), wait>>

preempt ==
    <<fork(<<spin>>), pipe, fork(<<close(0), write(1, Units(1, "x")), close(1), spin>>),
      close(1), read(0, 8, Units(1, "x")), close(0), kill(2), kill(3), wait, wait>>

exitwait == LET Once(i) == <<fork(<<exit>>), wait>> IN Loop(3, Once)

memtest ==
    LET malloc(i) == <<any(sbrk(3 * PGSIZE, 0))>> IN
    <<getpid(1), fork(Loop(4, malloc) \o <<exit>>), wait>>

\* A child that exits stays in the table until wait().
forktest ==
    LET Child(i) == <<fork(<<exit>>)>>
        Gone(i) == <<wait>>
    IN  Loop(NPROC - 1, Child) \o <<fails(fork(<<exit>>))>> \o Loop(NPROC - 1, Gone)
        \o <<fails(wait)>>

sbrktest ==
    LET old == 3 * PGSIZE
        big == KERNBASE - PGSIZE
        Hog == <<any(sbrk(big - old - PGSIZE, 0)), write(1, Units(1, "x")), spin>>
        Hogs == <<fork(Hog), read(0, 1, Units(1, "x")), fork(Hog), read(0, 1, Units(1, "x")),
                  fork(Hog), read(0, 1, Units(1, "x"))>>
    IN  <<sbrk(0, old), sbrk(1, old), touch(old), sbrk(1, old + 1), touch(old + 1),
          fork(<<exit>>), sbrk(1, old + 2), sbrk(1, old + 3), wait,
          sbrk(big - old - 4, old + 4), touch(big - 1), sbrk(-PGSIZE, big),
          sbrk(0, big - PGSIZE), sbrk(PGSIZE, big - PGSIZE), sbrk(0, big),
          sbrk(old - big, big), sbrk(0, old),
          fork(<<touch(KERNBASE), never(kill(1))>>), wait, sbrk(PGSIZE, old), pipe>> \o Hogs
       \o <<sbrk(PGSIZE, old + PGSIZE), kill(2), wait, kill(3), wait, kill(4), wait,
            sbrk(-2 * PGSIZE, old + 2 * PGSIZE)>>

validatetest ==
    LET bad == 3 * PGSIZE IN
    <<fork(<<fails([unlink(<<"x">>) EXCEPT !.addr = bad]), exit>>), sleep, any(kill(2)), wait,
      fails([link(<<"nosuchfile">>, <<"x">>) EXCEPT !.addr = bad])>>

\* Arguments larger than the page of the stack, and more than MAXARG.
bigargtest ==
    LET args == [i \in 1 .. MAXARG - 1 |-> PGSIZE \div 2] IN
    <<any(unlink(<<"bigarg-ok">>)),
      fork(<<fails(exec(<<"echo">>, args, echo)), open(<<"bigarg-ok">>, CREATE), close(0),
             fails(exec(<<"echo">>, args \o args, echo)), exit>>),
      wait, open(<<"bigarg-ok">>, {}), close(0), unlink(<<"bigarg-ok">>)>>

bsstest == <<touch(2 * PGSIZE)>>

\* An I/O instruction faults, as an access outside of the program does.
uio == <<fork(<<touch(-1), never(sleep)>>), wait>>

argptest == <<open(<<"README">>, {}), fails([Fd("read", 0) EXCEPT !.addr = 3 * PGSIZE - 1,
                                                                  !.n = -1]), close(0)>>

\* main(): only one run of the tests per image.
once == <<fails(open(<<"usertests.ran">>, {})), open(<<"usertests.ran">>, CREATE), close(0)>>

alone == {iputtest, exitiputtest, openiputtest, opentest, writetest, writetest1, createtest,
          dirtest, exectest, bigwrite, bigfile, unlinkread, linktest, bigdir, subdir,
          fourteen, rmdot, dirfile, iref, sharedfd, fourfiles, createdelete, pipe1, preempt,
          exitwait, memtest, forktest, sbrktest, validatetest, bigargtest, bsstest, uio,
          argptest}
Usertests == {once \o t : t \in alone} \cup concreate \cup linkunlink
-----------------------------------------------------------------------------
(* Pairs of calls in a directory that usertests.c does not run against each*)
(* other: one is made by the parent, one by the child.                     *)
Races ==
    LET x == <<"d", "x">>
        Calls == {<<any(open(x, FRESH)), any(write(0, Units(1, "w"))), any(close(0))>>,
                  <<any(unlink(x))>>, <<any(mkdir(<<"d", "x">>))>>, <<any(unlink(<<"d">>))>>,
                  <<any(link(<<"f">>, x)), any(unlink(<<"f">>))>>,
                  <<any(chdir(<<"d">>)), any(open(<<"z">>, CREATE))>>,
                  <<any(exec(<<"echo">>, <<1>>, <<any(open(<<"d">>, {})), exit>>))>>}
    IN  {<<mkdir(<<"d">>), open(<<"f">>, CREATE), close(0), fork(a \o <<exit>>)>> \o b \o <<wait>> :
           a \in Calls, b \in Calls}

\* Tables that are full, files that are no programs, memory that is used up.
Limits ==
    LET Open(i) == <<open(<<"README">>, {})>>
        Bad(head, kind) == <<open(<<"p">>, FRESH), write(0, <<head, <<2 * PGSIZE, kind>> >>),
                               close(0), fails(exec(<<"p">>, <<1>>, echo))>>
        Big == <<open(<<"p">>, FRESH), write(0, << <<1, "elf">>, <<7 * PGSIZE, "load">> >>),
                 close(0), fails(exec(<<"p">>, <<1>>, echo))>>
        elf == <<1, "elf">>
        Grower(i) == <<fork(<<any(sbrk(3 * PGSIZE, 0)), spin>>)>>
    IN  {Loop(NOFILE, Open) \o <<fails(open(<<"README">>, {})), fails(dup(0, 0)), fails(pipe),
                                 close(0), fails(pipe), fails(write(1, <<>>)), close(1), pipe>>,
         Loop(3, Open) \o <<pipe, fork(<<close(0), open(<<"README">>, {}), close(1),
                                        fails(open(<<"README">>, {})), exit>>), wait>>,
         <<open(<<"e">>, FRESH), write(0, <<>>), close(0), fails(exec(<<"e">>, <<1>>, echo)),
           open(<<"e">>, {"WRONLY", "CREATE"}), fails(read(0, 1, <<>>)), link(<<"e">>, <<"f">>),
           fstat(0, 2, "file", 0)>>,
         Bad(<<1, "text">>, "load") \o Bad(elf, "filesz") \o Bad(elf, "align"),
         Bad(<<2, "elf">>, "note") \o Big,
         <<sbrk(4 * PGSIZE, 3 * PGSIZE), fork(<<spin>>), fork(<<spin>>), fails(fork(<<exit>>)),
           kill(2), kill(3), wait, wait, fails(kill(2))>>,
         <<sbrk(PGSIZE, 3 * PGSIZE), pipe>> \o Loop(2, Grower) \o
         <<fork(<<any(sbrk(PGSIZE, 0)), spin>>), any(sbrk(PGSIZE, 0)), kill(2), wait, kill(3),
           wait, kill(4), wait>>,
         <<mknod(<<"con">>, CONSOLE), open(<<"con">>, RDWR), any(read(0, 2, <<>>)),
           mknod(<<"dev">>, CONSOLE + 1), open(<<"dev">>, RDWR), fails(read(1, 1, <<>>)),
           fails(write(1, Units(1, "x")))>>,
         <<pipe, fork(<<fails(read(0, 1, <<>>))>>), kill(2), wait>>,
         <<pipe, fork(<<fails(write(1, Units(PIPESIZE + 1, "x")))>>), kill(2), wait,
           close(0), fails(write(1, Units(PIPESIZE + 1, "x")))>>}
-----------------------------------------------------------------------------
(* init.c: the console as descriptors 0, 1 and 2, and a shell that it      *)
(* starts again when it has exited.                                        *)
initmain ==
    LET con == <<"console">>
        sh == <<exec(<<"echo">>, <<1>>, echo)>>
    IN  <<fails(open(con, RDWR)), mknod(con, CONSOLE), open(con, RDWR), dup(0, 1), dup(0, 2),
          fork(sh), wait, fork(sh), wait>>
=============================================================================
