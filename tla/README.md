# A verification project for lighttpd-autothumb

lighttpd 1.4 with the `mod_autothumb` thumbnail module: one single-threaded
process (or several workers after a `fork()`), an event loop, a table of
connection objects with a state machine each, and plugins that answer requests.
This directory holds TLA+ models translated from the C code, the TLC
configurations that check them on small instances, and TLAPS proofs of what
holds for every value of the constants.

## 1. The system

### Components

| component | state it keeps | operations | talks to |
|---|---|---|---|
| main loop (`server.c`) | signal flags, `cur_ts`, `sockets_disabled`, `want_fds`, `cur_fds` | second trigger and timeouts, enable/disable of the listen sockets, fdwaitqueue, poll and dispatch, joblist, graceful shutdown, parent/worker `fork()` loop | everything |
| connections (`connections.c`) | a table of connection objects; per connection the state, flags, queues, time stamps | accept, state machine, event handler, lingering close, reset | fdevent, chunk queues, plugins, joblist |
| joblist, fdwaitqueue (`joblist.c`) | two arrays of connections | append, unshift | state machine, main loop |
| fdevent (`fdevent*.c`) | registered descriptors with handlers and contexts; the kernel's interest set | register, unregister, set, del, poll, dispatch lookup | kernel |
| network (`network*.c`) | listen sockets; global bytes counter | accept loop, write of a chunk queue with traffic limits | kernel, chunk queue |
| chunk queues (`chunk.c`, `http_chunk.c`) | list of memory/file chunks, `bytes_in/out` | append, prepend, remove finished, reset | writer, handlers |
| request and response (`request.c`, `response.c`, `http-header-glue.c`) | the parsed request, the response header | parse, prepare with the hooks of the plugins, conditional answers, write header | state machine, plugins |
| configuration (`configfile-glue.c`) | per connection the results of conditions, the settings patched from them | check, reset, patch | every plugin |
| stat cache (`stat_cache.c`, `splaytree.c`) | a splay tree of entries by hash, one of directories for FAM | get entry, events, periodic clean-up | file system |
| plugins (`plugin.c`) | hook tables, `con->plugin_ctx` | calls of every hook in order | all modules |
| gateways (`mod_proxy`, `mod_fastcgi`, `mod_scgi`, `mod_cgi`) | backend descriptors, load and availability of hosts and processes, children | connect, write, demultiplex, disable, re-enable, spawn, environment, header of the answer | fdevent, joblist |
| thumbnails (`mod_autothumb.c`, `autothumb/*`) | files in the store shared by all workers | URI parsing, scaling, store, convert | file system, stat cache |
| FastDFS images (`mod_fastdfs.c`) | a remote store shared by all workers | look up, resize an original, upload the slave, ranges | client library |
| static files, compression, WebDAV, passwords | cache files, a database of properties and locks, password files | one handler per request | file system, stat cache |
| supervisors (`lighttpd-angel.c`, worker loop) | child pids, signal flags | fork, wait, forward signals | processes |

### What is hard

* One object is changed from many places: its own state machine, the event
  handler of its descriptor, the event handlers of its backend, the trigger of
  the main loop. Each of them relies on the others to run the machine
  afterwards (joblist, epoll, fdwaitqueue); if none does, the connection hangs
  for ever - nothing else looks at a connection in HANDLE_REQUEST.
* epoll reports a set of events, and the handlers of one event may close the
  descriptors of another before it is dispatched.
* Objects and descriptors are recycled: what is not reset leaks from one client
  to the next.
* Time stamps have a resolution of one second and are partly never reset.
* Clients stop sending, stop reading, half-close, reset or disappear in every
  state; backends refuse, hang up, die, and cut their answers anywhere.
* Loads, descriptors and children are counted by hand on every path of failure.
* What was computed from a request (conditions, settings, the environment of a
  gateway, the entry of the stat cache) is used after the request has changed.
* Several workers write the same file - a thumbnail, a compressed copy, a slave
  in the FastDFS store - without a lock.

### What makes each component correct

* **Connections**: nothing forgets a connection that still has something to do;
  an answer that was begun is logged exactly once; an object that is given to
  the next client carries nothing of the last one; silent clients are given up.
* **Main loop and table**: descriptors, their owners, `cur_fds` and epoll agree;
  an event reaches the object it was reported for; the loops that walk through
  the table while connections leave it miss nobody for long; a graceful
  shutdown ends.
* **Workers and angel**: a missing server or worker is replaced, none is left
  behind, a signal that is forwarded arrives once and is not lost.
* **Gateways**: every load, descriptor and child is accounted for, whichever
  side goes first; a request is not asked twice and is not forgotten between two
  tries; records, environments and headers carry what was sent.
* **Requests and answers**: an accepted request has one length and one host;
  the client can tell where an answer ends; bytes go out in order and once.
* **Files**: who is told that its copy is current has the current one; a cached
  copy, a thumbnail, a slave is whole; what WebDAV says it did is done, what it
  refused changed nothing; who is let in has the password.
* **Configuration**: the blocks in force are those whose conditions hold now.

`PROJECT.json` lists the hazards behind these, each at its line of the code, and
the properties that watch it.

## 2. The modules

| module | models | composed of |
|---|---|---|
| `Lifecycle` | what a connection object promises, without queues, descriptors or time: taken, serving, answering, lingering, free | - |
| `Connection` | one connection: state machine, event handler, trigger, `mod_proxy`'s events, the phases of the main loop around them | refines `Lifecycle` |
| `MCConnection` | a connection with two sets of bounds (a gateway under a traffic limit; a client that sends ahead), its answer, its write backends | `Connection` twice, `Response`, `Chunks` |
| `MCLive` | liveness of a connection, and of the server with two | an instance each of `Connection` and `Server` |
| `ConnectionProofs` | theorems about the connection, its answer and the chunk queue it writes | `Connection`, an instance each of `Chunks` and `Response` |
| `ConnTable` | `connections_get_new_connection()` and `connection_del()` on the table | - |
| `Server` | main loop with several connections, descriptors, epoll, queues, listen socket, shutdown | extends `ConnTable` |
| `ServerProofs` | theorems about the table, and about the main loop that uses it | `Server` |
| `Workers` | the parent with its workers, signals and deaths | - |
| `AutoThumb`, `MCAutoThumb`, `AutoThumbProofs` | `mod_autothumb` with the file store, several workers on one store; its workers as a symmetric set; theorems, also about `Crop` | an instance of `Crop` (the theorems) |
| `FastCGI`, `SCGI` | hosts, processes, loads, reconnects, the events of a backend, the trigger that starts dead processes | - |
| `CGI` | the child of a script, its pipes and its number, the parsing of what it writes | - |
| `Proxy` | choice of a host by three balances, disabling and re-enabling, restarts of a request | - |
| `FcgiRecords` | a body cut into records, an answer put together from reads of any size | - |
| `GatewayEnv` | PATH_INFO and the environment of all three, for every host that is tried and the error handler | - |
| `GatewayHeader` | the header a backend answers with, X-Sendfile and X-Sendfile2 | - |
| `GatewayProofs`, `ScgiProofs` | theorems, for any number of hosts, processes and requests | an instance each of `Proxy`, `CGI`, `FastCGI`; one of `SCGI` |
| `StepLemmas` | what recursive functions of a number of steps are: they exist, and keep what each step keeps | - |
| `MCGateways` | instances of the seven above, side by side | all of them |
| `Angel` | `lighttpd-angel.c` | - |
| `ProcessProofs` | theorems about `Workers` and `Angel` | `Workers`, an instance of `Angel` |
| `Crop` | the arithmetic of the "C" format of `thumbnail.c` with a `size_t` of any width | - |
| `RequestParser` | `http_request_parse()`, `request_check_hostname()` | - |
| `Response` | the hooks, the error handler, header and framing of the answer, content before and after it | - |
| `Chunks` | the chunk queue and the write backends on it | - |
| `StaticFile` | validators, dates and ranges of a file that changes | - |
| `StatCache`, `SplayTree` | the cache, its trees, FAM, the clean-up | `StatCache` extends `SplayTree` |
| `Auth` | `auth.require`, password files, basic and digest | - |
| `WebDAV` | the methods that change files, properties and locks | - |
| `Compress` | the cached copies that workers make | - |
| `Conditions` | conditional blocks, their cache, rewrite, redirect, extforward | - |
| `Fastdfs` | `mod_fastdfs` with several workers on one store | - |
| `StoreProofs` | theorems about the two | `Compress`, an instance of `Fastdfs` |
| `MCModules` | instances of `Workers`, `Angel`, `Crop`, `RequestParser`, and of `StaticFile` to `Fastdfs`, side by side | all of them |

Components that share no state are checked in one run each: a variable `part`
says which one a behaviour is of, `Init` chooses it, and the variables of the
others keep one value (`nil`, or what they begin with). So their states add up
instead of multiplying, and one property of the run says for each part what is
to hold of it. The bounds stand beside the `INSTANCE`s.

### Connection

State is that of `connection` in `base.h`, with the same names; `interest` is
what epoll waits for on `con->fd`, `gateway` is the handler context of
`mod_proxy`, `hosts` how many backends are not disabled, `phase`/`ready` where
the main loop is and what the last poll reported, `rx`/`peer`/`room` the
kernel's socket. `logged` and `con_open` count the calls of
`handle_request_done` and `con_opened - con_closed`.

* One iteration of `while (done == 0)` in `connection_state_machine()` is one
  action per state (`RequestStart` ... `Close`); `Leave` is the end of the
  loop with the `switch` that chooses the events to wait for. `Enter` is a
  call of the machine from `MainLoop`.
* Between two iterations the client acts (`Client`: sends, half-closes, resets,
  vanishes). Bytes are units: one that ends a request or one that does not.
* `HandleFdevent` is `connection_handle_fdevent()`, `Gateway` the events of a
  backend, `NewSecond` the trigger of `server.c` with its time-outs.
* Time stamps are ages, cut off one second beyond what they are compared with,
  so time is unbounded in the model. The clock may jump by up to `MaxJump`.
* `HANDLER_COMEBACK` restarts the same state and is a stutter. Outcomes that
  depend on content (is the header valid, which handler takes the URI, what
  status) are chosen freely; `RequestParser`, `Response` and `GatewayHeader`
  say how they come about.

### ConnTable and Server

`ConnTable` is `conns->ptr`, `conns->used` and `con->ndx`. `Server` extends it
by the main loop: `phase` is the place in `while (!srv_shutdown)` and `i` the
index of the loop that runs. Descriptors are numbers and a new one is the lowest
free one, as `accept()` and `socket()` promise; so `con->fd` of a closed
connection soon is the number of another one, which is what the properties are
about. The states that the machine passes within one call (`reqstart`, `reqend`,
`readpost`, `respstart`) are merged with their neighbours. Signals are delivered
only in the phases whose code reads the flags: a delivery elsewhere is seen at
the same place and nothing else looks at the flags.

### Workers and Angel

Signal handlers of the workers' parent only set flags, so a handler is one step
at any place (`Deliver`); the parent's code is cut at every read of a flag and
at every system call. The handlers of the angel sleep and wait, so they are
pushed onto `handlers` and interleave with the main loop and with each other
(the `sa_mask` is empty). Pending signals of one kind coalesce. A signal is
delivered before the process goes on from a system call. Between `fork()` and
`execvp()` a child of the angel still has the angel's handlers: `TakesForked` and
`TakesNamed` are what they do with the child's copy of `pid`, and `told` remembers
who was sent a signal, whatever the child made of it.

### AutoThumb, Compress, Fastdfs: workers on one store

In `AutoThumb` a file is a sequence of blocks, each `data`, or a `hole` left by a
writer whose file was truncated under it; what a worker has in memory may also
be `garbage` (what `malloc()` returned and `fread()` did not fill). `fopen("wb")`,
each block written, `ftell()` and each block read are steps of their own. A
worker may die anywhere, a write may fail.

In `Compress` a copy is there as soon as it is created with `O_EXCL`; compressing,
closing and removing it are steps of their own. The file may be written
meanwhile, and what a worker knows of it is the stat cache's of this second.
In `Fastdfs` each call of the client library is one step, which may fail, and
images may be deleted between any two. A buffer is a sequence with its NUL, so
that what `used` counts, and what `chunkqueue_append_buffer()` leaves out, is
computed and not assumed.

### Gateways

`FastCGI` and `SCGI` have the states of their `handler_ctx` and the queues that
go on with a request (joblist, fdwaitqueue, the events of its socket); each
backend may refuse, break off before or after it has seen the request, and die;
`waitpid()` is called by whoever notices. `SCGI` keeps its list of processes in
the order of their load, whose insertions and moves are modelled as the code does
them. `CGI` lets the numbers of children be used again by the system. `Proxy`
numbers hosts from 0 and computes the balances, with time as ages of `Second`s.
The loads of `FastCGI` are exact; those of `SCGI`, which its paths of failure give back
in different ways, are bounded by `MaxLoad` and only shown not to fall below the
requests (`LoadKept`), and to be exact as long as no request was reconnected (`ListSorted`).
A request that goes on from the joblist of `FastCGI` may be appended to the same list, since
nothing in the code remembers that it is in it. In `Proxy` a `connect()` fails after any
`ConnectTime`, also one that is longer than a host stays disabled.

### Requests, answers, files

* `RequestParser` takes header lines by their kind. Hosts are sequences of characters,
  as `request_check_hostname()` reads them one by one; every host of up to
  five is an input. A folded line is appended to the stored value of the last header;
  `field` is what `con->request` points into: the same value, unless its buffer (of `Room`)
  had to move.
* `Response` has one action per hook (`GO_ON`, `COMEBACK`, `FINISHED`, a mode) and
  `http_response_write_header()`; the queue is a sequence of header, content and
  the parts of a chunk, so that framing is read off what is sent. A backend may send less
  or more than it has announced, and goes on (`Late`) when the answer has no content.
* `Chunks`: the content is made of numbered units; each backend is an operator from
  queue and room in the socket to what was written, as its loops do it. The file changes
  its length at any time. A mapped one can be read to the end of its last page (`PageEnd`),
  with zeros behind its end; `write()` from beyond that fails with EFAULT or is short. The
  mapping of `network_write.c` has the length of a file that the stat cache remembers, and
  what is in memory behind it may be sent.
* `StatCache` follows `splaytree_splay()` and the entries by hash, with two names
  of the same hash. FAM's events come late. `StaticFile` lets the file change, be
  put back with an old date, and be asked for with every combination of validators
  that a client can have got.
* `WebDAV`: a worker handles a request as a whole; the file system is a function of
  paths, and a full disk, a short write and undeletable files are circumstances
  of a request.
* `Conditions`: an item that conditions compare is one of few values; blocks have
  parents and earlier brothers; the plugins between the hooks change items.

## 3. What is checked

Each passing run asks one question. The bounds are small because the states are
many; each case the properties are about needs no more.

| run | bounds | what it shows |
|---|---|---|
| `connection` | one connection at a time; either one unit in the kernel's buffer, one chunk per handler, one gateway host, traffic limit, error handler and a clock that jumps by up to two seconds, or two units in flight, a header of up to two and no gateway; answers of up to two units that go back to the beginning once; files of three units, queues of three chunks, every size of write | `NobodyForgotten`: a connection at rest has somebody who runs it again, and no complete request waits in `read_queue`, for which the kernel has no event; `Logged`: an answer is logged once and not lost; `CountsRight`: `con_opened`, `con_closed` and the limit of requests as the code has it; `DispatchedRegistered`; `FreeIsClean`: nothing of a client reaches the next; `FreshWriteStamp`: `write_request_ts`, which is never reset, is fresh whenever it is compared; `ImplementsLifecycle`: the refinement; `Agree`: framing of answers, order of bytes, and which bytes of a file that changes are not its own |
| `live` | one connection with one host, no traffic limit, one request each time it is opened; or two connections with keep-alive | `Reclaimed`: whatever a client does or fails to do, its object is taken back, unless a backend keeps the request for ever; `IdleExpires`: a connection beyond its time is dealt with although the loop may skip it this second; `GracefulStops` |
| `server` | two connections and a gateway on five descriptors, so that both limits are reached and numbers are used again | `RecordsAgree`: table, owners, `cur_fds` and epoll; `EventsFresh`, `Watched`, `TableOK`, `IndexNeverGrows`, `AcceptsOnlyEnabled` although the machine runs for closed connections and connections leave the table under the loops |
| `autothumb` | three workers (interchangeable: symmetry), two requests each, one thumbnail of two blocks; deaths and a full disk | `StoreServes`: after the last writer a file is whole unless one failed, each worker makes it once, a settled one is sent whole; `SettledStays`. Three workers are a reader and two writers at once; two blocks tell a whole file from a cut one and from one with a hole |
| `gateways` | two requests on one process, or one on two hosts, with one or two failures; a connection that runs three scripts with two numbers of processes; three balances with two or three hosts, which fail sooner or later than they are enabled again; records of three bytes; paths of up to seven characters, headers of up to three lines in every order | `CountsAgree`: loads, usage, descriptors, the order of SCGI's list; `AskedOnce`, `Continued`, `ChildrenKept`, `Whole`: bodies, answers, environments, headers; `Turns`: the balances; `Ends`: requests and scripts end |
| `modules` | beside each `INSTANCE` in `MCModules`; two workers, two signals, two deaths | `NoneLost`: missing workers are counted, none is left when the parent goes; `HupsEnd`, `Replaced`; `AngelSafe`, `StartTaken`; `Reference`: the cut lies in the image, an accepted request has one length and one host, and where a folded line makes others see another; `Remembered`: files, stat cache, FastDFS images; `Trusted`: passwords, WebDAV, compressed copies, conditions |

The properties of a part have names of their own in its module (`AnswerFramed`,
`NothingLost`, `WholeOrWritten`, `Decided`, ...), each with a comment; the run's
property is their conjunction. Where the code does not do what one would wish, the
property says exactly where: its premise names the case, and the list below the
code.

Deadlock is checked for `Connection`, `Response`, `Chunks` and `Server` (`Terminated` is a
regular end); the others come to an end.

### Fairness

* `Connection`, `Server`: weak fairness of the server's own steps: one thread
  that never waits for anything but `epoll_wait()` with a time-out of a second,
  so it always takes its next step. Strong fairness of `NewSecond`: the clock
  is not seen at the same second for ever. There is none of clients, of
  backends, or of `accept()`.
* `Workers`, `Angel`: weak fairness of each process, and of a server that was
  told to end (its main loop reads the flag). A worker that was not told to end
  need not. A server that took the signal before `execvp()` does not end, so `StartTaken` makes an
  exception of it (`Escaped`).
* `FastCGI`: weak fairness of the server's steps for each request and of backends, which
  answer or go away; without the latter a request waits as long as its
  client does. `CGI`: of the server, of the script (one that never ends keeps its
  request, which no time-out of the server's watches) and of the trigger that collects
  children. `Proxy`: of the server, the hosts' answers and the clock. `Ends` is checked for
  one request on two FastCGI hosts, for all scripts, and for one request on three hosts
  of `mod_proxy`; of `SCGI`, which can forget a request (`doc_scgi_reconnect`), it says
  nothing; of `mod_proxy` it says that a request ends, or that it has seen a host come back
  while all hosts together fail more slowly than that.

### Where code and documentation disagree

* `doc_content`: `mod_autothumb` finishes a request with nothing to send - a
  thumbnail that another worker has just truncated, or a request it took the
  mode of but does not answer (a POST) - and without `file_finished`. The state
  machine makes that a 200 with "something to send" and the client waits until
  the write time-out.
* `doc_stop`: a SIGINT or SIGTERM between the parent's test of the flags and
  `wait()` is noted but does not end the server.
* `doc_scgi_reconnect`: an SCGI request that fails in an event of its backend is to
  be set up again, but is in no queue from which somebody would do it.
* `doc_proxy_body`: a request with a body that goes to a second host has given its
  body to the first.
* `doc_cgi_eof`: a script's text without a header and without an end of line is to be
  sent as "a body in reality", but is dropped when it is read together with the end of
  the pipe.
* `doc_keepalive`: `response.c:48` compares `request_count` with `>` after counting: one
  request more than `server.max-keep-alive-requests` is answered on a connection.

Read in the code while modelling, without a run of their own:

* `server.c:1368`: in a graceful shutdown the listen socket is closed, and the pid
  file unlinked, only in the branch that disables the sockets. When they are disabled
  already, it stays open until the process ends.
* The loop of the trigger (`server.c:1244`) skips the connection that
  `connection_del()` moves to the place of the one it has just closed. It is
  looked at a second later (`IdleExpires`).
* SIGHUP has the window of `doc_stop`, too.
* `lighttpd-angel.c`: a server that gets the signal of a graceful restart between `fork()`
  and `execvp()`, in the handler it has from the angel, does not shut down but serves beside
  the new one ("do a graceful shutdown on the main process", line 49; `Escaped` is the
  case); a server that crashes while the angel is not in `waitpid()` is reaped by the
  handler and not started again; a child whose `pid` is still 0 sends the signal to its
  whole process group, itself too, and so for ever; a SIGHUP just after `waitpid()` has
  found the old server ends the angel; a signal before the first `fork()` goes to pid -1.
* `mod_autothumb.c:457` asks for the time stamp of a path that has `store_root`
  twice: the answer that follows the making of a thumbnail is dated 1970.
  `thumbnail.c:98`: `100 - y` is unsigned; for a `y` above 100 the rectangle is
  cut far outside of the image (`Sensible` leaves that out).
* Gateways: FastCGI drops a header that begins as "Status" does; an authorizer
  consumes the body; X-Forwarded-For is appended again for each host of a proxy; while
  hosts of a proxy fail more slowly than they are enabled again, a request goes round; an
  SCGI request that is given up with a 503 in an event of its backend is in no queue, like the
  one of `doc_scgi_reconnect`;
  PATH_INFO of the first attempt is kept for the error handler; a later range of
  X-Sendfile2 that fails leaves the earlier ones in the answer.
* Requests: a folded line extends the stored header and what points into it, but
  Content-Length was read before, so a gateway gets another one than the server uses; when
  the buffer moves, `con->request` points to what was freed, as it does after a second Range
  behind one that could not be read; hosts are accepted that the comment at `request.c:25`
  excludes, with a label that ends with "-", a last one that begins with a digit, or ".." at
  the end (`HostRight` says how far); a 505 leaves `keep_alive` as it was.
* Answers: what a backend sends while the header of a HEAD or 204 answer waits for the
  client is appended to it ("the same as a GET without the content", `connections.c:604`),
  and nobody compares what a backend sends with the length it has announced: the connection
  is kept (`AnswerFramed` says so of both); queue and headers of the first attempt are not
  reset for the error handler.
* Static files: an If-Modified-Since that is the beginning of the date gives a 200
  without content; a date in the future of a backdated file gives a stale 304.
* Stat cache: the second of two paths with one hash fills the entry of the first; content
  type and etag are those of the first connection's configuration; a directory that
  FAM lost begins again with version 1.
* Files that become shorter while they are sent: `network_writev.c` sends zeros up to the end
  of the page, `network_write.c` also what the memory has behind its mapping (`Genuine`);
  beyond that the answer ends with an error.
* Passwords: the rules are searched with the case of the URL although the path was
  matched without it; a line that cannot be read ends the search; realm and uri of
  a digest are the client's and its nonce is not remembered; `host=` and `group=`
  are not implemented.
* WebDAV: LOCK looks for locks under the path of the last Destination, so two exclusive
  ones can be given; locks do not expire; any If header is enough; COPY onto itself
  empties the file; a short write and a failing `mkdir()` are not noticed, and MOVE
  then removes the source; a DELETE of a file leaves its properties.
* Compression: an incomplete copy is sent while it is written, and for ever when its
  worker died; without etags and with a cache directory every compressible file is
  a 403.
* Conditions: an else-branch may be decided before its earlier brother can be
  (`configfile-glue.c:260`), and its settings stay; when extforward replaces the
  address, settings that depended on the proxy's stay; with `"all" => "trust"` and a
  rewritten request the address of the connection is lost.
* FastDFS: a resized image has no NUL, so the first answer lacks its last byte and has
  the etag of the whole; Content-Range names one byte more than is sent; a method
  other than GET is taken and not answered.

## 4. What is proved

The modules whose names end in `Proofs` hold theorems that TLAPS checks, for every
value of the constants that the named assumptions allow: natural numbers; a table of
at least one place; connections for at most half of the descriptors, as `server.c` has it
(`ServerAssumption`); a finite number of workers, at least `max_worker` process
slots for them, none of which is the parent (`WorkersAssumption`); for the gateways a finite number of requests
and at least one host. `Angel`, `Chunks`, `Compress`, `Crop`, `CGI`, `FastCGI`, `Fastdfs`,
`Proxy`, `Response`, `SCGI` and `Workers` are instances in the runs, so their assumptions are definitions
(`AngelAssumption`, `ProxyAssumption`, ...) that the theorems name after `ASSUME` and that an
`ASSUME` of the MC module has TLC evaluate for the instances it checks. What they ask for
beyond natural numbers:

* `SCGIAssumption`: fewer requests than a `size_t` has values, so that a load that counts
  them never wraps around. One that is given back twice does, after a reconnect, so `ListSorted`
  says nothing of what comes after one; how many the server allows is any number.
* `ProxyAssumption`: the weights of `hash` are natural numbers. Nothing is asked of
  times.
* `CropAssumption`: the products `covert_image()` makes of sides and places fit into a
  `size_t`. Nothing in the code sees to that, but no image has a side of 2^28 pixels.
* `CompressAssumption`: `allowed_encodings` holds encodings that `mod_compress.c` knows; it sets
  no other bit.
* `FastdfsAssumption`: a configured size is "*" or a width and a height, as
  `SETDEFAULTS_FUNC` splits them; sizes of files and places of ranges are natural numbers.
* `ChunksAssumption`: a page, a window and an iovec hold at least one; the backends are those of
  the module. How many chunks are appended, and of which length, is any number.
* `ResponseAssumption`: there is a hook, and none has the name of a place of the module
  (`"file"`, `"write"`, ...), which `pc` takes both from. Methods and statuses are those of the
  module; requests, hooks and the length of an answer are any.

* **Types** (`TypeCorrect`): `TypeInv` is `TypeOK` with a bound on the hosts that
  can still be disabled (`HostInv`). The proof goes per group of variables
  (flags, data, queues) and per action.
* **Accounting and events** (`CountsRightHolds`, `DispatchedRegisteredHolds`):
  the invariant is `CountInv`. An event that was polled is dispatched later,
  when other handlers have run; to know that its descriptor is still registered
  one has to know what `ready` says about state, peer and interest (`ReadyInv`),
  and that a free object has no client and no backend (`OwnerInv`).
* **Logging** (`LoggedHolds`): `LogInv` says in which states a request has a status,
  was logged, and how far keep-alive may go. None of these is inductive without
  the others, since the error page, the error handler and the reset change them
  together.
* **Refinement** (`LifecycleImplemented`): every step of `Connection` is a step of
  `Lifecycle` or leaves its variables alone, under `CountInv`, `LogInv` and
  `GatewayInv` (a backend that has not begun its answer belongs to a request in
  HANDLE_REQUEST, so its failure cannot touch an answer that is on its way).
* **What is left behind** (`FreeIsCleanHolds`, `FreshWriteStampHolds`): `ServeInv` says
  for each state what the reset has put back or has still to (`ResetInv`), how old the
  stamps may be (`StampInv`), and who goes on with an answer: one that is not finished has
  a backend, one that is finished leaves WRITE only with its last chunk (`AnswerInv`).
* **Nobody forgotten** (`NobodyForgottenHolds`): `RestInv` separates "nothing runs" from
  "a round is over". Whenever the machine does not run and the joblist is empty, the
  connection is in a state that an event, a queue or the trigger takes it out of; whoever
  changes that behind its back has put it into the joblist, which is empty when the next
  round begins. `QueueInv` adds that READ and READ_POST are left only when all that was
  read has been looked at.
* **Table** (`TableConsistent`, `IndexNeverGrowsHolds`): `TableInv` for a table of any
  size. Taking a connection out moves only the last one, and to a lower index: a
  loop that goes down from the end would miss nobody; one that goes up, as that
  of the trigger, can miss one.
* **The table in use** (`ServerUsesTable`, `ServerTableOK`, `ServerIndexNeverGrows`):
  every step of `Server` is a step of `ConnTable` or leaves the table alone, so
  the theorems above hold in the server. `RunInv` says that the queues and the
  place where the machine runs hold nothing but connections; they may be closed
  ones.
* **Descriptors** (`ServerTypeOK`, `ServerRecordsAgree`): the invariant is `OwnInv`: every
  open descriptor has exactly one owner, in the records of fdevent and in the
  connections, and `cur_fds` is the number of them (`DescInv`); a connection is in the
  table unless its state is CONNECT; which descriptors of a backend a request has, and what
  epoll waits for on it, follows from where the request is (`Requests`). Steps of the
  machine for a closed connection are the delicate ones: it still has the number of its
  descriptor, which is somebody else's by now.
* **Events** (`ServerEventsFresh`, `ServerAcceptsOnlyEnabled`): `EventInv` says that every
  event of a round is still its owner's, that one of the listen socket is there only while the
  sockets are enabled, and that a connection the machine runs for before the dispatching
  is over has none left. A new descriptor cannot have the number of an event's: those are open.
* **Waiting** (`ServerWatched`): `WatchInv`: every connection in use is the one that runs, is in
  the joblist, or has the kernel or the fdwaitqueue to wait for; the joblist is
  empty when the round is over.
* **Thumbnails** (`AutoThumbTypeOK`, `AutoThumbStoreServes`, `AutoThumbSettledStays`):
  `Typed` adds to the types how much a worker has read and that no file
  disappears. That the store settles follows from `Backed`: a block that is missing
  in a file is still ahead of a worker that writes it. It is inductive because
  whoever truncates the file starts at block one. `Served` follows one request, with
  `SettledStays` for the steps of the others; `CreatedOnce` counts the workers that
  have not found the file, and have not created it yet, with those that have.
* **Workers** (`WorkersTypeOK`, `WorkersNoneLost`, `WorkersHupsEnd`): the count of
  missing workers and the range of `num_childs` depend on each other (`Counts`).
  `HupsEnd` is not inductive: `HupsAdded` adds up the SIGHUPs that are pending, noted
  and about to be sent, one of which is the parent's own exactly while
  `forwarded_sig_hup` is set. A SIGHUP from outside that is delivered between the
  setting of that flag and `kill()` takes its place, and the sum stays right.
* **Angel** (`AngelSafeHolds`): the handlers interrupt `main()` and each other anywhere, so the
  invariant `AngelInv` says for each place of `main()` which servers have not been told to end
  (`Untold`): none but the child `pid` names, or between `fork()` and its assignment the latest
  (`ServingInv`), and none at all where `start_process` is or is about to be set (`StartInv`) -
  except just after a `fork()`, where `main()` clears it. Told is who was sent the signal: a
  child that has not reached `execvp()` may serve all the same. What such a
  child sends to others only makes fewer of them untold. At most two handlers are active at once
  (`Stacks`).
* **mod_proxy** (`ProxyTypeOK`, `ProxyUsageAgrees`, `ProxyContinued`, `ProxyTurns`): the invariant
  `ProxyInv` ties state, mode, host and socket of a request to each other; `ProxyMoves` is what
  any step makes of the one request it is for, and with it the number of requests
  on each host follows. `ProxyTurns` is not inductive: a host has been passed over at most
  as often as there are hosts from it round to the one used last (`Behind`), since
  a turn never goes beyond a host that is enabled. None of this depends on how fast a host
  fails or is enabled again.
* **mod_cgi** (`CGITypeOK`, `CGIChildrenKnown`, `CGIDescriptorsKept`): `CGIInv` says of each number
  of a process who knows it (`Known`). The number may be given to another child as soon as
  it was waited for, so each step has to show that nobody keeps it beyond.
* **mod_fastcgi** (`FcgiTypeOK`, `FcgiLoadsAgree`, `FcgiAskedOnce`, `FcgiContinued`, `FcgiOneChild`):
  `FcgiInv` holds between two steps. Within one, a request may be given a host and a process,
  lose them and be given others, so the lemmas say of the hosts and the request at hand
  that loads count all others and this one (`Counted`), and of what starts, revives or
  reaps processes that it changes no load (`SameLoads`). A process that is not ours has no
  child and one that is DIED has none left, so that no start can make a second. The
  walk over the processes of a host and that of the trigger over the hosts are
  recursive functions; that they exist, and that every stage of them keeps a property,
  is shown by the first stage that would not (`StepsExist`, `StepsStay`). `AskedOnce`
  counts in a ghost, `asked`, the sockets that have had any byte of a request.
* **mod_scgi** (`ScgiActiveCovers`, `ScgiLoadKept`, `ScgiOneChild`, `ScgiListWhole`,
  `ScgiListSorted`): what makes SCGI harder than FastCGI is the list of processes, sorted by
  load, from which the sort up cuts a process and puts it behind those of a smaller load, and
  the sort down before the first of no smaller load, while others walk through it by position. The
  lemmas on sequences say where each element comes from (`CutElements`, `PutElements`,
  `MovedElements`), so that the list stays one of all processes (`Lists`), and that one sort is
  enough when only the load of the moved one has changed, up or down (`Rises`, `Falls`). Loads
  can be too high after a reconnect, never too low, so `ScgiInv` has equality only while
  `calm`, which remembers that no request was reconnected, is true. That no process gets a second child is shown for each stage of
  the walk, whatever list the stages before have left.
* **Compressed copies** (`CompressRightHolds`): for any number of workers a copy
  that is not whole is being written, by one worker, or its worker died. The
  invariant `CopyInv` has `Owned`: a copy names a worker exactly while this one is at writing it.
  `OwnCopy` is the step of whoever owns a copy, `Elsewhere` that of everybody else. `SentInv`
  adds what a request has been told of the file (`Asked`), that its versions only grow, and
  what each answer has to be, so that an answer is not older than its etag although the file
  changes between any two steps.
* **FastDFS images** (`FastdfsRightHolds`): every file of the store is the image of its
  name. Not inductive alone: what a worker is about to upload has to be the image
  of the name it will upload under (`Resized`), which depends on its request only, so
  that it survives what others upload and delete. `Fitting` follows content, range and answer of
  each worker through its steps; `OnItsWay` says that who was promised an image gets it
  as long as no call fails and nothing is deleted.
* **Cut of an image** (`CropRight`): one of the two sides is scaled to fit and the other one is
  rounded; the cases of the rounding, and that `height - ch` does not wrap around, are
  arithmetic of products, which the lemmas take apart factor by factor. That the rectangle is
  inside of the image is for places up to 100 per cent (`Sensible`).
* **Chunk queue and write backends** (`ChunksRightHolds`): what was sent, followed by what is
  left in the queue, is always what was appended (`Sound`). Within one call of a backend this is
  the invariant of its loop (`InLoop`), kept by each chunk that is written (`Reaches`) and by the
  sharing of what one `writev()` took among its chunks, both recursive functions. "No two
  writes in a row send nothing" is the delicate part: the loop of `network_writev.c` may stop
  with nothing sent just when the window of a file is used up, and then the next call, which
  moves the window, sends something - so `Sound` says that a stalled queue begins with a file
  whose window is used up (`Ready`). Files in the queue are unfinished, as a chunk with
  nothing to send would end a loop early. What comes as something else than the file
  (`altered`) is kept within `Odd`, the places that a length the file has had explains.
* **Framing of an answer** (`ResponseRightHolds`): `AnswerFramed` looks at a queue that is complete,
  but what it says was settled when the header was written, and often before.
  `FramingInv` follows the answer by the place a request is at: undecided with an empty queue
  (also when a request begins again, for the error handler or for another backend); the part of a
  backend's answer that has come (`Coming`: whole chunks, or plain content, or nothing yet when
  the first content is to make it chunked); an answer of the
  server's own (`Own`: a status of an error comes with an empty queue, so that its page stays
  alone); and behind the header (`Believed`) what the client was told about the rest, and that
  only an answer without content has late content: of the others, one that is finished has a
  backend that is `over`. Chunks
  are counted in threes, the units of a queue are a sum over it (`LengthJoined`).

Only model-checked:

* `ContentKept` of `CGI`, and `FcgiRecords`, `GatewayEnv`, `GatewayHeader` (`Whole`), which compare
  what recursive definitions make of data. `CountsAgree`, `ChildrenKept`, `Continued`,
  `AskedOnce` and `Turns` of `MCGateways` join properties of several gateways; the theorems prove
  these one by one, but cannot name the conjunctions, since `MCGateways` reaches modules with
  RECURSIVE operators. That several instances are put side by side adds nothing, as they
  share no variable.
* The parts of `MCModules` without a theorem: request header, static files,
  stat cache, passwords, WebDAV, conditions; `AngelSafe` and the parts proved above are
  conjuncts there, too. `Conditions` and `SplayTree` are recursive, and what they compute for every
  input would need induction over data. What `Auth` lets in depends on the order of lines
  in the configured files, and holds for the files a configuration can name, not for
  any value of its constants.
* The types of `SCGI`, `Compress`, `Fastdfs`, `Crop`, `Chunks`, `Response` as stated: the invariants above imply
  as much of them as is needed.
* Liveness (`Reclaimed`, `IdleExpires`, `GracefulStops`, `Replaced`, `Ends`, `StartTaken`) needs
  fairness, which is beyond the prover.

## 5. What is not modelled, and why

Inside the modelled parts:

* `Connection`: TLS (compiled out by default); the chunks of the queues, which are
  units here and chunks in `Chunks`; the balancing of `mod_proxy`, which is in `Proxy`.
* `Server`: SIGHUP, the traffic limit, the set-up of the sockets. The events of a poll
  are dispatched in any order.
* `Angel`: a handler of a child between `fork()` and `execvp()` is one step; only SIGINT and
  SIGTERM, which the angel forwards, reach a child.
* `Response`: errors that `read()` cannot report for a pipe or a socket without a hang-up
  (`mod_cgi.c:640`, FDEVENT_ERR alone), after which an answer would end without its last chunk.
* `AutoThumb`: the URI, the formats, the headers and the time stamps of the answer;
  stores other than files. `Crop`: formats other than "C", and what ImageMagick
  makes of the numbers.
* `FastCGI`, `SCGI`: the reading of their configuration and their statistics. SCGI's adaptive
  spawning is never used (`min_procs` is set to `max_procs`).
* `Chunks`: Solaris' `sendfilev`, the list of unused chunks. `Auth`: LDAP. `WebDAV`: XML,
  SQL and several workers on one database.
* The connection of `live` has one request each time it is opened; kept-alive ones are in its
  part with two connections.

Parts that are left out:

* other systems' or optional event backends (poll, select, kqueue, devpoll, libev): the
  same interface as epoll's;
* generated code (`configparser.c`, `mod_ssi_exprparser.c`), programs that only come along
  (`lemon.c`, more than 4,000 lines), libraries (`md5.c`, `crc32.c`, `inet_ntop_cache.c`);
* modules that map one string of a request to another and keep nothing: alias, userdir,
  evhost, simple_vhost, mysql_vhost, setenv, expire, access, secdownload, indexfile,
  dirlisting; `mod_evasive` and `mod_trigger_b4_dl`, which count what others keep;
* Lua, SSI and CML: interpreters, which do what their scripts say;
* `gridfs` and `redis`: files without code; what `mod_status` and `mod_accesslog` write:
  formatting; `mod_rrdtool`: a pipe to a program;
* start-up: options, configuration files, listen sockets, users.

## 6. What may come next

1. Proofs: `ContentKept` of `CGI`; the dates and ranges of `StaticFile`.
2. `FdEventPoll`: the array of `fdevent_poll.c` with its list of unused places, as a
   refinement of what `Server` says of epoll.
3. `Evasive` and `TriggerB4Dl`; several workers on the database of `WebDAV`; the sorted
   index of `array.c`.

What a run checks stays within minutes: a new small component becomes a part of
`modules` or `gateways`.
